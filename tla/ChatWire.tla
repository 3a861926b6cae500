------------------------------ MODULE ChatWire ------------------------------
(***************************************************************************)
(* The records of the chat as they are stored in the DHT (wire.rs): what   *)
(* fits into one, and what a reader makes of the lengths that are written  *)
(* in it.  A text is its length in bytes.  A reader gets `size` bytes of   *)
(* what was written, which may be fewer than all.                          *)
(***************************************************************************)
EXTENDS Naturals, Sequences

MAX_RECORD_SIZE == 1000
Sealed(size) == size + 24 + 16      \* encrypt_message: nonce and tag

\* `as u8` and `as u16`
U8(n) == n % 256
U16(n) == n % 65536

Words == 0 .. 65535

Error == [ok |-> FALSE]

\* Where a second length is read: it is the one that was written if the first
\* text ends where it was written to end.  Otherwise two bytes of that text are
\* taken for it.
SecondLength(w) == IF w.len1 = w.text1 THEN {w.len2} ELSE Words

----------------------------------------------------------------------------
(* MessageEnvelope                                                         *)

MessageEnvelope == [name : Nat, content : Nat]

EnvelopeWritten(e) ==
    [size |-> 140 + e.name + e.content, text1 |-> e.name, len1 |-> U8(e.name), len2 |-> U16(e.content)]

\* prepare_one refuses what is too large once it is sealed.
MessageFits(e) == Sealed(140 + e.name + e.content) <= MAX_RECORD_SIZE

\* Mutant: the bytes that are left are not compared with the lengths.
EnvelopeReadUnchecked(w, len2) == [ok |-> TRUE, name |-> w.len1, content |-> len2]

EnvelopeRead(w, len2) ==
    IF w.size < 140 + w.len1 + len2 THEN Error
    ELSE [ok |-> TRUE, name |-> w.len1, content |-> len2]
EnvelopeReads(w) ==
    IF w.size < 140 \/ w.size < 76 + w.len1 THEN {Error}
    ELSE {EnvelopeRead(w, n) : n \in SecondLength(w)}

\* build_msg_signable: the length of the name in a byte, then both texts.
MsgSignable(e) == [len |-> U8(e.name), texts |-> e.name + e.content]

----------------------------------------------------------------------------
(* NexusRecord                                                             *)

NexusWritten(r) ==
    IF 3 + r.name + r.bio > MAX_RECORD_SIZE THEN Error
    ELSE [ok |-> TRUE, size |-> 3 + r.name + r.bio,
          text1 |-> r.name, len1 |-> U8(r.name), len2 |-> U16(r.bio)]

NexusRead(w, len2) ==
    IF w.size < 3 + w.len1 + len2 THEN Error ELSE [ok |-> TRUE, name |-> w.len1, bio |-> len2]
NexusReads(w) ==
    IF w.size = 0 \/ w.size < 3 + w.len1 THEN {Error}
    ELSE {NexusRead(w, n) : n \in SecondLength(w)}

----------------------------------------------------------------------------
(* FeedRecord and SummaryBlock: `fixed` bytes and hashes of 32 bytes each. *)

FEED_FIXED == 161
SUMMARY_FIXED == 129

HashesWritten(fixed, hashes) ==
    IF fixed + 32 * Len(hashes) > MAX_RECORD_SIZE THEN Error
    ELSE [ok |-> TRUE, size |-> fixed + 32 * Len(hashes), count |-> U8(Len(hashes)), hashes |-> hashes]

HashesRead(fixed, w) ==
    IF w.size < fixed \/ w.size < fixed + 32 * w.count THEN Error
    ELSE [ok |-> TRUE, hashes |-> SubSeq(w.hashes, 1, w.count)]

----------------------------------------------------------------------------
(* InviteRecord                                                            *)

InviteWritten(payload) ==
    IF 131 + payload > MAX_RECORD_SIZE THEN Error
    ELSE [ok |-> TRUE, size |-> 131 + payload, len |-> U16(payload)]

InviteRead(w) ==
    IF w.size < 131 \/ w.size < 131 + w.len THEN Error ELSE [ok |-> TRUE, payload |-> w.len]

\* encrypt_invite checks the size once more.
InviteFits(payload) == InviteWritten(payload).ok /\ Sealed(131 + payload) <= MAX_RECORD_SIZE

\* send_dm_nudge cuts the text of the message that it carries.
NudgePayload(text) == IF text > 800 THEN 800 ELSE text
=============================================================================
