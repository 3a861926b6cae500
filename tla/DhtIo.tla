-------------------------------- MODULE DhtIo --------------------------------
(***************************************************************************)
(* The request layer of a DHT node (io.rs) as operators on a record: the   *)
(* requests in flight by transaction id, the congestion window, the        *)
(* requests waiting for it, and the two secrets that tokens are made from. *)
(* Time is left out: any request in flight may reach its deadline.         *)
(***************************************************************************)
EXTENDS Naturals, Sequences, FiniteSets, SequencesExt, Functions

CONSTANTS
    MaxWindow,      \* max_window: requests sent in a quarter of the window
    DefaultRetries, \* DEFAULT_RETRIES
    RotateAfter,    \* drains between two rotations of the secrets (10)
    Unparsable      \* destinations that do not parse as a socket address

----------------------------------------------------------------------------
(* The wire format of the messages (messages.rs): a type byte, a byte of   *)
(* flags, the transaction id and the destination, then the fields the      *)
(* flags announce, in a fixed order.  A message is the sequence of its     *)
(* fields; the bytes inside a field are left out.  The same flags mean     *)
(* different things in requests and in responses.                          *)

\* Rust's Option: None, or a sequence of one element.
None == <<>>
Some(x) == <<x>>

FLAG_ID == 1
FLAG_TOKEN == 2
FLAG_INTERNAL_OR_CLOSER == 4
FLAG_TARGET_OR_ERROR == 8
FLAG_VALUE == 16

FlagIf(condition, flag) == IF condition THEN {flag} ELSE {}

\* Lists and error codes are left out of the message when empty or zero.
Unless(absent, x) == IF x = absent THEN None ELSE Some(x)

encode_request(req) ==
    [type |-> "request",
     flags |-> FlagIf(req.id # None, FLAG_ID) \cup FlagIf(req.token # None, FLAG_TOKEN)
         \cup FlagIf(req.internal, FLAG_INTERNAL_OR_CLOSER)
         \cup FlagIf(req.target # None, FLAG_TARGET_OR_ERROR)
         \cup FlagIf(req.value # None, FLAG_VALUE),
     fields |-> <<req.tid, req.to>> \o req.id \o req.token
                  \o <<req.command>> \o req.target \o req.value]

encode_response(res) ==
    [type |-> "response",
     flags |-> FlagIf(res.id # None, FLAG_ID) \cup FlagIf(res.token # None, FLAG_TOKEN)
         \cup FlagIf(res.closer_nodes # <<>>, FLAG_INTERNAL_OR_CLOSER)
         \cup FlagIf(res.error # 0, FLAG_TARGET_OR_ERROR)
         \cup FlagIf(res.value # None, FLAG_VALUE),
     fields |-> <<res.tid, res.to>> \o res.id \o res.token
                  \o Unless(<<>>, res.closer_nodes) \o Unless(0, res.error) \o res.value]

\* The field that a flag announces: the fields of the smaller flags, of those
\* that stand for a field, come before it.
FieldOf(m, present, flag) ==
    IF flag \in present
    THEN Some(m.fields[2 + Cardinality({f \in present : f <= flag})])
    ELSE None

OrElse(option, x) == IF option = None THEN x ELSE option[1]

\* In a request, the command is always there, between token and target.
decode_request(m) ==
    LET present == m.flags \cup {FLAG_INTERNAL_OR_CLOSER}
    IN  [tid |-> m.fields[1], to |-> m.fields[2],
         id |-> FieldOf(m, present, FLAG_ID),
         token |-> FieldOf(m, present, FLAG_TOKEN),
         internal |-> FLAG_INTERNAL_OR_CLOSER \in m.flags,
         command |-> OrElse(FieldOf(m, present, FLAG_INTERNAL_OR_CLOSER), 0),
         target |-> FieldOf(m, present, FLAG_TARGET_OR_ERROR),
         value |-> FieldOf(m, present, FLAG_VALUE)]

decode_response(m) ==
    [tid |-> m.fields[1], to |-> m.fields[2],
     id |-> FieldOf(m, m.flags, FLAG_ID),
     token |-> FieldOf(m, m.flags, FLAG_TOKEN),
     closer_nodes |-> OrElse(FieldOf(m, m.flags, FLAG_INTERNAL_OR_CLOSER), <<>>),
     error |-> OrElse(FieldOf(m, m.flags, FLAG_TARGET_OR_ERROR), 0),
     value |-> FieldOf(m, m.flags, FLAG_VALUE)]

----------------------------------------------------------------------------
(* CongestionWindow.                                                       *)

NewWindow == [i |-> 0, total |-> 0, quarter |-> [q \in 0 .. 3 |-> 0]]

IsFull(w) == w.total >= 2 * MaxWindow \/ w.quarter[w.i] >= MaxWindow

WindowRecv(w) ==
    IF w.quarter[w.i] > 0
    THEN [w EXCEPT !.quarter[w.i] = @ - 1, !.total = @ - 1]
    ELSE w

WindowSend(w) == [w EXCEPT !.total = @ + 1, !.quarter[w.i] = @ + 1]

WindowDrain(w) ==
    LET i == (w.i + 1) % 4
    IN  [w EXCEPT !.i = i, !.total = @ - w.quarter[i], !.quarter[i] = 0]

----------------------------------------------------------------------------
(* Secrets and tokens.  A secret is a seed and how often it was hashed.    *)

NoSecrets == <<>>
InitSecrets(io) ==
    IF io.secrets = NoSecrets
    THEN [io EXCEPT !.secrets = << <<"s0", 0>>, <<"s1", 0>> >>]
    ELSE io

\* The token for a host under secret[index]; the secrets were initialised.
Token(io, host, index) == <<host, io.secrets[index + 1]>>

ValidateToken(io, host, token) ==
    token = Token(io, host, 0) \/ token = Token(io, host, 1)

\* Mutant: the secrets do not change places.
RotateInPlace(secrets) == <<secrets[1], <<secrets[2][1], secrets[2][2] + 1>> >>

\* swap(0, 1), then hash the old first secret.
Rotate(secrets) == <<secrets[2], <<secrets[1][1], secrets[1][2] + 1>> >>

----------------------------------------------------------------------------
(* Requests in flight.                                                     *)

NewIo(first_tid) ==
    [inflight |-> [t \in {} |-> {}], congestion |-> NewWindow, pending |-> <<>>,
     tid |-> first_tid, secrets |-> NoSecrets, rotate_countdown |-> RotateAfter]

SendInflight(io, tid) ==
    [io EXCEPT !.inflight[tid].sent = @ + 1, !.congestion = WindowSend(@)]

\* The requests waiting for the window are sent while there is room; one that
\* was answered or timed out meanwhile is skipped.
RECURSIVE SendPending(_)
SendPending(io) ==
    IF IsFull(io.congestion) \/ io.pending = <<>> THEN io
    ELSE SendPending([(IF Head(io.pending) \in DOMAIN io.inflight
                       THEN SendInflight(io, Head(io.pending)) ELSE io)
                         EXCEPT !.pending = Tail(@)])

Rotates(io) == io.secrets # NoSecrets /\ io.rotate_countdown = 1

RotateSecrets(io) ==
    IF io.secrets = NoSecrets THEN io
    ELSE IF Rotates(io)
    THEN [io EXCEPT !.rotate_countdown = RotateAfter, !.secrets = Rotate(@)]
    ELSE [io EXCEPT !.rotate_countdown = @ - 1]

IoDrain(io) == SendPending([RotateSecrets(io) EXCEPT !.congestion = WindowDrain(@)])

Insert(io, params, sent, retries) ==
    [io EXCEPT !.tid = @ + 1,
               !.inflight = [t \in DOMAIN @ \cup {io.tid} |->
                   IF t = io.tid
                   THEN [to |-> params.to, internal |-> params.internal,
                         target |-> params.target, sent |-> sent, retries |-> retries]
                   ELSE @[t]]]

\* An address that does not parse gets no request and no transaction id.
Creates(params) == params.to \notin Unparsable

CreateRequest(io, params) ==
    IF ~Creates(params) THEN io
    ELSE IF IsFull(io.congestion)
    THEN [Insert(io, params, 0, DefaultRetries) EXCEPT !.pending = Append(@, io.tid)]
    ELSE SendInflight(Insert(io, params, 0, DefaultRetries), io.tid)

\* Sent once from a socket of the caller, outside the window, never again.
SendRequestViaSocket(io, params) ==
    IF Creates(params) THEN Insert(io, params, 1, 0) ELSE io

\* A relayed request takes a transaction id of its own, unless it keeps the
\* one of the request it passes on; nothing waits for an answer.
Relay(io, to, preserve_tid) ==
    IF to \in Unparsable \/ preserve_tid THEN io ELSE [io EXCEPT !.tid = @ + 1]

Resolve(io, tid) ==
    [io EXCEPT !.inflight = [t \in DOMAIN @ \ {tid} |-> @[t]],
               !.congestion = WindowRecv(@)]

\* Of the requests whose deadline passed, those with retries left are sent
\* again, whatever the window says; the others are removed.
TimedOut(io, due) == {t \in due : io.inflight[t].sent > io.inflight[t].retries}

RECURSIVE Resend(_, _)
Resend(io, tids) ==
    IF tids = <<>> THEN io ELSE Resend(SendInflight(io, Head(tids)), Tail(tids))

RECURSIVE ResolveAll(_, _)
ResolveAll(io, tids) ==
    IF tids = <<>> THEN io ELSE ResolveAll(Resolve(io, Head(tids)), Tail(tids))

CheckTimeouts(io, due) ==
    ResolveAll(Resend(io, SetToSeq(due \ TimedOut(io, due))), SetToSeq(TimedOut(io, due)))

\* Every reply without an error carries a token for its receiver, made from
\* the second secret; tokens are made by initialising the secrets first.
SendReply(io, include_token) == IF include_token THEN InitSecrets(io) ELSE io

=============================================================================
