------------------------------- MODULE Reach -------------------------------
(***************************************************************************)
(* Two peers reach each other: a connect call with the nodes and the       *)
(* server it meets (Connect), and the blind relay through which client and *)
(* server connect when the server asks for it (BlindRelay).  In attempt n  *)
(* the client's control connection with the relay is 2n - 1, the server's  *)
(* 2n, and the token of the server's reply is n.                           *)
(***************************************************************************)
EXTENDS Connect, BlindRelay

vars == <<connectVars, relayVars>>

Init == ConnectInit /\ RelayInit /\ asks = setup.asks

ClientConn(n) == 2 * n - 1
ServerConn(n) == 2 * n

\* relay_connection and create_server_relay_connection have a connection with
\* the relay while they wait, and close it when they fail.  Without a call,
\* peers come and go as they like, and sweeps find something to do.
Uses(c) ==
    \/ setup.calls = "none"
    \/ \E n \in 1 .. Attempt :
          \/ c = ClientConn(n) /\ call.phase = "relay" /\ Attempt = n
          \/ c = ServerConn(n) /\ slot = <<n>> /\ n \notin connected

MayLeave(c) == setup.calls = "none" \/ ~Uses(c)

RelayMoves ==
    \/ \E c \in Conn : Uses(c) /\ AcceptSession(c)
    \/ \E c \in Conn : SessionOpens(c)
    \/ \E c \in Conn : setup.calls = "none" /\ OpenFails(c)
    \/ \E m \in asks : Uses(m.conn) /\ Ask(m)
    \/ \E c \in Conn : MayLeave(c) /\ PeerCloses(c)
    \/ \E c \in Conn : SessionReads(c)
    \/ \E c \in Conn : SessionTold(c)
    \/ \E i \in DOMAIN tasks : Bridge(i)
    \/ \E i \in DOMAIN tasks : setup.calls = "none" /\ BridgeFails(i)
    \/ \E i \in DOMAIN tasks : MarkActive(i)
    \/ \E i \in DOMAIN tasks : Teardown(i)
    \/ setup.calls = "none" /\ TimePasses
    \/ Sweep

\* Both sides were told their streams, and the secret stream's first messages
\* go through.
RelayEstablishes ==
    LET n == Attempt
    IN  /\ call.phase = "relay" /\ slot = <<n>> /\ n \notin connected
        /\ answers[ClientConn(n)] # {} /\ answers[ServerConn(n)] # {}
        /\ \E t \in DOMAIN streams : t = n
        /\ call' = [call EXCEPT !.phase = "connected"]
        /\ connected' = connected \cup {n}
        /\ UNCHANGED <<setup, router, net, attempts, puncher, replies, slot, connects>>

\* The relay cannot be reached, closes the channel, or the stream gives up.
RelayFails == call.phase = "relay" /\ Fails

Next ==
    \/ ConnectStep /\ UNCHANGED relayVars
    \/ RelayMoves /\ UNCHANGED <<connectVars, asks>>
    \/ RelayEstablishes /\ UNCHANGED relayVars
    \/ RelayFails /\ UNCHANGED relayVars

Spec == Init /\ [][Next]_vars

\* tokio polls the call, and everything it waits for has a timeout: the
\* requests, the queries, the deadline of the punch and the stream's
\* retransmissions.  The relay closes the channel of a pairing that waits.
CallMoves ==
    \/ \E tid \in Tids : TryNode(tid) \/ SendProbe(tid) \/ SendPunch(tid)
    \/ \E found \in {setup.found, <<>>} : FindPeer(found)
    \/ TryRecords \/ FindNode \/ FindNodeFails \/ NothingLeft
    \/ RequestTimesOut \/ ReadEvent \/ Deadline
    \/ Establishes \/ StreamFails \/ RelayFails

FairSpec == Spec /\ WF_vars(CallMoves /\ UNCHANGED relayVars)

----------------------------------------------------------------------------
(* What reaching a peer means.                                             *)

GoingOn == call.phase \in {"relay", "dial", "probe", "probing", "punch", "final", "race", "connected"}

(***************************************************************************)
(* The client goes on with a session that the server made for this very    *)
(* attempt, though replies are matched by transaction id alone and ids     *)
(* come again; and the server goes on with it, too, unless the client's    *)
(* slot was taken, in which case the reply names a stream of nobody.       *)
(***************************************************************************)
SessionIsShared ==
    GoingOn => /\ call.reply[1] = Attempt
               /\ call.reply[2].udx # 0 =>
                      Attempt \in DOMAIN replies /\ replies[Attempt] = call.reply[2]

(***************************************************************************)
(* Client and server choose matching ways: the client punches only when    *)
(* the server staged a holepunch for it, dials when the server listens or  *)
(* dials (or when both are behind one NAT, or the server has no relays),   *)
(* and is relayed when the server waits at the relay for the same token.   *)
(***************************************************************************)
WaysMatch ==
    (GoingOn /\ call.reply[2].udx # 0) =>
        LET path == call.reply[2].path
        IN  /\ call.path = "punch" => path = "Holepunch" /\ call.reply[2].holepunch # <<>>
            /\ call.path = "dial" => \/ path \in {"Dial", "DialAdvertised", "Listen"}
                                     \/ path = "Holepunch" /\ (setup.same_host \/ setup.announced = <<>>
                                                               \/ call.reply[2].holepunch = <<>>)
            /\ call.path = "relay" <=> path = "Relay"

(***************************************************************************)
(* Client and server are in one connection, on both counts.                *)
(***************************************************************************)
SidesAgree == SessionIsShared /\ WaysMatch

(***************************************************************************)
(* No node is tried twice, apart from addresses the caller gives twice,    *)
(* and a call that gives up has tried every address it was given or found. *)
(***************************************************************************)
EveryNodeOnce ==
    /\ \A i, j \in DOMAIN attempts :
          (i < j /\ attempts[i] = attempts[j]) => j <= Len(setup.known)
    /\ (call.phase = "failed" /\ call.stage = 4 /\ setup.calls = "connect") =>
          Range(setup.known) \cup Range(Holders(call.found)) \cup Range(RecordRelays(call.found))
              \cup Range(setup.near) \subseteq Range(attempts)

(***************************************************************************)
(* A call ends, through any number of nodes that answer late, with errors  *)
(* or not at all, and the rounds of a holepunch.                           *)
(***************************************************************************)
CallEnds == call.phase = "next" ~> call.phase \in {"connected", "failed"}

=============================================================================
