----------------------------- MODULE MCDhtNode -----------------------------
(***************************************************************************)
(* A small network for DhtNode: two bootstrap nodes, the first of which    *)
(* knows the third address; that one is ours, as the others see us, and we *)
(* learn of it, and of our id, only from them.  Ids 1 and 2 share a bucket *)
(* of the table under our id.                                              *)
(***************************************************************************)
EXTENDS DhtNode

MCIdOf == <<1, 2, 4>>
MCHostOf == <<"h1", "h2", "me">>
MCKnows == << <<3>>, <<>>, <<2>> >>
MCBootstrap == <<1, 2>>

\* Every combination of the optional fields of a message.
Option(x) == {None, Some(x)}
Requests == [tid : {7}, to : Addr, id : Option("id"), token : Option("token"), internal : BOOLEAN,
             command : {0, 4}, target : Option("target"), value : Option("value")]
Responses == [tid : {7}, to : Addr, id : Option("id"), token : Option("token"),
              closer_nodes : {<<>>, <<1>>, <<1, 2>>}, error : {0, 2}, value : Option("value")]

\* What is written is read back: each field is found where its flag says.
ASSUME MessagesRoundTrip ==
    /\ \A req \in Requests : decode_request(encode_request(req)) = req
    /\ \A res \in Responses : decode_response(encode_response(res)) = res

=============================================================================
