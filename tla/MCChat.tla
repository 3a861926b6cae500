------------------------------- MODULE MCChat -------------------------------
(***************************************************************************)
(* The situations in which the chat is checked.                            *)
(***************************************************************************)
EXTENDS Chat, ChatWire

Situation(parts, texts, batch, feeds, own, dm, ends, faultBudget) ==
    [parts |-> parts, texts |-> texts, batch |-> batch, feeds |-> feeds, own |-> own,
     dm |-> dm, invite |-> dm, ends |-> ends, faults |-> faultBudget]

MCSetups ==

    { \* an author alone: refused texts, a full queue, failing puts, rotation
      Situation({"session", "publisher"}, <<TRUE, FALSE, TRUE, TRUE>>, 2, 2, FALSE, FALSE, TRUE, 1),
      Situation({"session", "publisher"}, <<FALSE, TRUE, TRUE, TRUE, TRUE>>, 2, 1, FALSE, FALSE, TRUE, 0),
      Situation({"session", "publisher"}, <<TRUE>>, 1, 3, FALSE, FALSE, TRUE, 2),
      \* an author and a reader, and nothing fails: the author's own reader;
      \* another's; rotation
      Situation({"session", "publisher", "reader"}, <<TRUE, TRUE, TRUE>>, 2, 1, TRUE, FALSE, TRUE, 0),
      Situation({"session", "publisher", "reader"}, <<TRUE, TRUE, TRUE, TRUE>>, 2, 1, FALSE, FALSE, FALSE, 0),
      Situation({"session", "publisher", "reader"}, <<TRUE, TRUE, TRUE>>, 1, 2, FALSE, FALSE, FALSE, 0),
      \* a reader that cannot fetch everything
      Situation({"session", "publisher", "reader"}, <<TRUE, TRUE, TRUE>>, 3, 1, FALSE, FALSE, FALSE, 2),
      Situation({"session", "publisher", "reader"}, <<TRUE, TRUE, TRUE, TRUE>>, 4, 1, TRUE, FALSE, FALSE, 1),
      \* a direct message and its recipient
      Situation({"session", "inbox"}, <<TRUE, TRUE>>, 2, 1, FALSE, TRUE, TRUE, 0),
      Situation({"session", "inbox"}, <<TRUE>>, 2, 1, FALSE, TRUE, FALSE, 1),
      \* friends and known users
      Situation({"friends"}, << >>, 1, 1, FALSE, FALSE, FALSE, 0),
      Situation({"users"}, << >>, 1, 1, FALSE, FALSE, FALSE, 0) }

----------------------------------------------------------------------------
(* The records of ChatWire, with texts and lists on both sides of every    *)
(* limit.                                                                  *)

Names == {0, 1, 255, 256, 300, 520}
Contents == {0, 1, 255, 563, 564, 565, 819, 820, 821}
Read(name, content) == [ok |-> TRUE, name |-> name, content |-> content]

EnvelopesReadBack ==
    \A e \in [name : Names, content : Contents] :
        LET w == EnvelopeWritten(e)
        IN  MessageFits(e) =>
               IF e.name <= 255
               THEN /\ EnvelopeReads(w) = {Read(e.name, e.content)}
                    /\ \A size \in {0, 76, 139, 140, w.size - 1} :
                          size < w.size => EnvelopeReads([w EXCEPT !.size = size]) = {Error}
               ELSE Read(e.name, e.content) \notin EnvelopeReads(w)

NexusesReadBack ==
    \A r \in [name : Names, bio : {0, 1, 741, 742, 743, 996, 997, 998}] :
        LET w == NexusWritten(r)
        IN  (w.ok /\ r.name <= 255) => NexusReads(w) = {[ok |-> TRUE, name |-> r.name, bio |-> r.bio]}

HashListsReadBack ==
    \A fixed \in {FEED_FIXED, SUMMARY_FIXED}, n \in {0, 1, 26, 27, 28, 256} :
        LET hashes == [i \in 1 .. n |-> i]
            w == HashesWritten(fixed, hashes)
        IN  w = Error \/ HashesRead(fixed, w) = [ok |-> TRUE, hashes |-> hashes]

NudgesReadBack ==
    \A text \in {0, 1, 799, 800, 801, 70000} :
        LET payload == NudgePayload(text)
        IN  InviteFits(payload) /\ InviteRead(InviteWritten(payload)) = [ok |-> TRUE, payload |-> payload]

\* Two messages with the same bytes to sign are divided alike.
SignedApart ==
    \A d, e \in [name : {n \in Names : n <= 255}, content : Contents] :
        MsgSignable(d) = MsgSignable(e) => d = e

\* The author's feed and its summary blocks, as they are now.
FeedReadsBack ==
    /\ HashesRead(FEED_FIXED, HashesWritten(FEED_FIXED, feed.hashes)) = [ok |-> TRUE, hashes |-> feed.hashes]
    /\ \A block \in Blocks(feed.summary) :
          HashesRead(SUMMARY_FIXED, HashesWritten(SUMMARY_FIXED, block[3])) = [ok |-> TRUE, hashes |-> block[3]]

(***************************************************************************)
(* What the chat accepts for a record is read from it as it was written,   *)
(* the author's feed at any time included, and one that is cut off is      *)
(* refused; only a name of more than 255 bytes, of which one byte keeps    *)
(* the length, does not survive (serialize and deserialize of wire.rs,     *)
(* prepare_one, send_dm_nudge).                                            *)
(***************************************************************************)
RecordsReadBack ==
    FeedReadsBack /\ EnvelopesReadBack /\ NexusesReadBack /\ HashListsReadBack /\ NudgesReadBack
        /\ SignedApart

=============================================================================
