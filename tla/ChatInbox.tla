------------------------------ MODULE ChatInbox ------------------------------
(***************************************************************************)
(* Direct-message invites: the sender's invite, its nudges (one per epoch, *)
(* from a task of their own) and the retraction at the end (inbox.rs,      *)
(* session.rs), and the recipient's monitor, which polls the inbox topics  *)
(* without its lock while /inbox drains it (inbox_monitor.rs).             *)
(*                                                                         *)
(* One sender writes to one recipient.  An invite is known by the sequence *)
(* number of its record; the retraction holds nothing that decrypts.       *)
(***************************************************************************)
EXTENDS ChatReader

CONSTANTS
    MaxEpoch,       \* bound: epochs that pass
    MaxOpens        \* bound: uses of /inbox

ASSUME InboxAssumption == MaxEpoch \in Nat /\ MaxOpens \in Nat

VARIABLES
    epoch,          \* the minute both clocks show, 1 at first
    invite,         \* the record of the invite feed, or << >>
    invited,        \* the epochs in whose topics it was announced
    nudge,          \* the nudge task: its queue, last_nudged_epoch, nudge_seq
    monitor,        \* InboxMonitorInner: seen_invite_feeds, unread, all_time_count
    poll,           \* poll_once of the background task, between its steps
    bar,            \* StatusState: the unread invites the bar shows
    opening,        \* /inbox has drained the buffer and not yet reset the bar
    opens,          \* how often /inbox was used
    read            \* what /inbox has shown, in order

inviteVars == <<invite, invited, nudge>>
monitorVars == <<monitor, poll, bar, opening, opens, read>>
inboxVars == <<epoch, inviteVars, monitorVars>>

Retraction == [seq |-> 1000000, empty |-> TRUE]     \* u64::MAX / 2

InboxInit ==
    /\ epoch = 1
    /\ invite = << >> /\ invited = {}
    /\ nudge = [queue |-> 0, epoch |-> 0, seq |-> 0]
    /\ monitor = [seen |-> -1, unread |-> << >>, count |-> 0]
    /\ poll = [phase |-> "idle"]
    /\ bar = 0 /\ opening = FALSE /\ opens = 0 /\ read = << >>

EpochPasses ==
    /\ epoch < MaxEpoch
    /\ epoch' = epoch + 1
    /\ UNCHANGED <<setup, inviteVars, monitorVars>>

----------------------------------------------------------------------------
(* The sender.                                                             *)

\* The put and, if it works, the announcement, which may fail unnoticed.
InviteSent(seq) ==
    \/ /\ invite' = [seq |-> seq, empty |-> FALSE]
       /\ invited' = invited \cup {epoch}
       /\ UNCHANGED faults
    \/ /\ MayFail
       /\ faults' = faults + 1
       /\ invite' \in {invite, [seq |-> seq, empty |-> FALSE]}
       /\ UNCHANGED invited

\* A step of the nudge task: the task counts a nudge also when it failed.
Nudge ==
    /\ nudge.queue > 0
    /\ IF epoch = nudge.epoch
       THEN /\ nudge' = [nudge EXCEPT !.queue = @ - 1]
            /\ UNCHANGED <<invite, invited, faults>>
       ELSE /\ InviteSent(nudge.seq + 1)
            /\ nudge' = [queue |-> nudge.queue - 1, epoch |-> epoch, seq |-> nudge.seq + 1]
    /\ UNCHANGED <<setup, epoch, monitorVars>>

----------------------------------------------------------------------------
(* poll_once: a snapshot of what was seen, a scan without the lock, a      *)
(* merge under it; then the task sets the bar to the count it reads.       *)

PollSnapshots ==
    /\ poll.phase = "idle"
    /\ poll' = [phase |-> "scanning", seen |-> monitor.seen]
    /\ UNCHANGED <<setup, epoch, inviteVars, monitor, bar, opening, opens, read>>

\* perform_dht_scan: the topics of this epoch and the last.
PollScans ==
    /\ poll.phase = "scanning"
    /\ \/ /\ poll' = [phase |-> "merging",
                      found |-> IF /\ invited \cap {epoch, epoch - 1} # {}
                                   /\ invite.seq > poll.seen
                                   /\ ~invite.empty
                                THEN <<invite.seq>> ELSE << >>]
          /\ UNCHANGED faults
       \/ /\ MayFail
          /\ faults' = faults + 1
          /\ poll' = [phase |-> "merging", found |-> << >>]
    /\ UNCHANGED <<setup, epoch, inviteVars, monitor, bar, opening, opens, read>>

PollMerges ==
    /\ poll.phase = "merging"
    /\ monitor' = IF poll.found # << >> /\ poll.found[1] > monitor.seen
                  THEN [seen |-> poll.found[1],
                        unread |-> Append(monitor.unread, poll.found[1]),
                        count |-> monitor.count + 1]
                  ELSE monitor
    /\ poll' = [phase |-> "counting"]
    /\ UNCHANGED <<setup, epoch, inviteVars, bar, opening, opens, read>>

PollCounts ==
    /\ poll.phase = "counting"
    /\ poll' = [phase |-> "showing", count |-> Len(monitor.unread)]
    /\ UNCHANGED <<setup, epoch, inviteVars, monitor, bar, opening, opens, read>>

PollShows ==
    /\ poll.phase = "showing"
    /\ bar' = poll.count
    /\ poll' = [phase |-> "idle"]
    /\ UNCHANGED <<setup, epoch, inviteVars, monitor, opening, opens, read>>

----------------------------------------------------------------------------
(* /inbox in dispatch_slash: drain, reset the bar, print.                  *)

InboxTakes ==
    /\ ~opening
    /\ opens < MaxOpens
    /\ opens' = opens + 1
    /\ opening' = TRUE
    /\ read' = read \o monitor.unread
    /\ monitor' = [monitor EXCEPT !.unread = << >>]
    /\ UNCHANGED <<setup, epoch, inviteVars, poll, bar>>

InboxResetsBar ==
    /\ opening
    /\ opening' = FALSE
    /\ bar' = 0
    /\ UNCHANGED <<setup, epoch, inviteVars, monitor, poll, opens, read>>

=============================================================================
