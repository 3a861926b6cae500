------------------------------ MODULE ChatPeople ------------------------------
(***************************************************************************)
(* The people a chat user knows: the friends file, which the user's        *)
(* commands append to and rewrite (profile.rs) while a background task     *)
(* refreshes one friend's published name at a time (nexus.rs), and the     *)
(* shared file of known users, which every chat process and task reads,    *)
(* changes and writes back (known_users.rs).  A name is the number of the  *)
(* version its owner published, 0 for none; a bio is kept and refreshed in *)
(* the same way as the name and left out.                                  *)
(***************************************************************************)
EXTENDS Integers, Sequences, FiniteSets, SequencesExt

CONSTANTS
    Key,            \* public keys
    Alias,          \* what the user may call them, "" for nothing
    UsersCap,       \* entries of the known-users file
    Writer,         \* tasks and processes that write the known-users file
    MaxVersion,     \* bound: names one key publishes
    MaxCommands,    \* bound: /friend and /unfriend
    MaxSightings    \* bound: names that are seen

ASSUME PeopleAssumption ==
    /\ UsersCap \in Nat \ {0}
    /\ MaxVersion \in Nat /\ MaxCommands \in Nat /\ MaxSightings \in Nat

VARIABLES
    published,      \* the name each key publishes now
    friends,        \* the lines of the friends file
    given,          \* the friends the user has saved, with their aliases
    editing,        \* /unfriend has read the file: <<key, lines>> or << >>
    commands, sightings,
    refresher,      \* refresh_one_friend
    users,          \* the entries of the known-users file
    updating        \* per writer, an update that has read the file, or << >>

peopleVars == <<published, friends, given, editing, commands, sightings,
                refresher, users, updating>>

PeopleInit ==
    /\ published = [k \in Key |-> 1]
    /\ friends = << >> /\ given = {} /\ editing = << >>
    /\ commands = 0 /\ sightings = 0
    /\ refresher = [phase |-> "idle", index |-> 0]
    /\ users = << >>
    /\ updating = [w \in Writer |-> << >>]

\* The key's owner publishes another name (publish_nexus_once).
NamePublished(k) ==
    /\ published[k] < MaxVersion
    /\ published' = [published EXCEPT ![k] = @ + 1]
    /\ UNCHANGED <<friends, given, editing, commands, sightings, refresher, users, updating>>

----------------------------------------------------------------------------
(* The friends file.                                                       *)

\* load_friends: in the order of the first entries, the last entry wins.
LoadFriends(lines) ==
    LET firsts == {i \in DOMAIN lines : \A j \in 1 .. i - 1 : lines[j].key # lines[i].key}
        last(k) == lines[CHOOSE i \in DOMAIN lines :
                            /\ lines[i].key = k
                            /\ \A j \in i + 1 .. Len(lines) : lines[j].key # k]
        keys == SelectSeq([i \in DOMAIN lines |->
                              IF i \in firsts THEN <<lines[i].key>> ELSE << >>],
                          LAMBDA s : s # << >>)
    IN  [n \in DOMAIN keys |-> last(keys[n][1])]

Without(lines, k) == SelectSeq(lines, LAMBDA line : line.key # k)

\* save_friend by /friend and by the friends command.
Befriend(k, alias) ==
    /\ commands < MaxCommands
    /\ commands' = commands + 1
    /\ friends' = Append(friends, [key |-> k, alias |-> alias, name |-> 0])
    /\ given' = given \cup {<<k, alias>>}
    /\ UNCHANGED <<published, editing, sightings, refresher, users, updating>>

\* remove_friend by /unfriend: it reads the file, and writes what is left.
UnfriendReads(k) ==
    /\ commands < MaxCommands
    /\ editing = << >>
    /\ commands' = commands + 1
    /\ editing' = <<Without(friends, k)>>
    /\ UNCHANGED <<published, friends, given, sightings, refresher, users, updating>>

UnfriendWrites ==
    /\ editing # << >>
    /\ friends' = editing[1]
    /\ editing' = << >>
    /\ UNCHANGED <<published, given, commands, sightings, refresher, users, updating>>

----------------------------------------------------------------------------
(* refresh_one_friend.                                                     *)

RefreshLoads ==
    LET loaded == LoadFriends(friends)
        i == refresher.index % Len(loaded)
    IN  /\ refresher.phase = "idle"
        /\ loaded # << >>
        /\ refresher' = [phase |-> "asking", index |-> i + 1, friend |-> loaded[i + 1]]
        /\ UNCHANGED <<published, friends, given, editing, commands, sightings, users, updating>>

\* The answer of the DHT: a name that is not the one in the file.  (The task
\* also passes it to update_shared, as one of the writers below.)
RefreshLearns ==
    LET name == published[refresher.friend.key]
    IN  /\ refresher.phase = "asking"
        /\ refresher' = IF name # refresher.friend.name
                        THEN [refresher EXCEPT !.phase = "removing", !.friend.name = name]
                        ELSE [phase |-> "idle", index |-> refresher.index]
        /\ UNCHANGED <<published, friends, given, editing, commands, sightings, users, updating>>

\* No answer: the next tick goes on with the next friend.
RefreshFails ==
    /\ refresher.phase = "asking"
    /\ refresher' = [phase |-> "idle", index |-> refresher.index]
    /\ UNCHANGED <<published, friends, given, editing, commands, sightings, users, updating>>

\* remove_friend and save_friend of what was loaded before the question.
RefreshReads ==
    /\ refresher.phase = "removing"
    /\ refresher' = [phase |-> "writing", index |-> refresher.index, friend |-> refresher.friend,
                     lines |-> Without(friends, refresher.friend.key)]
    /\ UNCHANGED <<published, friends, given, editing, commands, sightings, users, updating>>

RefreshWrites ==
    /\ refresher.phase = "writing"
    /\ friends' = refresher.lines
    /\ refresher' = [phase |-> "saving", index |-> refresher.index, friend |-> refresher.friend]
    /\ UNCHANGED <<published, given, editing, commands, sightings, users, updating>>

RefreshSaves ==
    /\ refresher.phase = "saving"
    /\ friends' = Append(friends, refresher.friend)
    /\ refresher' = [phase |-> "idle", index |-> refresher.index]
    /\ UNCHANGED <<published, given, editing, commands, sightings, users, updating>>

----------------------------------------------------------------------------
(* The known-users file: the lock covers the write, not the read before.   *)

\* Mutant: a key that is listed is listed again.
AppendsAlways(entries, k, name) ==
    LET all == Append(entries, [key |-> k, name |-> name])
    IN  IF Len(all) > UsersCap THEN Tail(all) ELSE all

\* SharedKnownUsers::update
UsersUpdated(entries, k, name) ==
    LET at == {i \in DOMAIN entries : entries[i].key = k}
        all == IF at = {} THEN Append(entries, [key |-> k, name |-> name])
               ELSE [i \in DOMAIN entries |->
                        IF i \in at THEN [key |-> k, name |-> name] ELSE entries[i]]
    IN  IF Len(all) > UsersCap THEN Tail(all) ELSE all

\* update_shared, by a task that sees a name: load, then update and write.
UpdateReads(w, k, name) ==
    /\ updating[w] = << >>
    /\ sightings < MaxSightings
    /\ name \in 1 .. published[k]
    /\ sightings' = sightings + 1
    /\ [key |-> k, name |-> name] \notin Range(users)
    /\ updating' = [updating EXCEPT ![w] = <<UsersUpdated(users, k, name)>>]
    /\ UNCHANGED <<published, friends, given, editing, commands, refresher, users>>

UpdateWrites(w) ==
    /\ updating[w] # << >>
    /\ users' = updating[w][1]
    /\ updating' = [updating EXCEPT ![w] = << >>]
    /\ UNCHANGED <<published, friends, given, editing, commands, sightings, refresher>>

=============================================================================
