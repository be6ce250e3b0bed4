---------------------------- MODULE MailboxFeed ----------------------------
(***************************************************************************)
(* What the synchronisation of mailboxes promises a reader of the cache,   *)
(* without its passes, searches, pages, requests and restarts.             *)
(*                                                                         *)
(* The server numbers the messages of a mailbox and may renumber it, which *)
(* begins a new generation.  A feed has a position in the numbers and the  *)
(* messages it lists.  It moves its position forward only together with    *)
(* what it lists: every message passed over is listed at that moment, and  *)
(* none the server still holds is taken from the list.  Only the first     *)
(* step in a generation may leave messages out.                            *)
(***************************************************************************)
EXTENDS Integers

CONSTANT Mailbox

VARIABLES
    generation,     \* of each mailbox
    next,           \* the number its next message gets
    held,           \* the numbers of the messages the server holds
    position,       \* the generation and the number the feed stands at
    omitted,        \* the numbers its first step in the generation left out
    listed          \* the numbers of the generation it lists

feedVars == <<generation, next, held, position, omitted, listed>>
-----------------------------------------------------------------------------
FeedInit ==
    /\ generation = [mb \in Mailbox |-> 1]
    /\ next = [mb \in Mailbox |-> 1]
    /\ held = [mb \in Mailbox |-> {}]
    /\ position = [mb \in Mailbox |-> [gen |-> 0, last |-> 0]]
    /\ omitted = [mb \in Mailbox |-> {}]
    /\ listed = [mb \in Mailbox |-> {}]

Deliver(mb) ==
    /\ held' = [held EXCEPT ![mb] = @ \cup {next[mb]}]
    /\ next' = [next EXCEPT ![mb] = @ + 1]
    /\ UNCHANGED <<generation, position, omitted, listed>>

Withdraw(mb) ==
    /\ \E u \in held[mb] : held' = [held EXCEPT ![mb] = @ \ {u}]
    /\ UNCHANGED <<generation, next, position, omitted, listed>>

\* A message is moved, and gets a number where it goes.
Transfer(from, to) ==
    /\ \E u \in held[from] :
         held' = [mb \in Mailbox |->
                    (IF mb = from THEN held[mb] \ {u} ELSE held[mb])
                      \cup IF mb = to THEN {next[to]} ELSE {}]
    /\ next' = [next EXCEPT ![to] = @ + 1]
    /\ UNCHANGED <<generation, position, omitted, listed>>

OnlyAt(mb) ==
    \A other \in Mailbox \ {mb} :
        /\ next'[other] = next[other]
        /\ held'[other] = held[other]
        /\ position'[other] = position[other]
        /\ omitted'[other] = omitted[other]
        /\ listed'[other] = listed[other]

Renumber(mb) ==
    /\ generation' = [generation EXCEPT ![mb] = @ + 1]
    /\ \A u \in held'[mb] : u < next'[mb]
    /\ listed'[mb] = {}
    /\ OnlyAt(mb)
    /\ UNCHANGED <<position, omitted>>

\* The feed goes on from where it stands in the generation.
Continue(mb) ==
    /\ position[mb].gen = generation[mb]
    /\ position'[mb].gen = generation[mb]
    /\ position[mb].last <= position'[mb].last /\ position'[mb].last < next[mb]
    /\ \A u \in held[mb] :
         \/ u \in listed[mb]
         \/ position[mb].last < u /\ u <= position'[mb].last
         => u \in listed'[mb]
    /\ \A u \in listed'[mb] : u < next[mb]
    /\ OnlyAt(mb)
    /\ UNCHANGED <<generation, next, held, omitted>>

\* It begins in a new generation, and may leave messages out.
Restart(mb) ==
    /\ position[mb].gen < generation[mb]
    /\ position'[mb].gen = generation[mb]
    /\ position'[mb].last < next[mb]
    /\ \A u \in held[mb] : u <= position'[mb].last => u \in listed'[mb] \cup omitted'[mb]
    /\ \A u \in listed'[mb] : u < next[mb]
    /\ OnlyAt(mb)
    /\ UNCHANGED <<generation, next, held>>

\* The mailbox was renumbered meanwhile: what it does counts for nothing.
ComeTooLate(mb) ==
    /\ position[mb].gen <= position'[mb].gen
    /\ position'[mb].gen < generation[mb]
    /\ position[mb].gen = position'[mb].gen => position[mb].last <= position'[mb].last
    /\ \A u \in listed'[mb] : u < next[mb]
    /\ OnlyAt(mb)
    /\ UNCHANGED <<generation, next, held>>

\* A reader opened the message, or moved it back.
List(mb) ==
    /\ \E u \in 0..(next[mb] - 1) : listed' = [listed EXCEPT ![mb] = @ \cup {u}]
    /\ UNCHANGED <<generation, next, held, position, omitted>>

\* Only a message the server no longer holds is taken from the list.
Unlist(mb) ==
    /\ \E u \in listed[mb] \ held[mb] : listed' = [listed EXCEPT ![mb] = @ \ {u}]
    /\ UNCHANGED <<generation, next, held, position, omitted>>

FeedNext ==
    \E mb \in Mailbox :
        \/ Deliver(mb) \/ Withdraw(mb) \/ Renumber(mb)
        \/ \E to \in Mailbox : Transfer(mb, to)
        \/ Continue(mb) \/ Restart(mb) \/ ComeTooLate(mb)
        \/ List(mb) \/ Unlist(mb)

CaughtUpWith(mb) ==
    position[mb] = [gen |-> generation[mb], last |-> next[mb] - 1]

\* Whenever a feed is behind, it comes to the newest message.
FeedProgress == \A mb \in Mailbox : []<>CaughtUpWith(mb)

FeedSafety == FeedInit /\ [][FeedNext]_feedVars

FeedSpec == FeedSafety /\ FeedProgress
=============================================================================
