---------------------------- MODULE MailSyncFeed ----------------------------
(***************************************************************************)
(* MailSync implements MailboxFeed: the stored cursor is the position, the *)
(* rows of a mailbox whose ids name it and its generation are the list.    *)
(***************************************************************************)
EXTENDS MailSync

HeldUids == [mb \in Mailbox |-> Uids(mb)]

ListedUids ==
    [mb \in Mailbox |->
        {r.id.uid : r \in {q \in rows : /\ q.mailbox = mb
                                        /\ q.id.home = mb
                                        /\ q.id.gen = generation[mb]}}]

Feed ==
    INSTANCE MailboxFeed
        WITH next <- nextUid,
             held <- HeldUids,
             position <- cursor,
             omitted <- skipped,
             listed <- ListedUids

\* However passes, requests, renumberings, failures and restarts interleave, a
\* reader sees a feed that moves forward with what it lists, takes nothing off
\* its list that the server holds and comes to the newest message.
ImplementsFeed == Feed!FeedSpec
=============================================================================
