----------------------------- MODULE MCMailSync -----------------------------
(* Instances of MailSync for TLC.                                          *)
EXTENDS MailSyncFeed

CONSTANTS inbox, archived

MCMailbox == {inbox, archived}

\* The pass visits the Inbox first.
MCOrder == <<inbox, archived>>

MCInboxOnly == {inbox}

MCInboxOrder == <<inbox>>

=============================================================================
