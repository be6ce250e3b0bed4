---------------------------- MODULE MCDaemonParts ----------------------------
(***************************************************************************)
(* Instances for TLC of the parts of the daemon that meet only the world   *)
(* outside it: the four of a mail provider, the start of a process, and    *)
(* the image cache.  They share no state with each other, so a behaviour   *)
(* runs one of them and leaves the others where they start.                *)
(***************************************************************************)
EXTENDS ImapSession, MailSubmission, GraphRequest, GraphFolders, DaemonStart, AvatarFetch

CONSTANTS answering, plain, draft, near, far, work, home

VARIABLE part

providerVars == <<imapVars, sendVars, actionVars, folderVars>>

partVars == <<part, providerVars, hostVars, avatarVars>>

\* One request sends a saved draft, the other answers a message.
MCSendRequest == {answering, plain}

MCDraftOf == [r \in MCSendRequest |-> IF r = plain THEN draft ELSE NoDraft]

\* A message of each of two accounts.
MCAccountOf == [m \in {near, far} |-> IF m = near THEN work ELSE home]

\* One folder has a well-known name, and if one is hidden it is that one.
FolderStart ==
    /\ wellKnown = {CHOOSE f \in GraphFolder : TRUE}
    /\ hidden \in {{}, wellKnown}

\* One of the images may be in the cache already, fresh or stale.
ImageStart == \A u \in ImageUrl \ {CHOOSE v \in ImageUrl : TRUE} : cache[u] = "none"

\* A part that does not run starts in one of its initial states.
PartsInit ==
    /\ part \in {"imap", "submission", "action", "folders", "process", "images"}
    /\ ImapInit /\ (part # "imap" => serverCaps = {})
    /\ SendInit /\ (part # "submission" => transport = "missing")
    /\ ActionInit
    /\ FolderInit /\ FolderStart
    /\ part # "folders" =>
         /\ hidden = {}
         /\ parentOf = [f \in GraphFolder |-> Root]
    /\ HostInit /\ (part # "process" => ~dbFile)
    /\ AvatarInit /\ ImageStart /\ (part # "images" => cache = [u \in ImageUrl |-> "none"])

PartsNext ==
    /\ UNCHANGED part
    /\ \/ part = "imap" /\ ImapNext
          /\ UNCHANGED <<sendVars, actionVars, folderVars, hostVars, avatarVars>>
       \/ part = "submission" /\ SendNext
          /\ UNCHANGED <<imapVars, actionVars, folderVars, hostVars, avatarVars>>
       \/ part = "action" /\ ActionNext
          /\ UNCHANGED <<imapVars, sendVars, folderVars, hostVars, avatarVars>>
       \/ part = "folders" /\ FolderNext
          /\ UNCHANGED <<imapVars, sendVars, actionVars, hostVars, avatarVars>>
       \/ part = "process" /\ HostNext /\ UNCHANGED <<providerVars, avatarVars>>
       \/ part = "images" /\ AvatarNext /\ UNCHANGED <<providerVars, hostVars>>

PartsSpec ==
    /\ PartsInit /\ [][PartsNext]_partVars
    /\ ImapFairness /\ SendFairness /\ ActionFairness /\ FolderFairness
    /\ HostFairness /\ AvatarFairness

\* Every variable of every part has its type.
PartsTypeOK ==
    /\ ImapTypeOK /\ SendTypeOK /\ ActionTypeOK /\ FolderTypeOK
    /\ HostTypeOK /\ AvatarTypeOK

\* Every request to a provider or for an image comes to its end, whatever fails:
\* lanes, mutexes, slots and tokens are given back on every path, and nothing is
\* tried for ever.  A service that is wanted comes to serve.  Excepted is, by name,
\* what waits where the code sets no deadline: for an SMTP server silent in its TLS
\* handshake (HeldUp) or Online Accounts (HeldByGoa, ~TokenFree, ServiceHung), while
\* these keep silent and the request is not aborted, with what is queued behind it;
\* and a service that every start refuses (OpenSocketLeft, NewerSchema).
\* (Requests are finitely many, one that has ended stays so, and the parts that do
\* not run are at rest, so that "again and again all are" says that each ends.)
NothingHangs ==
    []<>(/\ ImapAtRest /\ SendAtRest /\ ActionsAtRest
         /\ ListingsAtRest /\ FetchesAtRest
         /\ HostServed)
=============================================================================
