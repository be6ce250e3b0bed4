------------------------------ MODULE MailSync ------------------------------
(***************************************************************************)
(* Incremental IMAP synchronisation of one account into the SQLite cache,  *)
(* together with everything that races with it: mail actions              *)
(* (mail.action), message opens (mail.get), the server's own changes,      *)
(* failures and daemon restarts.                                           *)
(*                                                                         *)
(* A synchronisation pass visits the mailboxes in order, Inbox first.  For *)
(* each it reads the persisted cursor and the newest cached ids, SELECTs   *)
(* the mailbox, SEARCHes one bounded UID window, FETCHes the envelopes,    *)
(* SELECTs again to confirm UIDVALIDITY, and applies the page in one       *)
(* transaction.  Every one of those is a separate await in the code, so    *)
(* each is an action here and anything may happen between two of them.     *)
(*                                                                         *)
(* A message is its date: the n-th message to reach the server is n, and   *)
(* "newest" means "largest".  A UIDVALIDITY value is a generation, counted *)
(* from 1; generation 0 in a cursor stands for "no cursor stored".         *)
(***************************************************************************)
EXTENDS Integers, Sequences, FiniteSets

CONSTANTS
    Mailbox,        \* the mailboxes of the account
    Order,          \* the sequence in which one pass visits them
    Archive,        \* the mailbox archive and trash move to
    Actor,          \* concurrent mail.action requests (one per connection)
    Reader,         \* concurrent mail.get requests
    PageLimit,      \* SYNC_PAGE_SIZE
    SearchSpan,     \* IMAP_INCREMENTAL_UID_SEARCH_SPAN
    BootstrapSpan,  \* IMAP_BOOTSTRAP_MAX_SEARCH_WINDOWS * the search span
    ReconcileLimit, \* SYNC_FLAG_RECONCILE_SIZE
    MaxMessages,    \* bound: messages that reach the account
    MaxUid,         \* bound: UIDs assigned in one generation of a mailbox
    MaxGeneration,  \* bound: UIDVALIDITY generations of a mailbox
    MaxExternal,    \* bound: changes made by other mail clients
    MaxRequests,    \* bound: mail.action and mail.get requests
    MaxFaults       \* bound: network failures, lost replies and crashes

ASSUME MailboxAssumption ==
    /\ Archive \in Mailbox
    /\ Order \in Seq(Mailbox)
    /\ Order # <<>>

ASSUME LimitAssumption ==
    /\ PageLimit \in Nat \ {0}
    /\ SearchSpan \in Nat \ {0}
    /\ BootstrapSpan \in Nat \ {0}
    /\ ReconcileLimit \in Nat

ASSUME BoundAssumption ==
    /\ MaxMessages \in Nat
    /\ MaxUid \in Nat
    /\ MaxGeneration \in Nat \ {0}
    /\ MaxExternal \in Nat
    /\ MaxRequests \in Nat
    /\ MaxFaults \in Nat

VARIABLES
    \* the IMAP server (external)
    generation,     \* UIDVALIDITY of each mailbox
    nextUid,        \* UIDNEXT of each mailbox
    box,            \* the messages each mailbox holds
    arrived,        \* how many messages have reached the account
    \* SQLite, which survives a restart
    rows,           \* table messages
    cursor,         \* table mailbox_sync_state
    \* tasks in the daemon's memory
    sync,           \* the synchronisation pass (background_syncing: one per account)
    act,            \* the mail.action requests in flight
    get,            \* the mail.get requests in flight
    \* history and bounds
    skipped,        \* the UIDs a bootstrap left out on purpose
    external,
    requests,
    faults

serverVars == <<generation, nextUid, box, arrived>>
cacheVars == <<rows, cursor, skipped>>
taskVars == <<sync, act, get>>
boundVars == <<external, requests, faults>>
vars == <<serverVars, cacheVars, taskVars, boundVars>>

-----------------------------------------------------------------------------
(* Types                                                                   *)

Entry == [uid : Nat, msg : Nat, seen : BOOLEAN]

\* A stable message id: StableImapId names the mailbox, generation and UID.
Id == [home : Mailbox, gen : Nat, uid : Nat]

Row == [id : Id, mailbox : Mailbox, msg : Nat, seen : BOOLEAN, loaded : BOOLEAN]

Cursor == [gen : Nat, last : Nat]

NoCursor == [gen |-> 0, last |-> 0]

Change ==
    [kind : {"mark_read"}, seen : BOOLEAN]
        \cup [kind : {"archive"}]
        \cup [kind : {"move"}, dest : Mailbox]

SyncState ==
    [pc : {"idle", "begun", "selected", "searched", "fetched", "confirmed"},
     at : DOMAIN Order,         \* position in the pass
     cursor : Cursor,           \* the cursor read at the start of the page
     known : SUBSET Id,         \* the newest cached ids, read with it
     gen : Nat,                 \* UIDVALIDITY of the first SELECT
     through : Nat,             \* UIDNEXT - 1 of the first SELECT
     found : SUBSET Nat,        \* new UIDs to fetch
     high : Nat,                \* where the cursor will stand
     left : SUBSET Nat,         \* what a bootstrap leaves out
     page : SUBSET Entry]       \* the fetched envelopes

ActState ==
    [pc : {"idle"}]
        \cup [pc : {"queued", "validated", "accepted", "failed"}, id : Id, change : Change]

GetState ==
    [pc : {"idle"}]
        \cup [pc : {"asked"}, id : Id]
        \cup [pc : {"fetched"}, id : Id, entry : Entry]

TypeOK ==
    /\ generation \in [Mailbox -> Nat \ {0}]
    /\ nextUid \in [Mailbox -> Nat \ {0}]
    /\ box \in [Mailbox -> SUBSET Entry]
    /\ arrived \in Nat
    /\ rows \in SUBSET Row
    /\ cursor \in [Mailbox -> Cursor]
    /\ sync \in SyncState
    /\ act \in [Actor -> ActState]
    /\ get \in [Reader -> GetState]
    /\ skipped \in [Mailbox -> SUBSET Nat]
    /\ external \in Nat
    /\ requests \in Nat
    /\ faults \in Nat

Idle(at) ==
    [pc |-> "idle", at |-> at, cursor |-> NoCursor, known |-> {}, gen |-> 0,
     through |-> 0, found |-> {}, high |-> 0, left |-> {}, page |-> {}]

Done == [pc |-> "idle"]

Init ==
    /\ generation = [mb \in Mailbox |-> 1]
    /\ nextUid = [mb \in Mailbox |-> 1]
    /\ box = [mb \in Mailbox |-> {}]
    /\ arrived = 0
    /\ rows = {}
    /\ cursor = [mb \in Mailbox |-> NoCursor]
    /\ sync = Idle(1)
    /\ act = [a \in Actor |-> Done]
    /\ get = [g \in Reader |-> Done]
    /\ skipped = [mb \in Mailbox |-> {}]
    /\ external = 0
    /\ requests = 0
    /\ faults = 0

-----------------------------------------------------------------------------
(* Selections                                                              *)

Uids(mb) == {e.uid : e \in box[mb]}

Lowest(S, n) == {u \in S : Cardinality({v \in S : v < u}) < n}

Highest(S, n) == {u \in S : Cardinality({v \in S : v > u}) < n}

\* ORDER BY timestamp_ms DESC, id DESC
NewerRow(q, r) ==
    \/ q.msg > r.msg
    \/ q.msg = r.msg /\ q.id.gen > r.id.gen
    \/ q.msg = r.msg /\ q.id.gen = r.id.gen /\ q.id.uid > r.id.uid

RowsIn(mb) == {r \in rows : r.mailbox = mb}

NewestRows(mb) ==
    {r \in RowsIn(mb) : Cardinality({q \in RowsIn(mb) : NewerRow(q, r)}) < ReconcileLimit}

IdOf(mb, gen, uid) == [home |-> mb, gen |-> gen, uid |-> uid]

\* INSERT ... ON CONFLICT(id) DO UPDATE
Upsert(old, new) == {r \in old : \A n \in new : n.id # r.id} \cup new

-----------------------------------------------------------------------------
(* The mail server and other mail clients (external)                       *)

\* Messages leave UID order alone: a new arrival always takes UIDNEXT.
Arrive(mb) ==
    /\ arrived < MaxMessages
    /\ nextUid[mb] <= MaxUid
    /\ arrived' = arrived + 1
    /\ box' = [box EXCEPT ![mb] =
                 @ \cup {[uid |-> nextUid[mb], msg |-> arrived + 1, seen |-> FALSE]}]
    /\ nextUid' = [nextUid EXCEPT ![mb] = @ + 1]
    /\ UNCHANGED <<generation, cacheVars, taskVars, boundVars>>

FlagElsewhere(mb) ==
    /\ external < MaxExternal
    /\ \E e \in box[mb] :
         box' = [box EXCEPT ![mb] = (@ \ {e}) \cup {[e EXCEPT !.seen = ~@]}]
    /\ external' = external + 1
    /\ UNCHANGED <<generation, nextUid, arrived, cacheVars, taskVars, requests, faults>>

ExpungeElsewhere(mb) ==
    /\ external < MaxExternal
    /\ \E e \in box[mb] : box' = [box EXCEPT ![mb] = @ \ {e}]
    /\ external' = external + 1
    /\ UNCHANGED <<generation, nextUid, arrived, cacheVars, taskVars, requests, faults>>

\* The mailbox is rebuilt on the server: same mail, new UIDVALIDITY, new UIDs.
Renumbered(mb) ==
    {[e EXCEPT !.uid = Cardinality({f \in box[mb] : f.uid <= e.uid})] : e \in box[mb]}

NewGeneration(mb) ==
    /\ generation[mb] < MaxGeneration
    /\ generation' = [generation EXCEPT ![mb] = @ + 1]
    /\ box' = [box EXCEPT ![mb] = Renumbered(mb)]
    /\ nextUid' = [nextUid EXCEPT ![mb] = Cardinality(box[mb]) + 1]
    /\ UNCHANGED <<arrived, cacheVars, taskVars, boundVars>>

-----------------------------------------------------------------------------
(* The synchronisation pass                                                *)

Here == Order[sync.at]

\* The persisted cursor belongs to the generation the SELECT reported.
SameGeneration == sync.cursor.gen = sync.gen

\* A cursor of an older generation: the page replaces the whole mailbox.
Resets == sync.cursor.gen # 0 /\ ~SameGeneration

BeginPage ==
    /\ sync.pc = "idle"
    /\ sync' = [sync EXCEPT !.pc = "begun",
                            !.cursor = cursor[Here],
                            !.known = {r.id : r \in NewestRows(Here)}]
    /\ UNCHANGED <<serverVars, cacheVars, act, get, boundVars>>

\* Mutant of SelectMailbox: two below UIDNEXT as the upper end.
SelectThroughTooLow ==
    /\ sync.pc = "begun"
    /\ sync' = [sync EXCEPT !.pc = "selected",
                            !.gen = generation[Here],
                            !.through = nextUid[Here] - 2]
    /\ UNCHANGED <<serverVars, cacheVars, act, get, boundVars>>

SelectMailbox ==
    /\ sync.pc = "begun"
    /\ sync' = [sync EXCEPT !.pc = "selected",
                            !.gen = generation[Here],
                            !.through = nextUid[Here] - 1]
    /\ UNCHANGED <<serverVars, cacheVars, act, get, boundVars>>

\* Mutant of SearchNothing: an empty search reports UID 0 as its high mark.
SearchNothingFromZero ==
    /\ SameGeneration
    /\ sync.through <= sync.cursor.last
    /\ sync' = [sync EXCEPT !.pc = "searched", !.high = 0]

\* Nothing to search when UIDNEXT has not moved past the cursor.
SearchNothing ==
    /\ SameGeneration
    /\ sync.through <= sync.cursor.last
    /\ sync' = [sync EXCEPT !.pc = "searched", !.high = sync.cursor.last]

SearchCeiling ==
    IF sync.through <= sync.cursor.last + SearchSpan
    THEN sync.through ELSE sync.cursor.last + SearchSpan

\* Mutants of SearchWindow: a truncated page moves the cursor over the whole
\* window; a complete one only to the last UID it found.
SearchWindowOvershoots ==
    LET hits == {u \in Uids(Here) : sync.cursor.last < u /\ u <= SearchCeiling}
    IN  /\ SameGeneration
        /\ sync.through > sync.cursor.last
        /\ sync' = [sync EXCEPT !.pc = "searched", !.found = Lowest(hits, PageLimit),
                                !.high = SearchCeiling]

SearchWindowStopsAtGap ==
    LET hits == {u \in Uids(Here) : sync.cursor.last < u /\ u <= SearchCeiling}
        found == Lowest(hits, PageLimit)
    IN  /\ SameGeneration
        /\ sync.through > sync.cursor.last
        /\ \E high \in found \cup {sync.cursor.last} :
             /\ \A u \in found : u <= high
             /\ sync' = [sync EXCEPT !.pc = "searched", !.found = found, !.high = high]

\* One bounded window above the cursor, lowest UIDs first.  A truncated page
\* stops the cursor at the last UID it holds; a complete one steps over the
\* whole window, gaps included.
SearchWindow ==
    LET hits == {u \in Uids(Here) : sync.cursor.last < u /\ u <= SearchCeiling}
        found == Lowest(hits, PageLimit)
    IN  /\ SameGeneration
        /\ sync.through > sync.cursor.last
        /\ \E high \in found \cup {SearchCeiling} :
             /\ IF found = hits THEN high = SearchCeiling
                ELSE high \in found /\ \A u \in found : u <= high
             /\ sync' = [sync EXCEPT !.pc = "searched", !.found = found, !.high = high]

\* Mutant of SearchRecent: the page is cut from the wrong end.
SearchRecentOldest ==
    LET hits == {u \in Uids(Here) : sync.through - BootstrapSpan < u /\ u <= sync.through}
        found == Lowest(hits, PageLimit)
    IN  /\ ~SameGeneration
        /\ sync' = [sync EXCEPT !.pc = "searched",
                                !.found = found,
                                !.high = sync.through,
                                !.left = {u \in Uids(Here) : u <= sync.through} \ found]

\* The bounded bootstrap: the newest messages of the most recent windows.
SearchRecent ==
    LET hits == {u \in Uids(Here) : sync.through - BootstrapSpan < u /\ u <= sync.through}
        found == Highest(hits, PageLimit)
    IN  /\ ~SameGeneration
        /\ sync' = [sync EXCEPT !.pc = "searched",
                                !.found = found,
                                !.high = sync.through,
                                !.left = {u \in Uids(Here) : u <= sync.through} \ found]

SearchMailbox ==
    /\ sync.pc = "selected"
    /\ SearchNothing \/ SearchWindow \/ SearchRecent
    /\ UNCHANGED <<serverVars, cacheVars, act, get, boundVars>>

\* The cached ids an incremental page can check: this mailbox, this generation.
Reconciled ==
    IF SameGeneration
    THEN {id \in sync.known : id.home = Here /\ id.gen = sync.gen}
    ELSE {}

Requested == sync.found \cup {id.uid : id \in Reconciled}

FetchEnvelopes ==
    /\ sync.pc = "searched"
    /\ sync' = [sync EXCEPT !.pc = "fetched",
                            !.page = {e \in box[Here] : e.uid \in Requested}]
    /\ UNCHANGED <<serverVars, cacheVars, act, get, boundVars>>

\* Mutant of ConfirmGeneration: the second SELECT is not compared.
ConfirmAnyGeneration ==
    /\ sync.pc = "fetched"
    /\ sync' = [sync EXCEPT !.pc = "confirmed"]
    /\ UNCHANGED <<serverVars, cacheVars, act, get, boundVars>>

\* An error anywhere ends the pass; the next one starts again at the Inbox.
ConfirmGeneration ==
    /\ sync.pc = "fetched"
    /\ sync' = IF generation[Here] = sync.gen
               THEN [sync EXCEPT !.pc = "confirmed"] ELSE Idle(1)
    /\ UNCHANGED <<serverVars, cacheVars, act, get, boundVars>>

\* Mutant of Removed: a UID missing from the FETCH is not treated as expunged.
RemovedNothing == {}

Removed == {id \in Reconciled : \A e \in sync.page : e.uid # id.uid}

\* A removal may only name a row of this mailbox; otherwise the whole page is
\* refused as InvalidData and nothing is written.
PageAccepted == \A r \in rows : r.id \in Removed => r.mailbox = Here

\* Mutant of Kept: the old generation's rows survive the reset.
KeptOnReset ==
    {r \in rows : ~(r.mailbox = Here /\ r.id \in Removed)}

Kept ==
    {r \in rows : ~(r.mailbox = Here /\ (Resets \/ r.id \in Removed))}

PageRow(e) ==
    LET id == IdOf(Here, sync.gen, e.uid)
    IN  [id |-> id, mailbox |-> Here, msg |-> e.msg, seen |-> e.seen,
         loaded |-> \E r \in Kept : r.id = id /\ r.loaded]

ApplyPage ==
    /\ sync.pc = "confirmed"
    /\ PageAccepted
    /\ rows' = Upsert(Kept, {PageRow(e) : e \in sync.page})
    /\ cursor' = [cursor EXCEPT ![Here] = [gen |-> sync.gen, last |-> sync.high]]
    /\ skipped' = [skipped EXCEPT ![Here] = IF SameGeneration THEN @ ELSE sync.left]
    /\ sync' = Idle(IF sync.at < Len(Order) THEN sync.at + 1 ELSE 1)
    /\ UNCHANGED <<serverVars, act, get, boundVars>>

RejectPage ==
    /\ sync.pc = "confirmed"
    /\ ~PageAccepted
    /\ sync' = Idle(1)
    /\ UNCHANGED <<serverVars, cacheVars, act, get, boundVars>>

\* A network error, a timeout, a failed transaction or a cancelled request.
FailPass ==
    /\ sync.pc # "idle"
    /\ faults < MaxFaults
    /\ faults' = faults + 1
    /\ sync' = Idle(1)
    /\ UNCHANGED <<serverVars, cacheVars, act, get, external, requests>>

-----------------------------------------------------------------------------
(* mail.action: queued, validated, applied on the server, then mirrored    *)

QueueAction(a) ==
    /\ act[a].pc = "idle"
    /\ requests < MaxRequests
    /\ requests' = requests + 1
    /\ \E r \in rows, c \in Change :
         /\ c.kind = "move" => c.dest # r.mailbox
         /\ act' = [act EXCEPT ![a] = [pc |-> "queued", id |-> r.id, change |-> c]]
    /\ UNCHANGED <<serverVars, cacheVars, sync, get, external, faults>>

ValidateAction(a) ==
    /\ act[a].pc = "queued"
    /\ act' = [act EXCEPT ![a].pc =
                 IF generation[act[a].id.home] = act[a].id.gen THEN "validated" ELSE "failed"]
    /\ UNCHANGED <<serverVars, cacheVars, sync, get, boundVars>>

\* UID STORE and UID MOVE name a UID only: nothing ties them to the generation
\* that was validated, and a UID the mailbox no longer holds is no error.
StoreFlag(id, seen) ==
    /\ box' = [box EXCEPT ![id.home] =
                 {IF e.uid = id.uid THEN [e EXCEPT !.seen = seen] ELSE e : e \in @}]
    /\ UNCHANGED nextUid

MoveUid(id, dest) ==
    \/ /\ id.uid \notin Uids(id.home)
       /\ UNCHANGED <<box, nextUid>>
    \/ /\ nextUid[dest] <= MaxUid
       /\ \E e \in box[id.home] :
            /\ e.uid = id.uid
            /\ box' = [mb \in Mailbox |->
                         (IF mb = id.home THEN {f \in box[mb] : f.uid # id.uid} ELSE box[mb])
                           \cup IF mb = dest THEN {[e EXCEPT !.uid = nextUid[dest]]} ELSE {}]
       /\ nextUid' = [nextUid EXCEPT ![dest] = @ + 1]

ServerApplies(id, change) ==
    \/ change.kind = "mark_read" /\ StoreFlag(id, change.seen)
    \/ change.kind = "archive" /\ MoveUid(id, Archive)
    \/ change.kind = "move" /\ MoveUid(id, change.dest)

\* Mutating commands are never replayed: a lost reply is reported as a failure
\* although the server did apply the change.
ApplyAction(a) ==
    /\ act[a].pc = "validated"
    /\ \/ /\ ServerApplies(act[a].id, act[a].change)
          /\ act' = [act EXCEPT ![a].pc = "accepted"]
          /\ UNCHANGED faults
       \/ /\ ServerApplies(act[a].id, act[a].change)
          /\ faults < MaxFaults
          /\ faults' = faults + 1
          /\ act' = [act EXCEPT ![a].pc = "failed"]
       \/ /\ faults < MaxFaults
          /\ faults' = faults + 1
          /\ act' = [act EXCEPT ![a].pc = "failed"]
          /\ UNCHANGED <<box, nextUid>>
    /\ UNCHANGED <<generation, arrived, cacheVars, sync, get, external, requests>>

Mirrored(id, change) ==
    LET hit == {r \in rows : r.id = id}
    IN  (rows \ hit) \cup
          CASE change.kind = "mark_read" -> {[r EXCEPT !.seen = change.seen] : r \in hit}
            [] change.kind = "move" -> {[r EXCEPT !.mailbox = change.dest] : r \in hit}
            [] OTHER -> {}

\* Mutant of FinishAction: the cache is changed whether or not the provider
\* confirmed.
FinishActionUnconfirmed(a) ==
    /\ act[a].pc \in {"accepted", "failed"}
    /\ rows' = Mirrored(act[a].id, act[a].change)
    /\ act' = [act EXCEPT ![a] = Done]
    /\ UNCHANGED <<serverVars, cursor, skipped, sync, get, boundVars>>

FinishAction(a) ==
    /\ act[a].pc \in {"accepted", "failed"}
    /\ rows' = IF act[a].pc = "accepted" THEN Mirrored(act[a].id, act[a].change) ELSE rows
    /\ act' = [act EXCEPT ![a] = Done]
    /\ UNCHANGED <<serverVars, cursor, skipped, sync, get, boundVars>>

-----------------------------------------------------------------------------
(* mail.get: a body that is not cached yet is fetched and stored           *)

OpenMessage(g) ==
    /\ get[g].pc = "idle"
    /\ requests < MaxRequests
    /\ requests' = requests + 1
    /\ \E r \in rows :
         /\ ~r.loaded
         /\ get' = [get EXCEPT ![g] = [pc |-> "asked", id |-> r.id]]
    /\ UNCHANGED <<serverVars, cacheVars, sync, act, external, faults>>

FetchMessage(g) ==
    /\ get[g].pc = "asked"
    /\ LET id == get[g].id
           hit == {e \in box[id.home] : e.uid = id.uid}
       IN  \/ /\ generation[id.home] = id.gen
              /\ \E e \in hit :
                   get' = [get EXCEPT ![g] = [pc |-> "fetched", id |-> id, entry |-> e]]
           \/ /\ generation[id.home] # id.gen \/ hit = {}
              /\ get' = [get EXCEPT ![g] = Done]
    /\ UNCHANGED <<serverVars, cacheVars, sync, act, boundVars>>

StoreMessage(g) ==
    /\ get[g].pc = "fetched"
    /\ rows' = Upsert(rows, {[id |-> get[g].id, mailbox |-> get[g].id.home,
                              msg |-> get[g].entry.msg, seen |-> get[g].entry.seen,
                              loaded |-> TRUE]})
    /\ get' = [get EXCEPT ![g] = Done]
    /\ UNCHANGED <<serverVars, cursor, skipped, sync, act, boundVars>>

\* The daemon stops at any point; only SQLite is left.
Crash ==
    /\ faults < MaxFaults
    /\ faults' = faults + 1
    /\ sync' = Idle(1)
    /\ act' = [a \in Actor |-> Done]
    /\ get' = [g \in Reader |-> Done]
    /\ UNCHANGED <<serverVars, cacheVars, external, requests>>

-----------------------------------------------------------------------------

SyncStep ==
    \/ BeginPage \/ SelectMailbox \/ SearchMailbox \/ FetchEnvelopes
    \/ ConfirmGeneration \/ ApplyPage \/ RejectPage

ActStep(a) == ValidateAction(a) \/ ApplyAction(a) \/ FinishAction(a)

GetStep(g) == FetchMessage(g) \/ StoreMessage(g)

Next ==
    \/ \E mb \in Mailbox :
         Arrive(mb) \/ FlagElsewhere(mb) \/ ExpungeElsewhere(mb) \/ NewGeneration(mb)
    \/ SyncStep
    \/ FailPass
    \/ \E a \in Actor : QueueAction(a) \/ ActStep(a)
    \/ \E g \in Reader : OpenMessage(g) \/ GetStep(g)
    \/ Crash

Spec == Init /\ [][Next]_vars

\* Passes are started again and again (the frontend's periodic refresh), and
\* the runtime keeps polling every task it has spawned.
Fairness ==
    /\ WF_vars(SyncStep)
    /\ \A a \in Actor : WF_vars(ActStep(a))
    /\ \A g \in Reader : WF_vars(GetStep(g))

FairSpec == Spec /\ Fairness

-----------------------------------------------------------------------------
(* Properties                                                              *)

Cached(mb, uid) ==
    \E r \in rows : r.id = IdOf(mb, generation[mb], uid) /\ r.mailbox = mb

\* No mail is skipped: while the stored cursor belongs to the mailbox's current
\* generation, every message the server still holds at or below the cursor is
\* listed from the cache, unless the bounded bootstrap left it out.  The rows
\* and the cursor of apply_mailbox_sync_page are one transaction for this.
CursorCovers ==
    \A mb \in Mailbox :
        cursor[mb].gen = generation[mb] =>
            \A e \in box[mb] :
                e.uid <= cursor[mb].last /\ e.uid \notin skipped[mb] => Cached(mb, e.uid)

\* The cursor never runs ahead of the server: a message that arrives later is
\* always above it (uid_sync_plan stops at UIDNEXT - 1 of the first SELECT).
CursorBehindServer ==
    \A mb \in Mailbox :
        cursor[mb].gen = generation[mb] => cursor[mb].last < nextUid[mb]

\* Applying a page never moves a cursor back, within a generation or to an
\* older one, whatever happened between reading it and writing it.
CursorMonotonic ==
    [][\A mb \in Mailbox :
          /\ cursor[mb].gen <= cursor'[mb].gen
          /\ cursor[mb].gen = cursor'[mb].gen => cursor[mb].last <= cursor'[mb].last]_vars

\* When UIDVALIDITY changed, the page that installs the new generation's cursor
\* leaves no row of the old generation listed in that mailbox.
ResetReplacesMailbox ==
    [][\A mb \in Mailbox :
          cursor[mb].gen # 0 /\ cursor'[mb].gen # cursor[mb].gen =>
              \A r \in rows' :
                  r.mailbox = mb => r.id.home = mb /\ r.id.gen = cursor'[mb].gen]_vars

\* A cached id never comes to show another message: the second SELECT refuses a
\* page whose UIDs were read across a UIDVALIDITY change, and a message body is
\* stored under an id only after its generation was checked.
IdentityStable ==
    [][\A r \in rows, q \in rows' : r.id = q.id => r.msg = q.msg]_vars

\* A bootstrap that leaves messages of the searched windows out has filled its
\* page with newer ones (search_recent_uids, newest_uid_page).
BootstrapKeepsNewest ==
    [][\A mb \in Mailbox :
          cursor'[mb].gen # cursor[mb].gen =>
              \A u \in skipped'[mb] :
                  \/ u <= cursor'[mb].last - BootstrapSpan
                  \/ /\ Cardinality(sync.found) = PageLimit
                     /\ \A v \in sync.found : u < v]_vars

\* Once everything is quiet, the newest cached messages of a mailbox that belong
\* to its current generation exist on the server with the flags the cache shows:
\* whatever a page fetched too early or a message open stored too late is undone
\* by a later page.
RecentMailConverges ==
    <>[](\A mb \in Mailbox : \A r \in NewestRows(mb) :
            r.id.home = mb /\ r.id.gen = generation[mb] =>
                \E e \in box[mb] : e.uid = r.id.uid /\ e.seen = r.seen)

\* What docs/performance.md promises: all locally initiated read/star actions
\* remain synchronized.  (Checked where no other client changes a flag, so that
\* every difference between the cache and the server is about a local action.)
LocalActionsStaySynchronized ==
    <>[](\A r \in rows : \A e \in box[r.id.home] :
            r.id = IdOf(r.id.home, generation[r.id.home], e.uid) => e.seen = r.seen)

-----------------------------------------------------------------------------
(* The inductive invariant behind CursorCovers and CursorMonotonic         *)

\* UIDs are given out in order, from UIDNEXT.
ServerNumbers ==
    \A mb \in Mailbox :
        IsFiniteSet(box[mb]) /\ \A e \in box[mb] : e.uid < nextUid[mb]

\* An id or cursor the daemon holds was given out by the server: it is of an
\* earlier generation, or of the current one and below UIDNEXT.
Issued(mb, gen, uid) ==
    /\ gen <= generation[mb]
    /\ gen = generation[mb] => uid < nextUid[mb]

IdsIssued ==
    /\ \A r \in rows : Issued(r.id.home, r.id.gen, r.id.uid)
    /\ \A id \in sync.known : Issued(id.home, id.gen, id.uid)
    /\ \A a \in Actor :
         act[a].pc # "idle" => Issued(act[a].id.home, act[a].id.gen, act[a].id.uid)
    /\ \A g \in Reader :
         get[g].pc # "idle" => Issued(get[g].id.home, get[g].id.gen, get[g].id.uid)

CursorsIssued ==
    \A mb \in Mailbox : Issued(mb, cursor[mb].gen, cursor[mb].last)

\* The page is built on the cursor that is still stored.
PassStarted ==
    /\ sync.pc # "idle" => sync.cursor = cursor[Here]
    /\ sync.pc \in {"idle", "begun", "selected"} => sync.found = {}

PassSelected ==
    sync.pc \in {"selected", "searched", "fetched", "confirmed"} =>
        /\ sync.cursor.gen <= sync.gen
        /\ Issued(Here, sync.gen, sync.through)

\* What the search covers, as long as the generation is the one selected: what
\* it did not find below its high mark was below the cursor or left out.
PassSearched ==
    sync.pc \in {"searched", "fetched", "confirmed"} =>
        /\ SameGeneration => sync.cursor.last <= sync.high
        /\ Issued(Here, sync.gen, sync.high)
        /\ \A u \in sync.found : Issued(Here, sync.gen, u)
        /\ sync.gen = generation[Here] =>
             \A e \in box[Here] :
                 e.uid <= sync.high =>
                     \/ e.uid \in sync.found
                     \/ SameGeneration /\ e.uid <= sync.cursor.last
                     \/ ~SameGeneration /\ e.uid \in sync.left

\* The page holds nothing but what was asked for, and, as long as the generation
\* is the one selected, all of it that is still on the server.
PassFetched ==
    sync.pc \in {"fetched", "confirmed"} =>
        /\ \A p \in sync.page : p.uid \in Requested
        /\ sync.gen = generation[Here] =>
             \A e \in box[Here] :
                 e.uid \in Requested => \E p \in sync.page : p.uid = e.uid

\* A move the server accepted has taken the UID away for good.
MovesTookEffect ==
    \A a \in Actor :
        /\ act[a].pc = "accepted"
        /\ act[a].change.kind # "mark_read"
        /\ act[a].id.gen = generation[act[a].id.home]
        => \A e \in box[act[a].id.home] : e.uid # act[a].id.uid

IInv ==
    /\ TypeOK
    /\ ServerNumbers
    /\ IdsIssued
    /\ CursorsIssued
    /\ PassStarted
    /\ PassSelected
    /\ PassSearched
    /\ PassFetched
    /\ MovesTookEffect
    /\ CursorCovers

=============================================================================
