-------------------------- MODULE AccountLifecycle --------------------------
(***************************************************************************)
(* The accounts of the daemon: how they are added, removed, reauthorised   *)
(* and restored, and how synchronisations of them are scheduled, started   *)
(* and abandoned.                                                          *)
(*                                                                         *)
(* An account lives in four places that no transaction spans: its row in   *)
(* SQLite (which takes its mail along), its passwords in Secret Service,   *)
(* its files in the attachment cache, and its provider in memory.          *)
(* accounts.add and accounts.remove hold account_mutations throughout;     *)
(* accounts.reauth does not take it.  A frontend has one request in        *)
(* progress; when it disconnects, the request is dropped at its await.     *)
(*                                                                         *)
(* What a synchronisation fetches is the matter of MailSync; here a page   *)
(* succeeds or fails.  The lock is taken for a moment where a page or a    *)
(* state is stored, so those are single steps that need it to be free.     *)
(***************************************************************************)
EXTENDS Integers, Sequences, FiniteSets

CONSTANTS
    Account,        \* account ids; each is given out once (Uuid::new_v4)
    AddressOf,      \* the address each is set up with
    Brokered,       \* those whose credentials GNOME Online Accounts keeps
    Order,          \* the order in which the providers map iterates
    Client,         \* frontends, with one serialized request each
    Broken,         \* accounts whose server refuses every synchronisation
    MaxRequests,    \* bound: additions, removals, reauthorisations, downloads
    MaxFaults,      \* bound: failures of providers, Secret Service and disks
    MaxAborts       \* bound: disconnects and restarts

ASSUME OrderAssumption ==
    /\ Order \in Seq(Account)
    /\ \A a \in Account : \E i \in DOMAIN Order : Order[i] = a
    /\ Cardinality(DOMAIN Order) = Cardinality(Account)
    /\ Brokered \subseteq Account
    /\ Broken \subseteq Account

Nobody == "nobody"

ASSUME ClientAssumption == Nobody \notin Client

ASSUME BoundAssumption ==
    /\ MaxRequests \in Nat
    /\ MaxFaults \in Nat
    /\ MaxAborts \in Nat

VARIABLES
    auth,           \* table accounts: auth_state, "absent" without a row
    mail,           \* the accounts with mailboxes and messages in SQLite
    secrets,        \* the accounts with passwords in Secret Service (external)
    files,          \* the accounts with files in the attachment cache
    providers,      \* the live provider of each account, 0 for none
    removed,        \* removed_accounts
    syncing,        \* background_syncing
    background,     \* the background passes of each account, by stage
    lock,           \* account_mutations
    task,           \* what each frontend's request is doing
    used,           \* account ids given out
    deleted,        \* accounts whose removal has been carried out
    instances,      \* providers constructed so far
    requests,
    faults,
    aborts

tableVars == <<auth, mail, secrets, files>>
memoryVars == <<providers, removed, syncing, background>>
boundVars == <<used, deleted, instances, requests, faults, aborts>>
vars == <<tableVars, memoryVars, lock, task, boundVars>>
-----------------------------------------------------------------------------
Done == [pc |-> "idle"]

\* A request about one account; "provider" is what it has constructed, taken
\* out of the map, or is downloading with.
AccountTask ==
    [pc : {"create", "created", "registered", "purge", "secrets", "row",
           "reauth", "reauthorized", "download"},
     account : Account, provider : Nat]

\* sync.start: the accounts it has still to visit, the first being in progress.
SyncTask == [pc : {"visit", "list", "inbox", "schedule"}, todo : SUBSET Account]

TypeOK ==
    /\ auth \in [Account -> {"absent", "ready", "needs_auth", "error"}]
    /\ mail \subseteq {a \in Account : auth[a] # "absent"}
    /\ secrets \subseteq Account \ Brokered
    /\ files \subseteq Account
    /\ providers \in [Account -> 0..instances]
    /\ removed \subseteq Account
    /\ syncing \subseteq Account
    /\ background \in [Account -> Seq({"page", "close"})]
    /\ lock \in Client \cup {Nobody}
    /\ task \in [Client -> {Done} \cup AccountTask \cup SyncTask]
    /\ used \subseteq Account
    /\ deleted \subseteq used
    /\ instances \in Nat
    /\ requests \in Nat
    /\ faults \in Nat
    /\ aborts \in Nat

SameAddress(a, b) == AddressOf[a] = AddressOf[b]

\* The daemon has restored the accounts it finds and holds nothing else.
InitWith(existing) ==
    /\ auth = [a \in Account |-> IF a \in existing THEN "ready" ELSE "absent"]
    /\ mail = existing
    /\ secrets = existing \ Brokered
    /\ files = {}
    /\ providers = [a \in Account |-> IF a \in existing THEN 1 ELSE 0]
    /\ removed = {}
    /\ syncing = {}
    /\ background = [a \in Account |-> <<>>]
    /\ lock = Nobody
    /\ task = [c \in Client |-> Done]
    /\ used = existing
    /\ deleted = {}
    /\ instances = 1
    /\ requests = 0
    /\ faults = 0
    /\ aborts = 0

Init ==
    \E existing \in SUBSET Account :
        /\ \A a, b \in existing \cap Brokered : SameAddress(a, b) => a = b
        /\ InitWith(existing)

-----------------------------------------------------------------------------
(* Steps of a request                                                      *)

Begins(c, t) ==
    /\ task[c].pc = "idle"
    /\ requests < MaxRequests
    /\ requests' = requests + 1
    /\ task' = [task EXCEPT ![c] = t]

Goes(c, pc) == task' = [task EXCEPT ![c].pc = pc]

Ends(c) == task' = [task EXCEPT ![c] = Done]

EndsUnlocking(c) == Ends(c) /\ lock' = Nobody

Fails == faults < MaxFaults /\ faults' = faults + 1

-----------------------------------------------------------------------------
(* accounts.add                                                            *)

Existing(a) ==
    /\ a \in Brokered
    /\ \E b \in Brokered : auth[b] # "absent" /\ SameAddress(a, b)

\* Mutant of RequestAdd: existing accounts are looked for before the lock.
RequestAddUnlocked(c, a) ==
    /\ a \notin used
    /\ ~Existing(a)
    /\ used' = used \cup {a}
    /\ Begins(c, [pc |-> "create", account |-> a, provider |-> 0])
    /\ UNCHANGED <<tableVars, memoryVars, lock, deleted, instances, faults, aborts>>

\* A brokered account that is already there is answered with its id.
RequestAdd(c, a) ==
    /\ lock = Nobody
    /\ a \notin used
    /\ \/ /\ Existing(a)
          /\ Begins(c, Done)
          /\ UNCHANGED <<lock, used>>
       \/ /\ ~Existing(a)
          /\ lock' = c
          /\ used' = used \cup {a}
          /\ Begins(c, [pc |-> "create", account |-> a, provider |-> 0])
    /\ UNCHANGED <<tableVars, memoryVars, deleted, instances, faults, aborts>>

\* ProviderFactory::create stores the passwords; when it fails it deletes what
\* it stored, which may fail as well.
CreateProvider(c) ==
    /\ task[c].pc = "create"
    /\ LET stored == secrets \cup ({task[c].account} \ Brokered)
       IN  \/ /\ instances' = instances + 1
              /\ secrets' = stored
              /\ task' = [task EXCEPT ![c] =
                   [pc |-> "created", account |-> @.account, provider |-> instances + 1]]
              /\ UNCHANGED <<lock, faults>>
           \/ /\ Fails
              /\ secrets' \in {secrets, stored}
              /\ EndsUnlocking(c)
              /\ UNCHANGED instances
    /\ UNCHANGED <<auth, mail, files, memoryVars, used, deleted, requests, aborts>>

\* upsert_account_config.
RegisterAccount(c) ==
    /\ task[c].pc = "created"
    /\ removed' = removed \ {task[c].account}
    /\ \/ /\ auth' = [auth EXCEPT ![task[c].account] = "ready"]
          /\ Goes(c, "registered")
          /\ UNCHANGED <<lock, faults>>
       \/ /\ Fails
          /\ EndsUnlocking(c)
          /\ UNCHANGED auth
    /\ UNCHANGED <<mail, secrets, files, providers, syncing, background, used, deleted, instances,
                   requests, aborts>>

ActivateProvider(c) ==
    /\ task[c].pc = "registered"
    /\ providers' = [providers EXCEPT ![task[c].account] = task[c].provider]
    /\ EndsUnlocking(c)
    /\ UNCHANGED <<tableVars, removed, syncing, background, boundVars>>

-----------------------------------------------------------------------------
(* accounts.remove                                                         *)

\* A frontend may still show an account that another one has removed.
RequestRemove(c, a) ==
    /\ lock = Nobody
    /\ auth[a] # "absent" \/ a \in deleted
    /\ lock' = c
    /\ removed' = removed \cup {a}
    /\ providers' = [providers EXCEPT ![a] = 0]
    /\ Begins(c, [pc |-> "purge", account |-> a, provider |-> providers[a]])
    /\ UNCHANGED <<tableVars, syncing, background, used, deleted, instances, faults,
                   aborts>>

\* The account is as it was before, in memory.
RollBack(c) ==
    /\ removed' = removed \ {task[c].account}
    /\ providers' = IF task[c].provider = 0 THEN providers
                    ELSE [providers EXCEPT ![task[c].account] = task[c].provider]
    /\ EndsUnlocking(c)

Proceed(c, pc) == Goes(c, pc) /\ UNCHANGED <<removed, providers, lock, faults>>

\* Every file of the cache is deleted, whichever account it belongs to.
Purge(c) ==
    /\ task[c].pc = "purge"
    /\ \/ files' = {} /\ Proceed(c, "secrets")
       \/ files' \in SUBSET files /\ Fails /\ RollBack(c)
    /\ UNCHANGED <<auth, mail, secrets, syncing, background, used, deleted,
                   instances, requests, aborts>>

DeleteSecrets(c) ==
    /\ task[c].pc = "secrets"
    /\ \/ secrets' = secrets \ {task[c].account} /\ Proceed(c, "row")
       \/ UNCHANGED secrets /\ Fails /\ RollBack(c)
    /\ UNCHANGED <<auth, mail, files, syncing, background, used, deleted, instances,
                   requests, aborts>>

\* Mutant of DeleteRow: the mail of the account stays.
DeleteRowOnly(c) ==
    /\ task[c].pc = "row"
    /\ auth' = [auth EXCEPT ![task[c].account] = "absent"]
    /\ deleted' = deleted \cup {task[c].account}
    /\ EndsUnlocking(c)
    /\ UNCHANGED <<mail, secrets, files, memoryVars, used, instances, requests,
                   faults, aborts>>

\* remove_account takes the mail along, and finds nothing the second time.
DeleteRow(c) ==
    /\ task[c].pc = "row"
    /\ LET a == task[c].account
       IN  \/ /\ auth[a] # "absent"
              /\ auth' = [auth EXCEPT ![a] = "absent"]
              /\ mail' = mail \ {a}
              /\ deleted' = deleted \cup {a}
              /\ EndsUnlocking(c)
              /\ UNCHANGED <<removed, providers, faults>>
           \/ /\ IF auth[a] = "absent" THEN UNCHANGED faults ELSE Fails
              /\ RollBack(c)
              /\ UNCHANGED <<auth, mail, deleted>>
    /\ UNCHANGED <<secrets, files, syncing, background, used, instances, requests,
                   aborts>>

-----------------------------------------------------------------------------
(* accounts.reauth                                                         *)

RequestReauth(c, a) ==
    /\ auth[a] # "absent"
    /\ Begins(c, [pc |-> "reauth", account |-> a, provider |-> 0])
    /\ UNCHANGED <<tableVars, memoryVars, lock, used, deleted, instances, faults,
                   aborts>>

SetAuthState(a, state) ==
    auth' = IF auth[a] = "absent" THEN auth ELSE [auth EXCEPT ![a] = state]

\* ProviderFactory::reauthorize; a provider without its password fails.
Reauthorize(c) ==
    /\ task[c].pc = "reauth"
    /\ LET a == task[c].account
           missing == a \notin Brokered \cup secrets
       IN  \/ /\ ~missing
              /\ instances' = instances + 1
              /\ providers' = [providers EXCEPT ![a] = instances + 1]
              /\ Goes(c, "reauthorized")
              /\ UNCHANGED <<auth, faults>>
           \/ /\ IF missing THEN UNCHANGED faults ELSE Fails
              /\ \E state \in {"needs_auth", "error"} : SetAuthState(a, state)
              /\ Ends(c)
              /\ UNCHANGED <<instances, providers>>
    /\ UNCHANGED <<mail, secrets, files, removed, syncing, background, lock, used,
                   deleted, requests, aborts>>

FinishReauth(c) ==
    /\ task[c].pc = "reauthorized"
    /\ SetAuthState(task[c].account, "ready")
    /\ Ends(c)
    /\ UNCHANGED <<mail, secrets, files, memoryVars, lock, boundVars>>

-----------------------------------------------------------------------------
(* attachment.download                                                     *)

RequestDownload(c, a) ==
    /\ providers[a] # 0
    /\ Begins(c, [pc |-> "download", account |-> a, provider |-> providers[a]])
    /\ UNCHANGED <<tableVars, memoryVars, lock, used, deleted, instances, faults,
                   aborts>>

\* Mutant of StillActive: the file is stored although the account is going.
StillActiveAnyway(c) == task[c].pc = "download"

StillActive(c) ==
    /\ providers[task[c].account] = task[c].provider
    /\ task[c].account \notin removed

\* A file whose write fails keeps what was written of it.
FinishDownload(c) ==
    /\ task[c].pc = "download"
    /\ lock = Nobody
    /\ \/ StillActive(c) /\ files' = files \cup {task[c].account} /\ (Fails \/ UNCHANGED faults)
       \/ ~StillActive(c) /\ UNCHANGED <<files, faults>>
       \/ Fails /\ UNCHANGED files
    /\ Ends(c)
    /\ UNCHANGED <<auth, mail, secrets, memoryVars, lock, used, deleted, instances,
                   requests, aborts>>

-----------------------------------------------------------------------------
(* sync.start                                                              *)

Selected == {a \in Account : providers[a] # 0}

Syncs(c, todo) ==
    /\ task[c].pc = "idle"
    /\ task' = [task EXCEPT ![c] = [pc |-> "visit", todo |-> todo]]
    /\ UNCHANGED <<tableVars, memoryVars, lock, boundVars>>

SyncAll(c) == Syncs(c, Selected)

SyncOne(c) == \E a \in Account : providers[a] # 0 /\ Syncs(c, {a})

Rank(a) == CHOOSE i \in DOMAIN Order : Order[i] = a

First(s) == CHOOSE a \in s : \A b \in s : Rank(a) <= Rank(b)

Visited(c) == First(task[c].todo)

Leaves(c) ==
    task' = [task EXCEPT ![c] = [pc |-> "visit", todo |-> @.todo \ {Visited(c)}]]

\* Mutant of VisitAccount: an account that is being synchronised starts again.
VisitAccountAgain(c) ==
    /\ task[c].pc = "visit"
    /\ task[c].todo # {}
    /\ syncing' = syncing \cup {Visited(c)}
    /\ Goes(c, "list")
    /\ UNCHANGED <<tableVars, providers, removed, background, lock, boundVars>>

\* An account that is being synchronised is left to that synchronisation.
VisitAccount(c) ==
    /\ task[c].pc = "visit"
    /\ task[c].todo # {}
    /\ IF Visited(c) \in syncing
       THEN Leaves(c) /\ UNCHANGED syncing
       ELSE syncing' = syncing \cup {Visited(c)} /\ Goes(c, "list")
    /\ UNCHANGED <<tableVars, providers, removed, background, lock, boundVars>>

EndSync(c) ==
    /\ task[c].pc = "visit"
    /\ task[c].todo = {}
    /\ Ends(c)
    /\ UNCHANGED <<tableVars, memoryVars, lock, boundVars>>

\* A page of an account is refused by its server, or a fault gets in the way.
PageFails(a) == IF a \in Broken THEN UNCHANGED faults ELSE Fails

\* persist_provider_failure.
PersistFailure(a) ==
    IF a \in removed THEN UNCHANGED auth
    ELSE \E state \in {"needs_auth", "error"} : SetAuthState(a, state)

\* Mutant of FailSync: the account stays marked.
FailSyncMarked(c) ==
    /\ task[c].pc \in {"list", "inbox"}
    /\ lock = Nobody
    /\ PageFails(Visited(c))
    /\ PersistFailure(Visited(c))
    /\ Ends(c)
    /\ UNCHANGED <<mail, secrets, files, memoryVars, lock, used, deleted, instances, requests,
                   aborts>>

\* The failure ends the whole call.
FailSync(c) ==
    /\ task[c].pc \in {"list", "inbox"}
    /\ lock = Nobody
    /\ PageFails(Visited(c))
    /\ PersistFailure(Visited(c))
    /\ syncing' = syncing \ {Visited(c)}
    /\ Ends(c)
    /\ UNCHANGED <<mail, secrets, files, providers, removed, background, lock, used, deleted,
                   instances, requests, aborts>>

\* Storing the mailboxes of an account whose row is gone is an error.
StoreMailboxes(c) ==
    /\ task[c].pc = "list"
    /\ lock = Nobody
    /\ LET a == Visited(c)
       IN  \/ /\ a \in removed
              /\ syncing' = syncing \ {a} /\ Leaves(c) /\ UNCHANGED mail
           \/ /\ a \notin removed /\ a \notin Broken /\ auth[a] # "absent"
              /\ mail' = mail \cup {a} /\ Goes(c, "inbox") /\ UNCHANGED syncing
           \/ /\ a \notin removed /\ auth[a] = "absent"
              /\ syncing' = syncing \ {a} /\ Ends(c) /\ UNCHANGED mail
    /\ UNCHANGED <<auth, secrets, files, providers, removed, background, lock,
                   boundVars>>

\* The Inbox is synchronised first; a removed account's page is dropped.
SyncInbox(c) ==
    /\ task[c].pc = "inbox"
    /\ lock = Nobody
    /\ LET a == Visited(c)
       IN  \/ /\ a \in removed \/ auth[a] # "absent"
              /\ Goes(c, "schedule") /\ UNCHANGED syncing
           \/ /\ a \notin removed /\ auth[a] = "absent"
              /\ syncing' = syncing \ {a} /\ Ends(c)
    /\ UNCHANGED <<tableVars, providers, removed, background, lock, boundVars>>

\* The other mailboxes are left to a background task, when there are any.
ScheduleBackground(c) ==
    /\ task[c].pc = "schedule"
    /\ \/ /\ background' = [background EXCEPT ![Visited(c)] = Append(@, "page")]
          /\ UNCHANGED syncing
       \/ /\ syncing' = syncing \ {Visited(c)}
          /\ UNCHANGED background
    /\ Leaves(c)
    /\ UNCHANGED <<tableVars, providers, removed, lock, boundVars>>

-----------------------------------------------------------------------------
(* Background passes                                                       *)

Finish(a, i) ==
    /\ background' = [background EXCEPT ![a] = SubSeq(@, 1, i - 1) \o SubSeq(@, i + 1, Len(@))]
    /\ syncing' = syncing \ {a}

\* The remaining mailboxes, one page each: stored, dropped or failed.
BackgroundPage(a, i) ==
    /\ background[a][i] = "page"
    /\ lock = Nobody
    /\ \/ /\ a \in removed
          /\ Finish(a, i) /\ UNCHANGED <<auth, faults>>
       \/ /\ a \notin removed /\ a \notin Broken /\ auth[a] # "absent"
          /\ background' = [background EXCEPT ![a][i] = "close"]
          /\ UNCHANGED <<auth, syncing, faults>>
       \/ /\ a \notin removed
          /\ IF auth[a] = "absent" THEN UNCHANGED faults ELSE PageFails(a)
          /\ PersistFailure(a) /\ Finish(a, i)
    /\ UNCHANGED <<mail, secrets, files, providers, removed, lock, task, used, deleted,
                   instances, requests, aborts>>

ClosePass(a, i) ==
    /\ background[a][i] = "close"
    /\ lock = Nobody
    /\ IF a \in removed THEN UNCHANGED auth ELSE SetAuthState(a, "ready")
    /\ Finish(a, i)
    /\ UNCHANGED <<mail, secrets, files, providers, removed, lock, task, boundVars>>

-----------------------------------------------------------------------------
(* Disconnects and restarts                                                *)

\* The frontend's connection closes: its request is dropped with its guard.
\* Nothing undoes what the request has done, syncing included.
Abort(c) ==
    /\ aborts < MaxAborts
    /\ aborts' = aborts + 1
    /\ task[c].pc # "idle"
    /\ Ends(c)
    /\ lock' = IF lock = c THEN Nobody ELSE lock
    /\ UNCHANGED <<tableVars, memoryVars, used, deleted, instances, requests, faults>>

\* The daemon starts anew and restores a provider for every account it can.
Restart ==
    /\ aborts < MaxAborts
    /\ aborts' = aborts + 1
    /\ LET rows == {a \in Account : auth[a] # "absent"}
       IN  \E restored \in SUBSET (rows \cap (Brokered \cup secrets)) :
           \E state \in [rows \ restored -> {"needs_auth", "error"}] :
             /\ providers' = [a \in Account |-> IF a \in restored THEN instances + 1 ELSE 0]
             /\ auth' = [a \in Account |->
                           IF a \in restored THEN "ready"
                           ELSE IF a \in rows THEN state[a] ELSE "absent"]
    /\ instances' = instances + 1
    /\ removed' = {}
    /\ syncing' = {}
    /\ background' = [a \in Account |-> <<>>]
    /\ lock' = Nobody
    /\ task' = [c \in Client |-> Done]
    /\ UNCHANGED <<mail, secrets, files, used, deleted, requests, faults>>

-----------------------------------------------------------------------------
Request(c) ==
    \E a \in Account :
        RequestAdd(c, a) \/ RequestRemove(c, a) \/ RequestReauth(c, a) \/ RequestDownload(c, a)

Continue(c) ==
    \/ CreateProvider(c) \/ RegisterAccount(c) \/ ActivateProvider(c)
    \/ Purge(c) \/ DeleteSecrets(c) \/ DeleteRow(c)
    \/ Reauthorize(c) \/ FinishReauth(c)
    \/ FinishDownload(c)
    \/ VisitAccount(c) \/ EndSync(c)
    \/ StoreMailboxes(c) \/ SyncInbox(c) \/ ScheduleBackground(c) \/ FailSync(c)

Pass(a) == \E i \in DOMAIN background[a] : BackgroundPage(a, i) \/ ClosePass(a, i)

Next ==
    \/ \E c \in Client : Request(c) \/ SyncAll(c) \/ SyncOne(c) \/ Continue(c) \/ Abort(c)
    \/ \E a \in Account : Pass(a)
    \/ Restart

Spec == Init /\ [][Next]_vars

\* Providers, Online Accounts, Secret Service and disks are assumed to answer in
\* the end, and tokio's mutex is handed over in the order it is asked for.  Every
\* frontend synchronises all accounts again and again (runPeriodicSync), and
\* requests of a frontend are taken in the order they are sent, so others do not
\* keep that one out.
Fairness ==
    /\ \A c \in Client : SF_vars(Continue(c)) /\ SF_vars(SyncAll(c))
    /\ \A a \in Account : SF_vars(Pass(a))

FairSpec == Spec /\ Fairness
-----------------------------------------------------------------------------
(* Properties                                                              *)

\* accounts.add looks for an account of the same address before it makes one:
\* two frontends never set up the same online account twice.
OneAccountPerAddress ==
    \A a, b \in Brokered :
        auth[a] # "absent" /\ auth[b] # "absent" /\ SameAddress(a, b) => a = b

SyncsNow(c, a) ==
    /\ task[c].pc \in {"list", "inbox", "schedule"}
    /\ Visited(c) = a

\* background_syncing lets one pass at a time work on an account, foreground
\* and background together, whatever fails, disconnects or is removed: two
\* passes would apply pages built from the same cursor.
OnePassPerAccount ==
    \A a \in Account :
        Cardinality({c \in Client : SyncsNow(c, a)}) + Len(background[a]) <= 1

\* No reauthorisation is under way for an account that is being removed:
\* accounts.reauth, which takes no lock, has not raced accounts.remove.
NoStrayReauth ==
    \A c, d \in Client :
        task[c].pc \in {"reauth", "reauthorized"} /\ task[d].pc \in {"purge", "secrets", "row"} =>
            task[c].account # task[d].account

NothingLeft ==
    \A a \in deleted : auth[a] = "absent" /\ a \notin mail \cup secrets \cup files

\* Once an account has been removed, none of its four places holds anything of
\* it again: not the passwords, not a page that was being fetched, and not an
\* attachment whose download ends later.
RemovalIsFinal == []NoStrayReauth => []NothingLeft

\* A pass over an account reaches its end.
CompletesPass(a) ==
    \/ \E i \in DOMAIN background[a] : ClosePass(a, i)
    \/ \E c \in Client :
         SyncsNow(c, a) /\ ScheduleBackground(c) /\ UNCHANGED background

Active(a) == providers[a] # 0 /\ auth[a] # "absent" /\ a \notin removed

\* A sync.start ends at the first account that is broken, so those it visits
\* later are left out.
Reached(a) ==
    \A i, j \in DOMAIN Order : Order[i] = a /\ j <= i => Order[j] \notin Broken

SyncedAgainAndAgain ==
    \A a \in Account : Reached(a) /\ <>[]Active(a) => []<><<CompletesPass(a)>>_vars

\* While frontends stay connected, every account that sync.start reaches is
\* synchronised again and again: failures, removals and passes that overlap
\* never leave it marked as syncing for good.
EveryAccountSyncs == [](NoStrayReauth /\ aborts = 0) => SyncedAgainAndAgain

\* A stalled frontend cannot stall synchronisation: the same when frontends are
\* disconnected in the middle of a sync.start.
SyncSurvivesDisconnects == []NoStrayReauth => SyncedAgainAndAgain
=============================================================================
