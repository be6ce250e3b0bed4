# QuickMail: TLA+ specifications and proofs

QuickMail is a mail, calendar and task client for the Linux desktop. A daemon,
`quickmaild`, synchronises accounts into one SQLite database and serves any
number of frontends over a Unix socket; the QML application and `quickmailctl`
are such frontends. This directory holds TLA+ modules of the daemon's protocols,
the TLC configurations that check them on small instances, and TLAPS proofs of
what matters most in them, for all values of the constants.

Paths below are relative to the repository; `daemon.rs` and `storage.rs` are
under `crates/quickmaild/src/`, the providers (`imap_smtp.rs`,
`microsoft_graph.rs`, `agenda.rs`, `auth.rs`, `factory.rs`) under
`crates/quickmaild/src/providers/`.

## 1. Inventory

| Component | State it keeps | Operations | What is hard | What makes it correct |
| --- | --- | --- | --- | --- |
| IMAP mailbox synchronisation (`daemon.rs` `sync_mailbox_page`, `imap_smtp.rs` `sync_mailbox`, `storage.rs` `apply_mailbox_sync_page`) | tables `messages`, `mailboxes`, `mailbox_sync_state`; a page in progress | page of a mailbox, `mail.action`, `mail.get` | every page spans five awaits; UIDs are renumbered, moved, expunged meanwhile | no mail is skipped, the cursor never returns, ids keep their meaning, the cache converges |
| IMAP session (`imap_smtp.rs` `AsyncImapTransport`) | two pooled sessions, each behind a mutex; the known special folders | connect, authenticate, run commands, repeat once, drop | which operation may be repeated; a session left in the middle of an exchange; three commands where one is missing | nothing is applied twice, no message is in neither mailbox, lanes are given back |
| SMTP submission (`daemon.rs` `send_mail`, `imap_smtp.rs` `Xoauth2SmtpTransport`) | table `operations`, `drafts`; a pooled connection | `mail.send` over three transports | a lost reply after DATA, a transaction cut off in the pool, a crash between delivery and bookkeeping | delivered once and whole; only what was delivered counts as sent |
| Microsoft Graph mail (`microsoft_graph.rs`) | a provider's folder roles | authorized requests, `mail.action`, folder and attachment listings | refused tokens, several accounts in one action, links the server chooses | all or nothing locally, listings that end and are complete |
| Authentication (`auth.rs`, `factory.rs`) | a token cache behind a mutex; Secret Service | take a token, renew it; store and delete secrets | renewals of several requests at once | a refused token is not sent again |
| Agenda operations (`daemon.rs` task and calendar methods, `recover_pending_agenda_operations`; `agenda.rs`) | tables `operations`, `tasks`, `events`; `account_mutations` | create, update, complete, delete, `agenda.sync`, recovery | lost replies, interrupted creates, retries, order, restart between call and commit | no double create, no lost or resurrected item, every operation settles |
| RPC connection (`daemon.rs` `handle_connection`; `qml/RpcClient.qml`) | request lane, held-back request, response queue, event receiver, partial frame | read, dispatch, answer, forward events, shut down | six select branches, two bounded queues towards each other, cancellation | order of mutations, one answer each, no mutual waiting, no lost change, shutdown ends |
| Account lifecycle (`daemon.rs` `accounts.*`, `sync_selected_accounts`, `schedule_background_sync`, `restore_providers`; `factory.rs`) | table `accounts`, `providers`, `removed_accounts`, `background_syncing`, Secret Service, attachment cache | add, remove, reauthorise, download, start a synchronisation, restore | four stores with no transaction, aborts by disconnects, a method without the lock | one account per address, one pass per account, nothing left after removal, every account is synchronised |
| Process start and socket ownership (`main.rs`, `daemon.rs` `bind_user_socket`, `SocketGuard`, `storage.rs` `migrate`) | database file and `user_version`, lock file, socket file | migrate, restore, lock, clear a stale socket, bind, secure, serve, stop | several processes at once, a death between any two steps | the schema is what its version says, the path leads to the server |
| Avatars and attachments (`daemon.rs` `avatar.fetch`, `cache_attachment`) | cache directory, weak table of locks, slots | fetch, store, purge | a table that forgets locks, threads that outlive requests | one download at a time, whole files, slots returned |
| Storage and search (`storage.rs`) | SQLite database, one worker thread | transactions, full-text queries, migrations | migrations after a crash | atomic pages, sane upgrade |
| MIME and HTML (`mime.rs`, `daemon.rs`) | none | parse, sanitise | bytes | - |
| Frontend store (`qml/MailStore.qml`) | lists, generations, optimistic edits, `syncing` | request, answer, event, reload | stale answers and late events | shows the newest revision |
| Gmail REST mail (`gmail.rs`) | none | - | nothing constructs it | - |
| Visual components, host types, `quickmailctl`, packaging | - | - | presentation, glue | - |

They meet in three places. All methods that change state run on a connection's
ordered worker, one after the other, and connections run beside each other, so
what serialises two frontends is only the tokio mutex `account_mutations`, where
it is taken, and the mutex of the one session, connection or token cache they
share. The event channel tells every connection of a new database revision. The
database worker makes each transaction atomic. A request is a future: a frontend
that disconnects drops it at whatever await it has reached, which is a failure
of its own kind in nearly every part.

## 2. Modules

| Module | Models | Checked through |
| --- | --- | --- |
| `MailSync` | pages of one account's mailboxes, `mail.action`, `mail.get`, the server, restarts | `MCMailSync` |
| `MailboxFeed` | what a reader of the cache may rely on, without passes, requests or restarts | as a property of `MailSync` |
| `MailSyncFeed` | the refinement mapping from `MailSync` to `MailboxFeed` | `MCMailSync` |
| `ImapSession` | the two pooled IMAP sessions of an account | `MCDaemonParts` |
| `MailSubmission` | `mail.send` and its transports | `MCDaemonParts` |
| `GraphRequest` | tokens, authorized requests, `mail.action` over several Microsoft accounts | `MCDaemonParts` |
| `GraphFolders` | folder and attachment listings over pages | `MCDaemonParts` |
| `DaemonStart` | processes on one database and one socket | `MCDaemonParts` |
| `AvatarFetch` | `avatar.fetch`, its locks, slots and files | `MCDaemonParts` |
| `AgendaQueue` | agenda mutations, the operation table, recovery, refresh, disconnects, restarts | `MCAgendaQueue` |
| `RpcConnection` | one connection of one frontend | `MCRpcConnection` |
| `AccountLifecycle` | accounts, their four stores, passes over them | `MCAccountLifecycle` |
| `MailSyncProofs`, `AgendaQueueProofs`, `RpcConnectionProofs`, `AccountLifecycleProofs` | theorems about the modules they are named for; `MailSyncProofs` also about `MailSyncFeed` | `tlapm` |
| `HostImageProofs` | theorems about `DaemonStart` and `AvatarFetch`, the parts that meet the host's files | `tlapm` |
| `GraphProofs` | theorems about `GraphRequest` and `GraphFolders`, the two halves of `microsoft_graph.rs` | `tlapm` |
| `ImapSmtpProofs` | theorems about `ImapSession` and `MailSubmission`, the two halves of `imap_smtp.rs` | `tlapm` |
| `DaemonPartsProofs` | theorems about the parts of `MCDaemonParts` taken together | `tlapm` |

The modules meet at the boundaries the code has. `AccountLifecycle` decides that
at most one pass works on an account (`OnePassPerAccount`), and `MailSync` has
one pass for that reason. `RpcConnection` shows that requests of the ordered
lane run one at a time in order (`SerialOrder`), and `AgendaQueue` and
`AccountLifecycle` give each frontend one request in progress for that reason.
`AgendaQueue` and `AccountLifecycle` both contain `account_mutations`, each with
the methods it models. `MailSync` takes an operation on a session as one step
that happens or fails; `ImapSession` shows what that step is made of, and that it
is not repeated where `MailSync` does not repeat it.

The six modules of `MCDaemonParts` are parts of the daemon that share no
variable. A behaviour of that module runs one of them (`part`, fixed at the
start) and leaves the others in one initial state, so the state space is the sum
and not the product of theirs.

`PROJECT.json` maps each definition to the lines it stands for.

### MailSync, MailboxFeed, MailSyncFeed

State: `generation`, `nextUid`, `box` are the server's UIDVALIDITY, UIDNEXT and
content of each mailbox; `rows` and `cursor` are the tables `messages` and
`mailbox_sync_state`; `sync`, `act` and `get` hold what a pass, an action and an
open remember between two awaits. A message is its number of arrival.

| Action | Code |
| --- | --- |
| `BeginPage` | cursor and newest ids are read (`sync_mailbox_page`) |
| `SelectMailbox`, `SearchMailbox`, `FetchEnvelopes`, `ConfirmGeneration` | SELECT, UID SEARCH, UID FETCH and the second SELECT of `sync_mailbox`, each its own await |
| `ApplyPage`, `RejectPage` | the transaction of `apply_mailbox_sync_page`, and its refusal (`InvalidData`) when a known id belongs to another mailbox by now |
| `FailPass` | a provider error at any await ends the pass |
| `QueueAction`, `ValidateAction`, `ApplyAction`, `FinishAction` | `mail.action`: `validate_ids`, UID STORE or UID MOVE on another SELECT, then the cache |
| `OpenMessage`, `FetchMessage`, `StoreMessage` | `mail.get` of a body that is not cached |
| `Arrive`, `FlagElsewhere`, `ExpungeElsewhere`, `NewGeneration` | the server (external) |
| `Crash` | the daemon stops; SQLite stays |

Abstractions. The reads of cursor, newest ids and ids for the thread-metadata
backfill follow each other without a network await and are one step; the
backfill ids themselves, which older caches need, are left out. `star` and
`trash` behave as `mark_read` and `archive` do. Local tasks and `set_labels` are
left out, as is a server that omits UIDNEXT. The COPY fallback of a move is in
`ImapSession`.

`MailboxFeed` is the promise: a feed has a position in a mailbox's numbers and
a list. Going forward it lists every message it passes (`Continue`), only its
first step in a generation may leave messages out (`Restart`), only a message the
server no longer holds is taken off the list (`Unlist`), and it comes to the
newest message (`FeedProgress`). `MailSyncFeed` maps the position to the stored
cursor and the list to the rows of the mailbox whose ids name it and its
generation; a row that a local move has put elsewhere under its old id is not in
any list until a pass finds it under its new one.

### ImapSession

State: `session` and `owner` are the content and the holder of each lane's mutex
(`session`, `detail_session`); `req` is each request's place in its operations
and their commands; `special` is the remembered archive folder. The server
(`mail`, `validity`, `archive`, `serverCaps`) holds one message the requests are
about. A command is sent, executed and answered in separate steps; `late` holds
commands whose sender is gone and which the server may still execute. `applied`
is history.

`Begin` is a request (`mark_read`, `archive`, `get`, `list`) with its sequence of
operations (`Program`); `LockSession` takes the lane and connects if it is empty
(`run_session_operation`); `ReadAnswer`, `Refuse` and `MistakeAnswer` are the
outcomes of a command, the last one a NO left over from an aborted exchange (a
left-over OK is skipped by the client library, which takes one only under the tag it
waits for); a STATUS that is refused costs a listing its counts and nothing else
(`FailCommand`), any other command fails its request; `Invalidate` empties the lane
after a lost connection or a time-out (`LoseConnection`, `TimeOut`) and repeats the
operation if `RetrySafe`; `Abort` drops the request and leaves the session in the
lane. `Commands` has the three ways of a move: MOVE; COPY, +FLAGS (\Deleted),
EXPUNGE; and the first two. `Renumber` ends the sessions with the mailbox selected:
that UIDVALIDITY does not change under a selected session is a rule of IMAP, on
which `BodyOfAsked` rests as the code does.

### MailSubmission

State: `sendOps` and `drafts` are the tables; `pool` and `poolOwner` the XOAUTH2
connection's slot and its mutex; `smtp` the server's side of it, with the phase
of its transaction, the text it has and the replies not read yet; `graphDraft`
the drafts at a Microsoft account; `delivered` what was accepted for delivery.

`QueueOutgoing`, `FetchParent`, `FinishOperation` and `RemoveDraft` are
`send_mail`; `SubmitLettre` is lettre's whole transaction (external); `TakePool`
locks the pool and, if it is empty, `Connect` fills it or `ConnectRefused` gives the
mutex back; `WriteLine`, `WriteBody`, `FlushDot`, `ReadReply`, `LoseReply` and
`DropPool` are the transaction of `Xoauth2SmtpTransport`, line by line. `FallSilent`
is an answer that never comes where no deadline is: in the TLS handshake or from
Online Accounts under the pool's mutex, from the server lettre talks to, or from
Online Accounts on the way to Graph. `CreateDraft`, `UpdateDraft`, `SubmitDraft`
are the three Graph calls. `AbortSend` drops the request, the connection stays in
the pool; `CloseSmtp` is the server; `CrashSends` a restart.

### GraphRequest and GraphFolders

`GraphRequest`: `cached` and `cacheOwner` are the token cache and its mutex,
`goa` and `refusedBelow` the last token issued and the oldest one the server
takes, `actionOps` and `changedBy` the operation rows and the local rows. An
action is recorded (`RecordAction`), its messages are changed one request at a
time (`TakeToken`, `AskGoa`, `Answer`, `Unauthorized`, `LoseAnswer`), or Online
Accounts never answer and the cache's mutex is kept (`GoaSilent`), and
`FinishAction` settles the row and changes the local rows. The order of accounts
is the hash map's: any (`Batch`).

`GraphFolders`: a listing is a breadth-first walk (`VisitPage`, `EndPages`) over
pages whose next link the server may get wrong (`OddLinks`), with the refusals of
`RefuseVisit`; folders and attachments each have limits of their own (`MaxPages`,
`MaxItems`); `WaitForGoa` is a listing that asks for a token in vain; `AskWellKnown`
and `ReadRoles` are the well-known folders, asked for once by a provider;
`MoveFolder` is the user.

### DaemonStart

State: `version` is `PRAGMA user_version`, `features` what the tables have,
`lockHolder` the flock, `socketFile` the directory entry with its owner, mode and
listener. `LookForDatabase` to `Migrated` are the opening of the database and
`migrate`, one transaction a step, or none when the version is newer than the
daemon's (`NewerSchema`); `RestoreHangs` is a discovery of online accounts that is
never answered; `LockSocket`, `InspectSocket`, `ClearSocket`,
`BindSocket`, `SecureSocket` are `bind_user_socket`; `CloseListener` and
`RemoveSocket` the way down; `StartService` and `Launch` the service manager
(`packaging/quickmaild.service`) and the launcher (`packaging/quickmail`), which
starts a daemon when its ping finds none. That the launcher first asks systemd,
and waits if a service is active, is left open: systemd may be missing or refuse,
and ping, question and start are steps apart, so that a service may start between
them. The model has every start the script can make.

### AvatarFetch

`GetKeyLock` prunes the weak table and takes or makes the URL's lock,
`TakeKeyLock` waits for it, `TakeSlot` for a permit; `ReadCache`, `Download`,
`WriteTemporary` and `RenameTemporary` follow, the last two in a blocking thread
that outlives the request (`AbortFetch`) but not the daemon (`CrashFetches`). A
lock is named by the request that made it.

### AgendaQueue

State: `remote` and `fresh` are the provider's items and unused ids; `cache` is
tables `tasks` and `events`; `ops` is table `operations` in rowid order; `lock`
is `account_mutations`; `task` is what each frontend's worker is doing.
A field's value is the number of the request that wrote it, so an old edit that
overwrites a new one is visible.

`RequestCreate`, `RequestUpdate`, `RequestComplete` and `RequestDelete` take the
lock and write a pending operation; `CallProvider` covers the call with its
outcomes (delivered and answered, delivered and lost, delivered with an answer that
cannot be used, refused, not delivered);
`FinishRequest` commits the answer with the operation. `BeginRecovery` to
`EndRecovery` are `recover_pending_agenda_operations`, one operation at a time:
`SkipBlocked`, `SettleLocally`, `Undiscovered`, `Replay` and `FinishReplay` are
the branches of its loop. `FetchAgenda` and `ReplaceAgenda` are
`sync_remote_agenda`, which replaces what lies in the window it asks for and leaves
the rest (`Outside`). `Abort` is a frontend that disconnects, `Crash` a restart.

Abstractions. The list of pending operations is read in one step and kept as a
set of rowids, of which the loop takes the least (`Oldest`), as the list is
ordered by rowid. A provider
refresh of several pages is one read, all of it under the lock. Whether a
deferred operation is "recent" is read when it is looked at. A call that reaches
the provider after its worker was aborted is delivered before the abort, or not
at all. Purely local tasks never reach a provider and are left out.

### RpcConnection

State: the socket's two directions, `partial` (the buffer of `read_until`),
`waiting` (`pending_serialized`), `writing`, the lane, the worker, the readers,
`replies` and the event receiver with its lag. Each branch of the select in
`handle_connection` is an action (`NoticeShutdown`, `ForwardEvent`, `WriteReply`,
`Reap`, `HandOver`, `Read`); while a frame is being written no branch runs. The
frontend sends one of the `Scripts`, receives, and may hang up.

Abstractions. The content of methods, the 1 MiB limit and requests without an id
are left out; so is the `Closed` error of the event receiver, which needs every
sender gone. A frontend that is told to reload reads the current revision at
once; an answer older than what it shows is dropped, as its store does.

### AccountLifecycle

State: `auth` is the `auth_state` of each row of table `accounts`; `mail`,
`secrets` and `files` are the accounts with mail in SQLite, passwords in Secret
Service and files in the attachment cache; `providers` numbers the live provider
of each account, so that `Arc::ptr_eq` is equality of numbers; `removed` and
`syncing` are `removed_accounts` and `background_syncing`; `background` is the
background passes of each account (a sequence, so that two would be seen);
`lock` is `account_mutations`; `deleted` is history.

| Action | Code |
| --- | --- |
| `RequestAdd`, `CreateProvider`, `RegisterAccount`, `ActivateProvider` | `accounts.add` |
| `RequestRemove`, `Purge`, `DeleteSecrets`, `DeleteRow`, with `RollBack` | `accounts.remove` |
| `RequestReauth`, `Reauthorize`, `FinishReauth` | `accounts.reauth`, which takes no lock |
| `RequestDownload`, `FinishDownload` | `attachment.download` |
| `SyncAll`, `SyncOne`, `VisitAccount`, `StoreMailboxes`, `SyncInbox`, `ScheduleBackground`, `FailSync`, `EndSync` | `sync.start` |
| `BackgroundPage`, `ClosePass` | `run_background_sync` |
| `Abort`, `Restart` | a connection closes; `restore_providers` |

Abstractions. Where the code takes the lock only to store something, that is one
step that needs the lock free. An account whose passwords are deleted in part
still counts as having some. A write that fails leaves a partial file, which counts
as a file. A write handed to `spawn_blocking` does not outlive an aborted request
here. A restart restores what it can; the other accounts become `needs_auth` or
`error`. The order in which a hash map iterates is the constant
`Order`, and what a pass has still to visit is a set walked in that order
(`First`). The agenda part of a pass is in `AgendaQueue`. The mailboxes after the
Inbox are one page. A frontend may ask again to remove an account that another
one has removed.

## 3. Runs

All constants named `Max...` bound counters that the program does not bound.

| Run | Bounds | What it shows |
| --- | --- | --- |
| `paging` | 1 mailbox, 4 messages, page of 1, window of 2, 2 generations, 2 changes elsewhere, 1 fault | The backlog exceeds page and window, windows are empty after an expunge, the bootstrap leaves mail out: `CursorCovers`, `CursorMonotonic`, `ResetReplacesMailbox`, `BootstrapKeepsNewest`, `ImplementsFeed` |
| `requests` | 2 mailboxes, 2 messages, 2 generations, 1 action or open, 1 fault | A pass races with a request and a renumbering: `ImplementsFeed`, `RecentMailConverges`, `IdentityStable` |
| `agenda_cache` | 1 account, 2 items, one of them outside the refreshed window, 2 frontends, 3 mutations, 2 faults | `NoDuplicateCreate`, `SucceededMeansCached`, `NoResurrection` |
| `agenda_progress` | 2 accounts, one broken, 1 frontend, 2 mutations, 1 edit elsewhere, 1 fault | `RecoveryInOrder`, `OperationsSettle` |
| `rpc_pipeline` | 8 requests, queues of 2, socket of 1; or a subscription, 2 topics and a receiver of 1 event | Lane, worker, held-back slot, responses and socket are all full at once, and the receiver lags: `SerialOrder`, `AnsweredOnce`, `AllAnswered`, `ViewConverges`, `ShutdownCompletes` |
| `accounts` | 3 accounts, two of one address, 2 frontends, 2 requests beside any number of `sync.start`, 1 fault, 1 disconnect or restart | `OneAccountPerAddress`, `OnePassPerAccount`, `RemovalIsFinal` |
| `account_syncs` | the same with 1 request, 1 fault, no disconnect | `EveryAccountSyncs` |
| `daemon_parts` | see below | `MutatesOnce`, `NothingLost`, `BodyOfAsked`; `DeliveredOnce`, `NeverMixed`, `SentMeansDelivered`; `RefusedTwice`, `LocalFollowsServer`; `ListsTree`; `SchemaSound`, `PathLeadsToServer`; `OneDownload`, `CacheWhole`; `NothingHangs` for all of them |
| `local_flags` | 2 mailboxes, 3 messages, 1 action | `LocalActionsStaySynchronized` does not hold |
| `agenda_fifo` | 1 account, 2 mutations, 1 fault | `FifoPerAccount` does not hold |
| `rpc_large_frame` | 3 requests, the second in two pieces | `AllAnswered` does not hold |
| `sync_abandoned` | 1 account, 1 frontend, 1 disconnect | `SyncSurvivesDisconnects` does not hold |

Bounds of `daemon_parts`, which has about 590 000 states:

- IMAP: two requests of any kind, two faults (lost connections, time-outs,
  refusals, mistaken answers, disconnects, renumberings, renamed archives), any
  of the server's capabilities. Two requests are what one lane can be contended
  by; one fault and the retry's fault are two.
- Submission: a new message from a draft and an answer, three faults (a server that
  falls silent is one), one edit of the draft, each transport. Mixing two messages
  takes an aborted request, a reused connection and its failure: three faults.
- Actions: two requests on two messages of two accounts, two faults (a token
  revoked, a lost answer, Online Accounts that never answer, a disconnect, a
  restart).
- Listings: two requests, three folders in any tree, one of them well-known and
  possibly hidden, attachments over two pages, one odd link, failed request or
  moved folder, or Online Accounts that never answer; limits of 4 pages and 3 folders,
  2 pages and 2 attachments, stand for the larger ones of the code; each is
  reached.
- Processes: one of the service manager and two of the launcher, two faults
  (crashes, errors, stops, a start that hangs), a database of any version up to one
  newer than theirs. `SCHEMA_VERSION` is 5: all migration steps from 4 on
  behave alike, the four before are the ones that fail on what is there already.
- Images: three requests for two images over two slots, one image possibly in the
  cache, fresh or stale; two faults.

Why the other bounds are enough. A page that is truncated, one that is not, an
empty window and a resumed one need a backlog of two pages and a gap, so four
messages. A race needs one request against one pass: what a second request could
add is covered by the theorems, which hold for any number. An agenda operation
can be overtaken by one other and interrupted once in the foreground and once in
the recovery. `Capacity` 2 stands for 32: at least 2 is needed because the
worker occupies one place of its own while the lane holds others. In
`AccountLifecycle` each property relates at most two requests (a removal and a
download, two additions) and any number of passes.

`CHECK_DEADLOCK FALSE` is set for `RpcConnection`, where a closed connection
stays closed, and for `MCDaemonParts`, where requests that have ended stay so and
a host may want no daemon.

### Fairness

- Pages, actions and opens (`MailSync`): weak fairness. The runtime polls each
  task it has spawned, and the frontend's timer (`runPeriodicSync`) starts
  passes again and again. The server owes nothing.
- Requests and recoveries (`AgendaQueue`), requests and passes (`AccountLifecycle`):
  strong fairness of each frontend's worker and of each background task.
  `account_mutations` is a tokio mutex and first-in-first-out: whoever waits gets it
  although others keep taking it. Calls to servers end by their deadlines; Online
  Accounts, which have none, are assumed to answer. Strong fairness of the periodic
  `sync.start`: the ordered lane runs what it is sent in order, so other requests
  cannot keep it out.
- The connection (`RpcConnection`): `tokio::select!` picks at random among ready
  branches, so strong fairness of each branch; a write ends by
  `CONNECTION_WRITE_TIMEOUT`. That frontends read and calls return is an
  assumption of `AllAnswered` and `ViewConverges` (`Responsive`) and not of
  `ShutdownCompletes`.
- IMAP sessions, submission, Graph requests, listings: weak fairness of each
  request, where a deadline ends its waits, in an answer or in a fault. IMAP:
  connecting, its token included, and each command (`IMAP_COMMAND_TIMEOUT`,
  `bounded_imap`). Graph: the HTTP client's (15 s to connect, 90 s in all). SMTP
  over XOAUTH2: the TCP connection, each write and each reply (`timeout_smtp`).
  Online Accounts: the two calls that renew a token. There are finitely many
  requests here, so a free mutex is not taken from a waiting one for ever. Without a
  deadline are the TLS handshake of the SMTP connection (`imap_smtp.rs:1457-1461`,
  `1470-1474`), what lettre is left to do, and the session bus, proxies and
  properties of Online Accounts (`auth.rs:457-471`, `482-489`). There a request may
  fall silent and has no step that fairness could ask for.
- Images: strong fairness of each request, since tokio's mutex and semaphore are
  fair queues. The look-up of an image's host has no deadline of the daemon's and is
  assumed to end.
- Processes: weak fairness of a running process, and of the service manager's
  start of a service that is wanted (`Restart=on-failure`). Nothing is owed by
  the launcher.

`NothingHangs` says that again and again every part is at rest. Requests that
have ended stay ended and parts that do not run are at rest, so it says of each
request that it ends, and of the processes that a wanted daemon comes to serve. What
the code does not guarantee is excepted by name, and the run reaches each exception:

- a `mail.send` that waits without a deadline, and those behind it at the pool's
  mutex or the token's (`HeldUp`). An SMTP server that accepts the TCP connection and
  says nothing in the TLS handshake does this. It is at odds with
  `docs/performance.md` (25-26), which promises deadlines "so a remote server cannot
  hold a client operation forever"; without the exception, `TakePool` and `FallSilent`
  after a `QueueOutgoing` are a counterexample;
- a `mail.action` that waits for Online Accounts, or for the mutex of a token cache
  that such a one holds (`HeldByGoa`), and the same of listings (while `TokenFree`
  does not hold);
- a service whose start waits for Online Accounts (`ServiceHung`), or is refused
  each time: by a socket that a process left which was started with an open umask
  and died between binding and securing it (`OpenSocketLeft`), or by a database of
  a newer version (`NewerSchema`).

`OperationsSettle` is checked with a recovery page (`RecoveryLimit`, 128 in the
code) that holds all pending operations. With a smaller one it does not hold:
LIMIT is applied over all accounts before the blocked ones are left out, so the
operations of an account that never recovers can fill the page.

`EveryAccountSyncs` leaves out the accounts visited after one whose server always
refuses, since `sync.start` returns at the first failure; it assumes that
frontends stay connected, and `sync_abandoned` shows why. It and
`RemovalIsFinal` assume that no `accounts.reauth` is in progress for an account
whose removal is in progress (`NoStrayReauth`). When one is, the provider it
inserts survives the removal; a second removal that is rolled back puts that
provider back and lifts the account from `removed_accounts`, and then a download
is stored for an account that is gone. That takes four requests; the run has two,
and the theorem, which needs the assumption, covers any number.

### What the violation runs say

- `local_flags`: a page carries the flags of its FETCH. A message marked as read
  between FETCH and transaction is stored as unread; later pages re-read the
  flags of the newest rows only, so once it is not among them it stays wrong.
  `docs/performance.md` promises that locally initiated read and star actions
  remain synchronised.
- `agenda_fifo`: a foreground mutation does not wait for older pending
  operations of its account, so a recovery replays the older content over it.
  `docs/provider-support.md` promises account-scoped FIFO order.
- `rpc_large_frame`: `read_until` is dropped when another branch of the select
  completes, and the next turn clears the buffer. What had been read of a frame
  is lost, and the request is never answered.
- `sync_abandoned`: `background_syncing` is cleared on each return, but a worker
  that is aborted at an await does not return. `docs/performance.md` says a
  stalled frontend cannot stall synchronisation; one whose write times out is
  disconnected, and its unfinished `sync.start` bars the account until the
  daemon restarts.

## 4. Proofs

| Theorem | Module | States |
| --- | --- | --- |
| `TypeCorrect` | `MailSyncProofs` | `Spec => []TypeOK` |
| `NoMailSkipped` | `MailSyncProofs` | `Spec => []CursorCovers` |
| `CursorStaysBehind` | `MailSyncProofs` | `Spec => []CursorBehindServer` |
| `CursorNeverReturns` | `MailSyncProofs` | `Spec => CursorMonotonic` |
| `ResetIsComplete` | `MailSyncProofs` | `Spec => ResetReplacesMailbox` |
| `SyncIsFeed` | `MailSyncProofs` | `Spec => Feed!FeedSafety` |
| `IdsKeepTheirMessage` | `MailSyncProofs` | `Spec => IdentityStable` |
| `BootstrapTakesNewest` | `MailSyncProofs` | `Spec => BootstrapKeepsNewest` |
| `QueueTypeCorrect` | `AgendaQueueProofs` | `Spec => []TypeOK` |
| `CreateMakesOne` | `AgendaQueueProofs` | `Spec => []NoDuplicateCreate` |
| `RecoveryKeepsOrder` | `AgendaQueueProofs` | `Spec => []RecoveryInOrder` |
| `CacheShowsSucceeded` | `AgendaQueueProofs` | `Spec => []SucceededMeansCached` |
| `NothingResurrected` | `AgendaQueueProofs` | `Spec => NoResurrection` |
| `OperationsDurable` | `AgendaQueueProofs` | `Spec => SettledForGood` |
| `LockComesBack` | `AgendaQueueProofs` | `Spec => []LockUsed` |
| `RecoveryComplete` | `AgendaQueueProofs` | `Spec => []RecoveryReaches` |
| `QueuesBounded` | `RpcConnectionProofs` | `Spec => []TypeOK` |
| `MutationsInOrder` | `RpcConnectionProofs` | `Spec => []SerialOrder` |
| `AnsweredAtMostOnce` | `RpcConnectionProofs` | `Spec => []AnsweredOnce` |
| `RequestsAccounted` | `RpcConnectionProofs` | `Spec => []Accounted` |
| `QueuesNeverLock` | `RpcConnectionProofs` | `Spec => []NoGridlock` |
| `ChangesNoticed` | `RpcConnectionProofs` | `Spec => NothingMissed` |
| `AccountTypeCorrect` | `AccountLifecycleProofs` | `Spec => []TypeOK` |
| `AddressOnce` | `AccountLifecycleProofs` | `Spec => []OneAccountPerAddress` |
| `PassesAlone` | `AccountLifecycleProofs` | `Spec => []OnePassPerAccount` |
| `RemovalStays` | `AccountLifecycleProofs` | `Spec => RemovalIsFinal` |
| `LockComesBack` | `AccountLifecycleProofs` | `Spec => []LockUsed` |
| `MarkGivenBack` | `AccountLifecycleProofs` | `Spec => []MarkMeansPass` |
| `RemovalUndone` | `AccountLifecycleProofs` | `Spec => []RowsUsable` |
| `HostTypeCorrect` | `HostImageProofs` | `HostSpec => []HostTypeOK` |
| `HostSchemaSound` | `HostImageProofs` | `HostSpec => []SchemaSound` |
| `HostPathLeadsToServer` | `HostImageProofs` | `HostSpec => []PathLeadsToServer` |
| `AvatarOneDownload` | `HostImageProofs` | `AvatarSpec => []OneDownload` |
| `AvatarTypeCorrect` | `HostImageProofs` | `AvatarSpec => []AvatarTypeOK` |
| `AvatarCacheWhole` | `HostImageProofs` | `AvatarSpec => []CacheWhole` |
| `AvatarNeverStuck` | `HostImageProofs` | `AvatarSpec => []SomeFetchGoesOn` |
| `ActionTypeCorrect` | `GraphProofs` | `ActionSpec => []ActionTypeOK` |
| `ActionLocalFollowsServer` | `GraphProofs` | `ActionSpec => []LocalFollowsServer` |
| `ActionRefusedTwice` | `GraphProofs` | `ActionSpec => []RefusedTwice` |
| `TokenLockComesBack` | `GraphProofs` | `ActionSpec => [](TokenLockUsed /\ OneRenewal)` |
| `FolderTypeCorrect` | `GraphProofs` | `FolderSpec => []FolderTypeOK` |
| `ListingComplete` | `GraphProofs` | `FolderSpec => []ListsTree` |
| `SessionTypeCorrect` | `ImapSmtpProofs` | `ImapSpec => []ImapTypeOK` |
| `SessionMutatesOnce` | `ImapSmtpProofs` | `ImapSpec => []MutatesOnce` |
| `SessionNothingLost` | `ImapSmtpProofs` | `ImapSpec => []NothingLost` |
| `SessionBodyOfAsked` | `ImapSmtpProofs` | `ImapSpec => []BodyOfAsked` |
| `SubmissionTypeCorrect` | `ImapSmtpProofs` | `SendSpec => []SendTypeOK` |
| `SubmissionDeliveredOnce` | `ImapSmtpProofs` | `SendSpec => []DeliveredOnce` |
| `SubmissionNeverMixed` | `ImapSmtpProofs` | `SendSpec => []NeverMixed` |
| `SubmissionSentMeansDelivered` | `ImapSmtpProofs` | `SendSpec => []SentMeansDelivered` |
| `SubmissionPoolComesBack` | `ImapSmtpProofs` | `SendSpec => []PoolUsed` |
| `SubmissionRowsExplained` | `ImapSmtpProofs` | `SendSpec => []RowsExplained` |
| `PartsAlone` | `DaemonPartsProofs` | `PartsSpec => ImapSpec /\ SendSpec /\ ActionSpec /\ FolderSpec /\ HostSpec /\ AvatarSpec` |
| `PartsTypeCorrect` | `DaemonPartsProofs` | `PartsSpec => []PartsTypeOK` |

They hold for any sets of mailboxes, requests, frontends, processes, accounts,
items, messages and images (those of an action, and the accounts of
`AccountLifecycle`, finite), any scripts, capacities and limits and any bounds on
faults, under the assumptions named in the modules (`MailboxAssumption`,
`LimitAssumption`, `AccountAssumption`, `ClientAssumption`, `BoundAssumption`,
`OrderAssumption`, `RequestAssumption`, `CapacityAssumption`, `HostAssumption`,
`AvatarAssumption`, `ActionAssumption`, `FolderAssumption`, `ImapAssumption`,
`SendAssumption`), which TLC evaluates in each run of them. `ClientAssumption` and
the like only keep the name for "nobody" apart from the members of a set
(`ActionAssumption` does so too); `CapacityAssumption` asks for two places in a
queue, as the worker occupies one (the code has 32). None needs fairness.

**The cursor.** `CursorCovers` is not inductive: it says nothing of a page in
progress, and the step that could break it is the one that applies the page. The
invariant `IInv` adds what the page knows. `ServerNumbers`: UIDs are below
UIDNEXT. `IdsIssued` and `CursorsIssued`: an id or cursor anywhere in the daemon
is of an older generation, or of this one and below UIDNEXT, so a message that
arrives later is above it. `PassStarted`: the cursor a page was built on is
still the one stored, since only pages move cursors and there is one pass per
account. `PassSearched`: as long as the generation is the one selected, what is
on the server at or below the new high mark was found, was below the old cursor,
or was left out by the bootstrap. `PassFetched`: the page holds exactly what was
asked for and is still there. `MovesTookEffect`: a move the server accepted has
taken the UID away, so the row that `FinishAction` moves or deletes is of no
message the cursor must cover. One lemma for each group of actions
(`ServerStepKeeps`, `ActStepKeeps`, `GetStepKeeps`, `LookStepKeeps`,
`ApplyPageKeeps`, `EndStepKeeps`) shows that it is kept; `ServerStepMoves`,
`StoreMoves` and `MoveMoves` say once what may happen to a mailbox in a step:
UIDNEXT grows, nothing returns below it, or the generation grows.
`CursorMonotonic` and `ResetReplacesMailbox` follow because only `ApplyPage`
changes a cursor.

**The ids.** `Means` says which message an id stands for, wherever the two are held
together: in a mailbox of the current generation, in a row, in a body that was
fetched, in a page that is confirmed or will be. `OneMessagePerId`: it is one
message. What is held under an id was given out (`MeansIssued`, from `IInv`), so an
arrival, a move and a renumbering, which alone add something, add it under ids that
meant nothing (`FreshKeeps`, `GenerationKeeps`); all other steps hand on what was
held (`HandedOn`). A page read across a renumbering is not held by this definition,
as it will be refused. **The bootstrap.** `LeavesOlder` is true from the search to
the end of a pass; that a page of the highest UIDs is full when it leaves one out
(`HighestIsFull`) counts the UIDs above each, and takes the highest that is left out
and above none other by well-foundedness of inclusion.

**The feed.** Every step of `MailSync` from a state of `IInv` is a step of
`MailboxFeed` or leaves its variables alone: the server's steps deliver,
withdraw, transfer or renumber; the applied page continues, restarts or comes too
late (`PageMoves`), and `PageListsHeld` is what it passes; a finished action or
open lists or unlists one number (`FinishChanges`, `StoreLists`); all others
stutter (`OthersStutter`). `FeedProgress`, the liveness half of
`ImplementsFeed`, is model-checked.

**The agenda.** `QueueInv` relates the operations to what each frontend has in
hand. Whoever is between two steps under `account_mutations` holds it
(`LockHeld`), so what one of them read (`AnswerTrue`, `PageTrue`) is still true
when it is stored. `PostsInv` and `InProgress`: only a create posts, it is
called only by the request that wrote it, and a replay is never a create; so a
create makes one item at most although its answer may be lost. `ListInOrder`: with
an operation the recovery has still to look at come the older pending ones of its
account, unless that account is left out, also when the page was cut off at
`RecoveryLimit`; hence `RecoveryInOrder`. `ItemsInv` and `CacheInv`: an item that
is not cached and that an operation is about is not at the provider, and an item
whose operations all succeeded is cached as the provider has it, as long as no
other program edits it. The set a page is cut from is finite, and a recovery
takes its least member (`Oldest`): that it has one is well-foundedness of the
naturals. `Reach` extends it to how far a recovery comes: as long as it goes on, a
pending operation of its accounts is on its list, in progress, of an account that
has to wait, or behind as many older operations as the page takes (`CutOff` counts
them). So `RecoveryReaches` holds for any `RecoveryLimit`, whereas `OperationsSettle`
is checked with a page that holds all. `Durable` follows row by row: what a step
writes to the table keeps what was asked, and only a pending row changes its state.

**The connection.** What is in the socket are the last pieces sent, in order
(`FrontInv`), so a request "has arrived" once and for all when its last piece has
been read. `OrderInv` then says that the executed requests, the ordered lane and
the request held back are sorted by position in the script, each before the
next, and all have arrived: a frame read next comes after them. `CountInv` is
conservation: a request is at one of eight places at most (read and held back, in
the lane, with the worker, with a reader, its answer in the queue, being written,
in the socket, received), and at none before it has arrived. `Among` and `Held`
count; each branch of the select moves one unit or drops it. `PresentInv` is the
other half, one place at least while the connection lasts, from which `Accounted`
concludes that it is one; a frame that comes in pieces is left out, as another
branch of the select may cancel the read. `NoGridlock` goes through the places: from
each of them leads a step whose guard holds (`Moves`), if not from the place itself,
then from the one it waits for, and the last of these, the socket, is emptied by a
frontend that reads. `NothingMissed` is about `Informed`: the view is the revision, or
an event, the mark that some were lost, or a notice on its way out says otherwise.
A receiver that is full drops its oldest event but sets the mark with it.

**The accounts.** `TaskInv`: a request in a step under `account_mutations` holds
it. `AddInv`: ids are not given out again, and while an online account is being
created no row has its address, since the check and the row are both under the
lock; hence one account per address. `PassInv`: an account some pass works on is
marked in `background_syncing`, and there is one foreground pass of it, or one in
the background, or none. For removals, `GoneInv` holds as long as `NoStrayReauth`
does: an account that is gone has no row, password, file or provider, a removal
in progress has taken the provider out, and one of an account that is gone has
none to give back. `RemovalIsFinal` is stated over behaviours in which
`NoStrayReauth` always holds; the theorem keeps it as a hypothesis of each step.
`UsableInv` is about removals that fail: who took a provider out of the map has it in
hand until it is put back or the account is gone, and what is marked as removed is
gone or about to be. Since a dropped removal is not undone, and a dropped
synchronisation leaves its mark (the violation runs say so of the latter),
`RowsUsable` and `MarkMeansPass` speak of behaviours without a disconnect or restart,
which are the ones with `aborts = 0`. `LockUsed` needs no such condition.

**The schema.** A process reads the version outside of any transaction, so it may
believe an old one. `SchemaPrefix` says that the features are those up to some `k`,
that neither the recorded version nor what any process believes is above `k`, and
that below version 4, where a step fails on what is there, `k` is the version
itself. From 4 on a step that somebody did before changes nothing but the version,
which may go back and forth below `k`; that is why `SchemaSound` speaks of at least
the version. A database of a newer version is outside of this: nobody has come to
migrate, and nobody will (`TooNew`). **The socket.** Only the holder of the lock
touches the socket file, from the look at it to its removal, and a process leaves
with its listener before the lock; hence `SocketOwned`.

**The downloads.** A lock is alive as long as somebody has it, so the table's
entry of a URL is the lock of every request under way for it (`InTable`), and a
request past the lock holds its own (`HoldsOwn`): two past the lock for one URL
would hold one lock. `SlotsAdd` counts the requests in a slot. Slots are taken behind
locks and nobody in a slot waits for a request, so if no slot is free somebody in one
goes on, and if one is free the holder of a lock does (`CircleBroken`); this needs
that a request that awaits its file has a thread that writes it (`ThreadsWrite`).

**The action.** `Progress` says of a request under way that what it has still to
do is exactly what no server has done for it, each message once; an order from
`Batch` is a bijection (`BatchComplete`), and an answer takes its head from both
sides (`TailLeft`). A lost answer ends the action, which is why "at most once"
survives it. `TokenOrder` says that a refused token is below what the server
takes, a bound which only grows; a forced token comes from a renewal, which is
at or above it. `TokenLock` ties the owner of a cache's mutex to the one request of
that account that asks GOA, from the lock to every way out of the call, or for as
long as GOA does not answer.

**The session.** `Owned`: a lane is held by the request whose commands go over it,
and by no other, so a command belongs to one request. `OnceInv` follows a request
over its attempts: while it is in progress nothing of it is left over on a
connection; what it leaves when it ends is one command, whose kind the server has
not executed for it; and only an operation that is retry-safe begins again, which
sends no command that changes a mailbox. Hence `MutatesOnce`, although a command
may be executed after its request has failed. `CopyInv`: within the first
generation, whoever sends `STORE +FLAGS \Deleted`, or left it behind, has had its
COPY made. `BodyInv`: a session lives in one generation, since a renumbering ends
it, so the generation of the SELECT is the one of the FETCH as long as the session
answers.

**The submission.** The hard part is that a request may be dropped anywhere in a
transaction and the connection stays in the pool, with replies nobody read, half a
message or a dot that is not flushed; the next request uses it as it is.
`LeftPooled` says what a connection can be left as. A 354 is the last reply there
is (`GoAheadLast`), as a server that takes a message answers no line. Unread
replies are two at most before one that ends the next transaction: MAIL inside of
a transaction is answered 503, so the lag between commands and replies grows to
two and no further, and a request that has come to DATA with a lag meets a 250 or
a 503 where it expects 354. `InMail`, `BeforeRcpt`, `InRcpt`, `BeforeData` and
`InData` say this stage by stage, and each of the lemmas `MailHeard`, `MailRead`,
`RcptHeard`, `RcptRead`, `DataHeard` and `DataRead` leads from one to the next; the
end of it is `BeforeBody`: whoever writes its text has read its own 354, on an
empty message and with nothing unread, or the connection is closed. `DotInv`: a
dot that was left is of a dropped request whose message is not delivered yet, so
that the next request that flushes it delivers it for the first time. `RestInv`
says what the end of a request leaves: the mutex is held only by a request that
connects, is inside its transaction, between its two attempts or waiting for a silent
server, and the row of an operation is the one its
place in the handler allows (`RowAgrees`).

**The listings.** `Sound` says of a walk what its end needs. As long as a page that
was visited is not to be visited again (`Doomed`: then the listing is refused), every
child of a folder that was found, and of the root, is found already, or on a page
that is to be visited or comes after one (`WillFind`); a page shows the child whose
place it is (`ServedChild`), and each child has a place of its own (`PlaceInPages`,
`PlaceOfOne`). The odd links change nothing about it: those that are followed lead to
the next page, or to a first page that was visited (`LinkFollowed`). At the end no
page is left, so that what was found has the children of all it has
(`EndPagesKeeps`). `VisibleReached` concludes that it has all that is visible: the
folders that it misses would hold one another, which a tree excludes. For that step
`IsTree` and `Visible` are stated by sets of folders that are closed upwards, and not
by a recursion along the chain of parents. A listing that a move disturbs keeps what
it has found once (`InjectiveConcat`), and no more is claimed.

**The whole.** The parts of `MCDaemonParts` share no variable and a step of one leaves
the others' alone, so a behaviour of the whole is one of each part (`PartsAlone`);
`PartsTypeOK` follows from the parts' type theorems.

Every invariant and action property that a passing run checks is proved, of the
module it belongs to. Model-checked only: all liveness, `RecentMailConverges` of
`MailSync` included, which is beyond the prover together with fairness, and the runs
that expect a violation. Of the liveness properties the safety half is proved where
there is one: that a lock or mark is given back (`LockComesBack` of both modules,
`MarkGivenBack`, `TokenLockComesBack`, `SubmissionPoolComesBack`), that nobody waits in
a circle (`QueuesNeverLock`, `AvatarNeverStuck`), and that a recovery passes over
nothing (`RecoveryComplete`). These properties are stated in the proof modules and
no run checks them.

## 5. Not modelled

- Gmail over REST (`gmail.rs`): the factory sets Google accounts up over IMAP and
  SMTP, and nothing but the file's own tests makes a `GmailProvider`.
- Listing and reading messages of Microsoft accounts: the translation of JSON;
  no cursor is kept.
- MIME and HTML, full-text search, the content of agenda items: properties of
  bytes.
- What the discovery of online accounts over D-Bus finds, and Secret Service beyond
  what is stored and deleted.
- The frontend's store: generations of requests, optimistic edits, drafts, the
  offline queue, the `syncing` flag. The connection's frontend only shows
  revisions.
- IDLE, which the daemon never calls; purely local tasks; visual components.

Known hazards that no property covers, since the repository promises nothing
about them, are in `PROJECT.json` with the reason. Others were seen while
modelling and are left there as they are: a page refused because a message was
moved locally ends the pass (the next one goes on); a moved message is listed
under its old id and its new one until its mailbox is reconciled; the providers
are restored, and `auth_state` written, before the socket's lock is taken; a
draft that is saved again while it is being sent is deleted with it; hidden
well-known folders are in a provider's first listing only; passwords stored by an
`accounts.add` that fails later stay in Secret Service. A comment at
`imap_smtp.rs:634` says that a connection with a command in flight cannot be
reused, yet an aborted request leaves its session in the lane; the properties of
`ImapSession` hold in spite of it, at the price of `MistakeAnswer`.

## 6. Plan

Done, in the order of importance: `MailSync` with its proofs, `AgendaQueue`,
`RpcConnection`, `AccountLifecycle`; then `MailboxFeed` with the refinement,
`ImapSession`, `MailSubmission`, `GraphRequest`, `DaemonStart`, `AvatarFetch`,
`GraphFolders`, and proofs of the feed, the start, the downloads and the action;
then proofs of the agenda, the connection, the accounts, the IMAP session, the
submission and the listings; and of what a request leaves behind when it ends
(locks, marks, rows, queues).

To model: `FrontendStore` (requests by generation, optimistic edits and their
undoing, the `syncing` flag and late events, the offline queue), composed with
the promise of `RpcConnection`.
