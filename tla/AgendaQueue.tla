---------------------------- MODULE AgendaQueue ----------------------------
(***************************************************************************)
(* The durable queue of calendar and task mutations of remote accounts.    *)
(*                                                                         *)
(* A mutation of a task or an event takes the account_mutations lock,      *)
(* reads the cached item, writes a pending operation to SQLite, calls the  *)
(* provider, and commits the provider's answer together with the           *)
(* operation's completion.  agenda.sync and sync.start first recover the   *)
(* operations a failure or a restart left pending, then replace each       *)
(* account's cached items with the provider's.                             *)
(*                                                                         *)
(* A task and an event follow the same protocol; both are an "item" here.  *)
(* An item's content is two fields, its title (everything an update        *)
(* writes) and its done mark (all that task.complete means to change).     *)
(* A field's value is the number of the request that wrote it; 0 is the    *)
(* content it had at first.                                                *)
(***************************************************************************)
EXTENDS Integers, Sequences, FiniteSets

CONSTANTS
    Account,        \* remote accounts with calendar and task access
    Item,           \* remote items, those that may yet be created included
    Owner,          \* the account each item belongs to
    Outside,        \* events before or after the days a refresh asks for
    Client,         \* frontends: one serialized request worker each
    Broken,         \* accounts whose authorization never comes back
    RecoveryLimit,  \* MAX_RECOVERY_OPERATIONS
    MaxRequests,    \* bound: mutations requested
    MaxExternal,    \* bound: changes made by other programs
    MaxFaults       \* bound: failed calls, lost replies, crashes, disconnects

ASSUME AccountAssumption ==
    /\ Owner \in [Item -> Account]
    /\ Outside \subseteq Item
    /\ Broken \subseteq Account

ASSUME BoundAssumption ==
    /\ RecoveryLimit \in Nat \ {0}
    /\ MaxRequests \in Nat
    /\ MaxExternal \in Nat
    /\ MaxFaults \in Nat

Nobody == "nobody"

ASSUME ClientAssumption == Nobody \notin Client

VARIABLES
    remote,     \* the provider's items (external)
    fresh,      \* item ids the provider has not given out (external)
    cache,      \* tables tasks and events
    ops,        \* table operations, in rowid order
    lock,       \* account_mutations
    task,       \* what each client's worker is doing
    posts,      \* history: the items each create request made at the provider
    external,
    faults

vars == <<remote, fresh, cache, ops, lock, task, posts, external, faults>>
-----------------------------------------------------------------------------
Value == [live : BOOLEAN, title : Nat, done : Nat]

Absent == [live |-> FALSE, title |-> 0, done |-> 0]

Kind == {"create", "update", "complete", "delete"}

\* "recent": attempted within AGENDA_RETRY_BACKOFF_MS.  The item of a create is
\* not known before the provider names it; the field is not used then.
Op == [kind : Kind, account : Account, item : Item, title : Nat, done : Nat,
       state : {"pending", "succeeded", "failed"}, recent : BOOLEAN]

\* What the provider answered; "retry" is Temporary or Authentication.
Result == {"ok", "notfound", "retry", "reject"}

Done == [pc |-> "idle"]

\* The operation a client is executing, if any, is the one its worker calls,
\* and "recovering" tells a replay from a foreground mutation; "list" are the
\* operations a recovery has still to look at, the oldest first.
TaskState ==
    [pc : {"idle"}]
        \cup [pc : {"call"}, op : Nat, recovering : BOOLEAN,
              list : SUBSET Nat, blocked : SUBSET Account, scope : SUBSET Account]
        \cup [pc : {"answered"}, op : Nat, recovering : BOOLEAN,
              list : SUBSET Nat, blocked : SUBSET Account, scope : SUBSET Account,
              result : Result, item : Item, value : Value]
        \cup [pc : {"recover"}, list : SUBSET Nat, blocked : SUBSET Account,
              scope : SUBSET Account]
        \cup [pc : {"sync"}, scope : SUBSET Account]
        \cup [pc : {"page"}, scope : SUBSET Account, account : Account,
              items : [Item -> Value]]

TypeOK ==
    /\ remote \in [Item -> Value]
    /\ fresh \subseteq Item
    /\ cache \in [Item -> Value]
    /\ ops \in Seq(Op)
    /\ lock \in Client \cup {Nobody}
    /\ task \in [Client -> TaskState]
    /\ \A c \in Client :
         task[c].pc \in {"call", "answered", "recover"} =>
             /\ task[c].list \subseteq DOMAIN ops
             /\ task[c].blocked \subseteq task[c].scope
    /\ posts \in Seq(SUBSET Item)
    /\ Len(posts) = Len(ops)
    /\ external \in Nat
    /\ faults \in Nat

\* Some items exist and have been synchronised; the rest are to be created.
InitWith(existing) ==
    /\ remote = [i \in Item |-> [live |-> i \in existing, title |-> 0, done |-> 0]]
    /\ cache = remote
    /\ fresh = Item \ existing
    /\ ops = <<>>
    /\ lock = Nobody
    /\ task = [c \in Client |-> Done]
    /\ posts = <<>>
    /\ external = 0
    /\ faults = 0

Init == \E existing \in SUBSET Item : InitWith(existing)

-----------------------------------------------------------------------------
(* The provider's side of a call (external)                                *)

\* The body a call carries.  An update sends the queued payload; a completion
\* sends the cached item with the new mark.
Body(op) ==
    CASE op.kind = "complete" -> [live |-> TRUE, title |-> cache[op.item].title, done |-> op.done]
      [] op.kind = "delete" -> Absent
      [] OTHER -> [live |-> TRUE, title |-> op.title, done |-> op.done]

\* What a delivered call does to the item i, and what is answered.
Delivered(k, i, result) ==
    LET op == ops[k]
    IN  \/ /\ op.kind = "create"
           /\ i \in fresh /\ Owner[i] = op.account
           /\ remote' = [remote EXCEPT ![i] = Body(op)]
           /\ fresh' = fresh \ {i}
           /\ posts' = [posts EXCEPT ![k] = @ \cup {i}]
           /\ result = "ok"
        \/ /\ op.kind # "create"
           /\ i = op.item /\ remote[i].live
           /\ remote' = [remote EXCEPT ![i] = Body(op)]
           /\ result = "ok"
           /\ UNCHANGED <<fresh, posts>>
        \/ /\ op.kind # "create"
           /\ i = op.item /\ ~remote[i].live
           /\ result = "notfound"
           /\ UNCHANGED <<remote, fresh, posts>>

Undelivered(k, i) ==
    /\ i = ops[k].item
    /\ UNCHANGED <<remote, fresh, posts>>

Answered(c, i, result, value) ==
    task' = [task EXCEPT ![c] =
        [pc |-> "answered", op |-> @.op, recovering |-> @.recovering, list |-> @.list,
         blocked |-> @.blocked, scope |-> @.scope,
         result |-> result, item |-> i, value |-> value]]

\* One provider request: answered; delivered, with the answer lost or one that
\* cannot be used, too large or malformed; not delivered; or refused.
CallProvider(c) ==
    /\ task[c].pc = "call"
    /\ LET k == task[c].op
           broken == ops[k].account \in Broken
       IN  \/ /\ ~broken
              /\ \E i \in Item, result \in {"ok", "notfound"} :
                   /\ Delivered(k, i, result)
                   /\ Answered(c, i, result, Body(ops[k]))
              /\ UNCHANGED faults
           \/ /\ ~broken
              /\ faults < MaxFaults
              /\ faults' = faults + 1
              /\ \E i \in Item, result \in {"retry", "reject"} :
                   /\ Delivered(k, i, "ok")
                   /\ Answered(c, i, result, Absent)
           \/ /\ \E i \in Item, result \in {"retry", "reject"} :
                   /\ Undelivered(k, i)
                   /\ Answered(c, i, result, Absent)
                   /\ broken => result = "retry"
              /\ IF broken
                 THEN UNCHANGED faults
                 ELSE faults < MaxFaults /\ faults' = faults + 1
    /\ UNCHANGED <<cache, ops, lock, external>>

\* Another program edits or deletes an item.
EditElsewhere(i) ==
    /\ external < MaxExternal
    /\ remote[i].live
    /\ \/ remote' = [remote EXCEPT ![i].title = Len(ops) + 1]
       \/ remote' = [remote EXCEPT ![i] = Absent]
    /\ external' = external + 1
    /\ UNCHANGED <<fresh, cache, ops, lock, task, posts, faults>>

-----------------------------------------------------------------------------
(* Foreground mutations                                                    *)

Enqueue(c, op) ==
    /\ ops' = Append(ops, op)
    /\ posts' = Append(posts, {})
    /\ lock' = c
    /\ task' = [task EXCEPT ![c] =
         [pc |-> "call", op |-> Len(ops) + 1, recovering |-> FALSE,
          list |-> {}, blocked |-> {}, scope |-> {}]]
    /\ UNCHANGED <<remote, fresh, cache, external, faults>>

Ready(c) == task[c].pc = "idle" /\ lock = Nobody

NewOp(kind, i, title, done) ==
    [kind |-> kind, account |-> Owner[i], item |-> i, title |-> title, done |-> done,
     state |-> "pending", recent |-> FALSE]

\* task.create, calendar.create.  The item id is the provider's to choose.
RequestCreate(c, i) ==
    /\ Ready(c)
    /\ Len(ops) < MaxRequests
    /\ i \in fresh
    /\ Enqueue(c, NewOp("create", i, Len(ops) + 1, 0))

\* task.update, calendar.update: the payload is the whole edited item.
RequestUpdate(c, i) ==
    /\ Ready(c)
    /\ Len(ops) < MaxRequests
    /\ cache[i].live
    /\ Enqueue(c, NewOp("update", i, Len(ops) + 1, cache[i].done))

\* task.complete.
RequestComplete(c, i) ==
    /\ Ready(c)
    /\ Len(ops) < MaxRequests
    /\ cache[i].live
    /\ Enqueue(c, NewOp("complete", i, 0, Len(ops) + 1))

\* task.delete, calendar.delete.
RequestDelete(c, i) ==
    /\ Ready(c)
    /\ Len(ops) < MaxRequests
    /\ cache[i].live
    /\ Enqueue(c, NewOp("delete", i, 0, 0))

-----------------------------------------------------------------------------
(* The provider's answer is recorded                                       *)

\* Mutant of Accepted: whatever is gone at the provider counts as done.
AcceptedWhenGone(c) == task[c].result \in {"ok", "notfound"}

Accepted(c) ==
    \/ task[c].result = "ok"
    \/ task[c].result = "notfound" /\ ops[task[c].op].kind = "delete"

\* commit_agenda_*: the cached item and the operation in one transaction.
Commit(c) ==
    /\ cache' = [cache EXCEPT ![task[c].item] = task[c].value]
    /\ ops' = [ops EXCEPT ![task[c].op].state = "succeeded", ![task[c].op].recent = FALSE]

\* Only idempotent operations are kept for a retry.
Retryable(c) == task[c].result = "retry" /\ ops[task[c].op].kind # "create"

Defer(c) ==
    /\ ops' = [ops EXCEPT ![task[c].op].recent = TRUE]
    /\ UNCHANGED cache

Fail(c) ==
    /\ ops' = [ops EXCEPT ![task[c].op].state = "failed"]
    /\ UNCHANGED cache

Record(c) ==
    \/ Accepted(c) /\ Commit(c)
    \/ ~Accepted(c) /\ Retryable(c) /\ Defer(c)
    \/ ~Accepted(c) /\ ~Retryable(c) /\ Fail(c)

FinishRequest(c) ==
    /\ task[c].pc = "answered"
    /\ ~task[c].recovering
    /\ Record(c)
    /\ task' = [task EXCEPT ![c] = Done]
    /\ lock' = Nobody
    /\ UNCHANGED <<remote, fresh, posts, external, faults>>

\* Mutants of FinishReplay: the rest of the account's operations go on; every
\* account's operations wait for the next recovery.
FinishReplayUnblocked(c) ==
    /\ task[c].pc = "answered"
    /\ task[c].recovering
    /\ Record(c)
    /\ task' = [task EXCEPT ![c] =
         [pc |-> "recover", list |-> @.list, scope |-> @.scope, blocked |-> @.blocked]]
    /\ UNCHANGED <<remote, fresh, lock, posts, external, faults>>

FinishReplayGivesUp(c) ==
    /\ task[c].pc = "answered"
    /\ task[c].recovering
    /\ Record(c)
    /\ task' = [task EXCEPT ![c] =
         [pc |-> "recover", scope |-> @.scope, blocked |-> @.blocked,
          list |-> IF ~Accepted(c) /\ Retryable(c) THEN {} ELSE @.list]]
    /\ UNCHANGED <<remote, fresh, lock, posts, external, faults>>

FinishReplay(c) ==
    /\ task[c].pc = "answered"
    /\ task[c].recovering
    /\ Record(c)
    /\ task' = [task EXCEPT ![c] =
         [pc |-> "recover", list |-> @.list, scope |-> @.scope,
          blocked |-> IF ~Accepted(c) /\ Retryable(c)
                      THEN @.blocked \cup {ops[@.op].account} ELSE @.blocked]]
    /\ UNCHANGED <<remote, fresh, lock, posts, external, faults>>

-----------------------------------------------------------------------------
(* agenda.sync and sync.start                                              *)

Pending(scope) == {k \in DOMAIN ops : ops[k].state = "pending" /\ ops[k].account \in scope}

\* The first n of them in rowid order.
Prefix(s, n) == {k \in s : Cardinality({j \in s : j <= k}) <= n}

\* list_pending_agenda_operations, for one account or for all of them.
BeginRecovery(c, scope) ==
    /\ Ready(c)
    /\ lock' = c
    /\ task' = [task EXCEPT ![c] =
         [pc |-> "recover", list |-> Prefix(Pending(scope), RecoveryLimit),
          blocked |-> {}, scope |-> scope]]
    /\ UNCHANGED <<remote, fresh, cache, ops, posts, external, faults>>

Oldest(s) == CHOOSE k \in s : \A j \in s : k <= j

NextOp(c) == Oldest(task[c].list)

Advance(c, blocked) ==
    task' = [task EXCEPT ![c] =
        [pc |-> "recover", list |-> @.list \ {NextOp(c)}, blocked |-> blocked,
         scope |-> @.scope]]

\* An account with a deferred or recently attempted operation waits as a whole.
SkipBlocked(c) ==
    /\ task[c].pc = "recover" /\ task[c].list # {}
    /\ \/ ops[NextOp(c)].account \in task[c].blocked
       \/ ops[NextOp(c)].recent
    /\ Advance(c, task[c].blocked \cup {ops[NextOp(c)].account})
    /\ UNCHANGED <<remote, fresh, cache, ops, lock, posts, external, faults>>

Due(c) ==
    /\ task[c].pc = "recover" /\ task[c].list # {}
    /\ ops[NextOp(c)].account \notin task[c].blocked
    /\ ~ops[NextOp(c)].recent

\* What needs no provider call: an interrupted create is never replayed; a
\* completion of a row that is gone fails; a deletion of one has succeeded.
SettleLocally(c) ==
    /\ Due(c)
    /\ LET op == ops[NextOp(c)]
           missing == op.kind \in {"complete", "delete"} /\ ~cache[op.item].live
       IN  /\ op.kind = "create" \/ missing
           /\ ops' = [ops EXCEPT ![NextOp(c)].state =
                        IF op.kind = "delete" THEN "succeeded" ELSE "failed"]
    /\ Advance(c, task[c].blocked)
    /\ UNCHANGED <<remote, fresh, cache, lock, posts, external, faults>>

\* The account's provider cannot be set up, for want of an authorization.
Undiscovered(c) ==
    /\ Due(c)
    /\ ops[NextOp(c)].kind # "create"
    /\ ops' = [ops EXCEPT ![NextOp(c)].recent = TRUE]
    /\ Advance(c, task[c].blocked \cup {ops[NextOp(c)].account})
    /\ IF ops[NextOp(c)].account \in Broken
       THEN UNCHANGED faults
       ELSE faults < MaxFaults /\ faults' = faults + 1
    /\ UNCHANGED <<remote, fresh, cache, lock, posts, external>>

\* Mutant of Replay: an interrupted create is sent again.
ReplayCreates(c) ==
    /\ Due(c)
    /\ ops[NextOp(c)].kind \in {"create", "update"}
    /\ task' = [task EXCEPT ![c] =
         [pc |-> "call", op |-> NextOp(c), recovering |-> TRUE,
          list |-> @.list \ {NextOp(c)}, blocked |-> @.blocked, scope |-> @.scope]]
    /\ UNCHANGED <<remote, fresh, cache, ops, lock, posts, external, faults>>

Replay(c) ==
    /\ Due(c)
    /\ \/ ops[NextOp(c)].kind = "update"
       \/ ops[NextOp(c)].kind \in {"complete", "delete"} /\ cache[ops[NextOp(c)].item].live
    /\ task' = [task EXCEPT ![c] =
         [pc |-> "call", op |-> NextOp(c), recovering |-> TRUE,
          list |-> @.list \ {NextOp(c)}, blocked |-> @.blocked, scope |-> @.scope]]
    /\ UNCHANGED <<remote, fresh, cache, ops, lock, posts, external, faults>>

\* The lock is released between the recovery and each account's refresh.
EndRecovery(c) ==
    /\ task[c].pc = "recover" /\ task[c].list = {}
    /\ task' = [task EXCEPT ![c] = [pc |-> "sync", scope |-> @.scope]]
    /\ lock' = Nobody
    /\ UNCHANGED <<remote, fresh, cache, ops, posts, external, faults>>

\* What AgendaProvider::sync collects from the lists and calendars of a.
Held(a) == [i \in Item |-> IF Owner[i] = a THEN remote[i] ELSE Absent]

\* Mutant of FetchAgenda: the provider is read before the lock is taken.
FetchAgendaUnlocked(c) ==
    /\ task[c].pc = "sync"
    /\ \E a \in task[c].scope \ Broken :
         task' = [task EXCEPT ![c] =
             [pc |-> "page", scope |-> @.scope \ {a}, account |-> a,
              items |-> Held(a)]]
    /\ UNCHANGED <<remote, fresh, cache, ops, lock, posts, external, faults>>

\* AgendaProvider::sync under the lock; an account that fails is passed over.
FetchAgenda(c) ==
    /\ task[c].pc = "sync" /\ lock = Nobody
    /\ \E a \in task[c].scope :
         \/ /\ a \notin Broken
            /\ lock' = c
            /\ task' = [task EXCEPT ![c] =
                 [pc |-> "page", scope |-> @.scope \ {a}, account |-> a,
                  items |-> Held(a)]]
            /\ UNCHANGED faults
         \/ /\ task' = [task EXCEPT ![c].scope = @ \ {a}]
            /\ IF a \in Broken
               THEN UNCHANGED faults
               ELSE faults < MaxFaults /\ faults' = faults + 1
            /\ UNCHANGED lock
    /\ UNCHANGED <<remote, fresh, cache, ops, posts, external>>

\* replace_remote_agenda.  A cached event outside of the days asked for stays.
ReplaceAgenda(c) ==
    /\ task[c].pc = "page"
    /\ cache' = [i \in Item |-> IF Owner[i] = task[c].account /\ i \notin Outside
                                THEN task[c].items[i] ELSE cache[i]]
    /\ task' = [task EXCEPT ![c] = [pc |-> "sync", scope |-> @.scope]]
    /\ lock' = Nobody
    /\ UNCHANGED <<remote, fresh, ops, posts, external, faults>>

EndSync(c) ==
    /\ task[c].pc = "sync" /\ task[c].scope = {}
    /\ task' = [task EXCEPT ![c] = Done]
    /\ UNCHANGED <<remote, fresh, cache, ops, lock, posts, external, faults>>

-----------------------------------------------------------------------------
(* Time, disconnects and restarts                                          *)

\* The backoff of a deferred operation ends.
BackoffEnds(k) ==
    /\ ops[k].recent
    /\ ops' = [ops EXCEPT ![k].recent = FALSE]
    /\ UNCHANGED <<remote, fresh, cache, lock, task, posts, external, faults>>

\* The client's connection closes (its worker is aborted wherever it is, and
\* drops the lock), or the daemon restarts (every worker is).
Stop(clients) ==
    /\ faults < MaxFaults
    /\ faults' = faults + 1
    /\ task' = [c \in Client |-> IF c \in clients THEN Done ELSE task[c]]
    /\ lock' = IF lock \in clients THEN Nobody ELSE lock
    /\ UNCHANGED <<remote, fresh, cache, ops, posts, external>>

Abort(c) == task[c].pc # "idle" /\ Stop({c})

Crash == Stop(Client)

-----------------------------------------------------------------------------
Request(c) ==
    \E i \in Item : RequestCreate(c, i) \/ RequestUpdate(c, i)
                      \/ RequestComplete(c, i) \/ RequestDelete(c, i)

RequestSync(c) ==
    \/ BeginRecovery(c, Account)
    \/ \E a \in Account : BeginRecovery(c, {a})

Continue(c) ==
    \/ CallProvider(c) \/ FinishRequest(c) \/ FinishReplay(c)
    \/ SkipBlocked(c) \/ SettleLocally(c) \/ Undiscovered(c) \/ Replay(c)
    \/ EndRecovery(c) \/ FetchAgenda(c) \/ ReplaceAgenda(c) \/ EndSync(c)

Next ==
    \/ \E c \in Client : Request(c) \/ RequestSync(c) \/ Continue(c) \/ Abort(c)
    \/ \E i \in Item : EditElsewhere(i)
    \/ \E k \in DOMAIN ops : BackoffEnds(k)
    \/ Crash

Spec == Init /\ [][Next]_vars

\* The frontend's timer asks for every account again and again, a backoff ends,
\* and the runtime polls every worker.  A provider call ends, as its HTTP client
\* has deadlines; that Online Accounts answer when they are asked for its token is
\* assumed here (GraphRequest has what happens when they do not).  account_mutations is a tokio Mutex, which
\* is first-in-first-out: whoever waits for it gets it (strong fairness).
Fairness ==
    /\ \A c \in Client : SF_vars(Continue(c))
    /\ SF_vars(\E c \in Client : BeginRecovery(c, Account))
    /\ \A k \in 1..MaxRequests : WF_vars(k \in DOMAIN ops /\ BackoffEnds(k))

FairSpec == Spec /\ Fairness

-----------------------------------------------------------------------------
(* Properties                                                              *)

\* A create request makes at most one item at the provider, however it was
\* interrupted: neither Tasks API has an idempotency key, so it is not replayed.
NoDuplicateCreate ==
    \A k \in DOMAIN posts : Cardinality(posts[k]) <= 1

\* Recovery replays an account's operations in the order they were queued: it
\* calls the provider for one only when no older one of that account is pending.
RecoveryInOrder ==
    \A c \in Client :
        task[c].pc = "call" /\ task[c].recovering =>
            \A j \in DOMAIN ops :
                j < task[c].op /\ ops[j].account = ops[task[c].op].account =>
                    ops[j].state # "pending"

\* An item all of whose mutations are recorded as successful is cached exactly
\* as the provider holds it: data and completion commit atomically, and no
\* refresh read before a mutation is written after it.
SucceededMeansCached ==
    external = 0 /\ lock = Nobody =>
        \A i \in Item :
            (\A k \in DOMAIN ops :
                (ops[k].kind # "create" /\ ops[k].item = i) \/ i \in posts[k] =>
                    ops[k].state = "succeeded")
            => cache[i] = remote[i]

\* A deleted item does not come back into the cache: an item enters the cache
\* only while the provider holds it.
NoResurrection ==
    [][external = 0 =>
         \A i \in Item : ~cache[i].live /\ cache'[i].live => remote[i].live]_vars

\* Every operation is settled in the end, whichever other account keeps failing.
OperationsSettle ==
    \A k \in 1..MaxRequests :
        (k \in DOMAIN ops /\ ops[k].account \notin Broken)
            ~> (k \in DOMAIN ops /\ ops[k].state # "pending")

\* What docs/provider-support.md promises of a retry, account-scoped FIFO order:
\* no delivered operation changes an item after a newer operation of its account
\* has succeeded.
FifoPerAccount ==
    [][\A c \in Client :
         task[c].pc = "call" /\ task'[c].pc = "answered" /\ remote' # remote =>
             \A j \in DOMAIN ops :
                 j > task[c].op /\ ops[j].account = ops[task[c].op].account =>
                     ops[j].state # "succeeded"]_vars

=============================================================================
