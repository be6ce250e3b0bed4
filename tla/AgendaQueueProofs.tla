------------------------- MODULE AgendaQueueProofs -------------------------
(***************************************************************************)
(* Proofs about AgendaQueue, for any accounts, items, frontends and        *)
(* bounds: a create makes one item at most, recovery keeps the order of    *)
(* each account and passes over no operation, the cache shows what the     *)
(* provider holds, and the operation table forgets nothing.                *)
(***************************************************************************)
EXTENDS AgendaQueue, FiniteSetTheorems, WellFoundedInduction, TLAPS

USE AccountAssumption, ClientAssumption, BoundAssumption

-----------------------------------------------------------------------------
(* The inductive invariant                                                 *)

Calling == {"call", "answered"}

Replaying == Calling \cup {"recover"}

Holding == Replaying \cup {"page"}

\* A client between two steps under account_mutations is the one that holds it.
LockHeld == \A c \in Client : task[c].pc \in Holding => lock = c

\* An item that is not there has no content.
Content == {v \in Value : ~v.live => v = Absent}

\* The operations a recovery has still to look at are pending, of its accounts,
\* and with each of them come the older ones of its account, unless that account
\* is left out or the one in progress is the older one.
ListInOrder(c) ==
    /\ \A k \in task[c].list : ops[k].state = "pending" /\ ops[k].account \in task[c].scope
    /\ \A k \in task[c].list, j \in DOMAIN ops :
         j < k /\ ops[j].account = ops[k].account /\ ops[j].state = "pending" =>
            \/ j \in task[c].list
            \/ ops[k].account \in task[c].blocked
            \/ task[c].pc \in Calling /\ j = task[c].op

\* The operation in progress is pending, and when it is a replay it is the oldest
\* pending one of its account and no create.
InProgress(c) ==
    /\ task[c].op \in DOMAIN ops
    /\ ops[task[c].op].state = "pending"
    /\ task[c].op \notin task[c].list
    /\ task[c].recovering =>
         /\ ops[task[c].op].kind # "create"
         /\ ops[task[c].op].account \in task[c].scope
         /\ \A j \in DOMAIN ops :
              j < task[c].op /\ ops[j].account = ops[task[c].op].account =>
                  ops[j].state # "pending"

\* What an answer tells of the provider, as long as no other program interferes.
AnswerTrue(c) ==
    LET op == ops[task[c].op]
        i == task[c].item
    IN  /\ task[c].value \in Content
        /\ i \in Item
        /\ task[c].result = "ok" =>
             /\ op.kind = "create" => posts[task[c].op] = {i}
             /\ op.kind # "create" => i = op.item
             /\ external = 0 => remote[i] = task[c].value
             /\ ~task[c].value.live => ~remote[i].live /\ i \notin fresh
             /\ task[c].value.live => i \notin fresh
        /\ task[c].result = "notfound" =>
             /\ op.kind # "create" /\ i = op.item
             /\ ~remote[i].live
             /\ op.kind = "delete" => task[c].value = Absent

\* What a page tells of the provider.
PageTrue(c) ==
    /\ task[c].account \in Account
    /\ task[c].items \in [Item -> Content]
    /\ \A i \in Item : Owner[i] = task[c].account =>
         /\ task[c].items[i].live => i \notin fresh
         /\ ~task[c].items[i].live => ~remote[i].live
         /\ external = 0 => task[c].items[i] = remote[i]

ClientInv(c) ==
    /\ task[c].pc \in Replaying => ListInOrder(c)
    /\ task[c].pc \in Calling => InProgress(c)
    /\ task[c].pc = "call" => posts[task[c].op] = {}
    /\ task[c].pc = "answered" => AnswerTrue(c)
    /\ task[c].pc = "page" => PageTrue(c)

\* Only creates make items, one each.
PostsInv ==
    \A k \in DOMAIN ops :
        /\ ops[k].kind # "create" => posts[k] = {}
        /\ posts[k] = {} \/ \E i \in Item : posts[k] = {i}

\* An id that has not been given out is in nobody's hands; an item that an
\* operation is about and the cache has not got is not at the provider.
ItemsInv ==
    /\ remote \in [Item -> Content]
    /\ cache \in [Item -> Content]
    /\ \A i \in fresh : ~remote[i].live /\ ~cache[i].live
    /\ \A k \in DOMAIN ops : ops[k].kind # "create" =>
         /\ ops[k].item \notin fresh
         /\ ~cache[ops[k].item].live => ~remote[ops[k].item].live

Touches(k, i) == (ops[k].kind # "create" /\ ops[k].item = i) \/ i \in posts[k]

Clean(i) == \A k \in DOMAIN ops : Touches(k, i) => ops[k].state = "succeeded"

CacheInv == external = 0 => \A i \in Item : Clean(i) => cache[i] = remote[i]

QueueInv ==
    /\ TypeOK
    /\ LockHeld
    /\ \A c \in Client : ClientInv(c)
    /\ PostsInv
    /\ ItemsInv
    /\ CacheInv

-----------------------------------------------------------------------------
(* Sets of rowids                                                          *)

Less == {ss \in Nat \X Nat : ss[1] < ss[2]}

LEMMA LessWellFounded == IsWellFoundedOn(Less, Nat)
  BY NatLessThanWellFounded DEF OpToRel, Less

\* The recovery reads its operations by rowid: the next one is below the rest.
LEMMA OldestIsLeast ==
  ASSUME NEW s \in SUBSET Nat, s # {}
  PROVE  /\ Oldest(s) \in s
         /\ \A j \in s : Oldest(s) <= j
  <1>1. PICK k \in s : \A j \in s : ~ (<<j, k>> \in Less)
    BY LessWellFounded, WFMin
  <1>2. ASSUME NEW j \in s, j < k
        PROVE  FALSE
    <2>1. <<j, k>> \in Nat \X Nat
      BY DEF Less
    <2>2. <<j, k>> \in Less
      BY <2>1, <1>2 DEF Less
    <2> QED
      BY <1>1, <2>2
  <1>3. \A j \in s : k <= j
    BY <1>2
  <1> QED
    BY <1>3 DEF Oldest

\* The LIMIT of the query cuts off the newest operations.
LEMMA PrefixClosed ==
  ASSUME NEW s \in SUBSET Nat, IsFiniteSet(s), NEW n \in Nat,
         NEW k \in Prefix(s, n), NEW j \in s, j <= k
  PROVE  j \in Prefix(s, n)
  <1> DEFINE upTo(m) == {i \in s : i <= m}
  <1>0. k \in Nat /\ j \in Nat /\ k \in s
    BY DEF Prefix
  <1>1a. upTo(j) \subseteq upTo(k)
    <2>1. \A i \in s : i <= j => i <= k
      BY <1>0
    <2> QED
      BY <2>1
  <1>1b. upTo(k) \subseteq s
    OBVIOUS
  <1>1. IsFiniteSet(upTo(k)) /\ upTo(j) \subseteq upTo(k)
    BY <1>1a, <1>1b, FS_Subset
  <1>2. Cardinality(upTo(j)) <= Cardinality(upTo(k)) /\ IsFiniteSet(upTo(j))
    BY <1>1, FS_Subset
  <1>3. Cardinality(upTo(j)) \in Nat /\ Cardinality(upTo(k)) \in Nat
    BY <1>1, <1>2, FS_CardinalityType
  <1>4. Cardinality(upTo(k)) <= n
    BY DEF Prefix
  <1>5. Cardinality(upTo(j)) <= n
    BY <1>2, <1>3, <1>4
  <1> QED
    BY <1>5 DEF Prefix

-----------------------------------------------------------------------------
(* Rows of the table operations                                            *)

\* What a row says of its mutation never changes.
RowsKept ==
    /\ DOMAIN ops' = DOMAIN ops
    /\ \A k \in DOMAIN ops :
         /\ ops'[k].kind = ops[k].kind
         /\ ops'[k].account = ops[k].account
         /\ ops'[k].item = ops[k].item

Kept == RowsKept /\ \A k \in DOMAIN ops : ops'[k].state = ops[k].state

Settled(k, state) ==
    /\ RowsKept
    /\ \A j \in DOMAIN ops : ops'[j].state = IF j = k THEN state ELSE ops[j].state

LEMMA RowTyped ==
  ASSUME TypeOK, NEW k \in DOMAIN ops
  PROVE  /\ ops[k] \in Op
         /\ ops[k].kind \in Kind
         /\ ops[k].account \in Account
         /\ ops[k].item \in Item
         /\ ops[k].title \in Nat
         /\ ops[k].done \in Nat
         /\ ops[k].state \in {"pending", "succeeded", "failed"}
         /\ ops[k].recent \in BOOLEAN
         /\ k \in 1..Len(ops)
         /\ k \in DOMAIN posts
         /\ posts[k] \in SUBSET Item
  <1>1. ops \in Seq(Op) /\ posts \in Seq(SUBSET Item) /\ Len(posts) = Len(ops)
    BY DEF TypeOK
  <1>2. ops[k] \in Op /\ k \in 1..Len(ops)
    BY <1>1
  <1>3. k \in DOMAIN posts /\ posts[k] \in SUBSET Item
    BY <1>1, <1>2
  <1> QED
    BY <1>2, <1>3 DEF Op

\* A row is replaced by one that is about the same mutation.
LEMMA OneRow ==
  ASSUME TypeOK, NEW k \in DOMAIN ops, NEW row \in Op,
         row.kind = ops[k].kind, row.account = ops[k].account, row.item = ops[k].item,
         ops' = [ops EXCEPT ![k] = row]
  PROVE  /\ ops' \in Seq(Op) /\ RowsKept /\ Len(ops') = Len(ops)
         /\ \A j \in DOMAIN ops : ops'[j] = IF j = k THEN row ELSE ops[j]
  <1>1. ops \in Seq(Op) /\ k \in 1..Len(ops)
    BY RowTyped DEF TypeOK
  <1>2. ops' \in Seq(Op) /\ DOMAIN ops' = DOMAIN ops /\ Len(ops') = Len(ops)
    BY <1>1
  <1>3. \A j \in DOMAIN ops : ops'[j] = IF j = k THEN row ELSE ops[j]
    BY <1>1
  <1> QED
    BY <1>2, <1>3 DEF RowsKept

LEMMA SetRecent ==
  ASSUME TypeOK, NEW k \in DOMAIN ops, NEW b \in BOOLEAN,
         ops' = [ops EXCEPT ![k].recent = b]
  PROVE  ops' \in Seq(Op) /\ Kept /\ Len(ops') = Len(ops)
  <1> DEFINE row == [ops[k] EXCEPT !.recent = b]
  <1>1. row \in Op
    BY RowTyped DEF Op
  <1>2. /\ row.kind = ops[k].kind /\ row.account = ops[k].account
        /\ row.item = ops[k].item /\ row.state = ops[k].state
    BY RowTyped DEF Op
  <1>3. ops' = [ops EXCEPT ![k] = row]
    BY DEF TypeOK
  <1> HIDE DEF row
  <1>4. /\ ops' \in Seq(Op) /\ RowsKept /\ Len(ops') = Len(ops)
        /\ \A j \in DOMAIN ops : ops'[j] = IF j = k THEN row ELSE ops[j]
    BY <1>1, <1>2, <1>3, OneRow
  <1> QED
    BY <1>2, <1>4 DEF Kept

LEMMA SetState ==
  ASSUME TypeOK, NEW k \in DOMAIN ops, NEW state \in {"succeeded", "failed"},
         ops' = [ops EXCEPT ![k].state = state]
  PROVE  ops' \in Seq(Op) /\ Settled(k, state) /\ Len(ops') = Len(ops)
  <1> DEFINE row == [ops[k] EXCEPT !.state = state]
  <1>1. row \in Op
    BY RowTyped DEF Op
  <1>2. /\ row.kind = ops[k].kind /\ row.account = ops[k].account
        /\ row.item = ops[k].item /\ row.state = state
    BY RowTyped DEF Op
  <1>3. ops' = [ops EXCEPT ![k] = row]
    BY DEF TypeOK
  <1> HIDE DEF row
  <1>4. /\ ops' \in Seq(Op) /\ RowsKept /\ Len(ops') = Len(ops)
        /\ \A j \in DOMAIN ops : ops'[j] = IF j = k THEN row ELSE ops[j]
    BY <1>1, <1>2, <1>3, OneRow
  <1> QED
    BY <1>2, <1>4 DEF Settled

LEMMA SetSucceeded ==
  ASSUME TypeOK, NEW k \in DOMAIN ops,
         ops' = [ops EXCEPT ![k].state = "succeeded", ![k].recent = FALSE]
  PROVE  ops' \in Seq(Op) /\ Settled(k, "succeeded") /\ Len(ops') = Len(ops)
  <1> DEFINE row == [ops[k] EXCEPT !.state = "succeeded", !.recent = FALSE]
  <1>1. row \in Op
    BY RowTyped DEF Op
  <1>2. /\ row.kind = ops[k].kind /\ row.account = ops[k].account
        /\ row.item = ops[k].item /\ row.state = "succeeded"
    BY RowTyped DEF Op
  <1>3. ops' = [ops EXCEPT ![k] = row]
    BY DEF TypeOK
  <1> HIDE DEF row
  <1>4. /\ ops' \in Seq(Op) /\ RowsKept /\ Len(ops') = Len(ops)
        /\ \A j \in DOMAIN ops : ops'[j] = IF j = k THEN row ELSE ops[j]
    BY <1>1, <1>2, <1>3, OneRow
  <1> QED
    BY <1>2, <1>4 DEF Settled

-----------------------------------------------------------------------------
(* What the clients' workers are doing                                     *)

LEMMA TaskTyped ==
  ASSUME TypeOK, NEW c \in Client
  PROVE  /\ task[c].pc \in {"idle", "sync"} \cup Holding
         /\ task[c].pc \in Replaying =>
              /\ task[c].list \in SUBSET DOMAIN ops
              /\ task[c].blocked \in SUBSET task[c].scope
              /\ task[c].scope \in SUBSET Account
         /\ task[c].pc \in Calling =>
              task[c].op \in Nat /\ task[c].recovering \in BOOLEAN
         /\ task[c].pc = "answered" =>
              /\ task[c].result \in Result
              /\ task[c].item \in Item
              /\ task[c].value \in Value
         /\ task[c].pc \in {"sync", "page"} => task[c].scope \in SUBSET Account
         /\ task[c].pc = "page" =>
              task[c].account \in Account /\ task[c].items \in [Item -> Value]
  <1>1. task[c] \in TaskState
    BY DEF TypeOK
  <1>2. task[c].pc \in {"idle", "sync"} \cup Holding
    BY <1>1 DEF TaskState, Holding, Replaying, Calling
  <1>3. ASSUME task[c].pc \in Replaying
        PROVE  /\ task[c].list \in SUBSET DOMAIN ops
               /\ task[c].blocked \in SUBSET task[c].scope
               /\ task[c].scope \in SUBSET Account
    BY <1>1, <1>3 DEF TaskState, Replaying, Calling, TypeOK
  <1>4. ASSUME task[c].pc \in Calling
        PROVE  task[c].op \in Nat /\ task[c].recovering \in BOOLEAN
    BY <1>1, <1>4 DEF TaskState, Calling
  <1>5. ASSUME task[c].pc = "answered"
        PROVE  /\ task[c].result \in Result
               /\ task[c].item \in Item
               /\ task[c].value \in Value
    BY <1>1, <1>5 DEF TaskState
  <1>6. ASSUME task[c].pc \in {"sync", "page"}
        PROVE  task[c].scope \in SUBSET Account
    BY <1>1, <1>6 DEF TaskState
  <1>7. ASSUME task[c].pc = "page"
        PROVE  task[c].account \in Account /\ task[c].items \in [Item -> Value]
    BY <1>1, <1>7 DEF TaskState
  <1> QED
    BY <1>2, <1>3, <1>4, <1>5, <1>6, <1>7

\* One worker moves on; the rest of the state keeps its types.
LEMMA TypeKept ==
  ASSUME TypeOK, NEW c \in Client, NEW t \in TaskState,
         task' = [task EXCEPT ![c] = t],
         t.pc \in Replaying => t.list \subseteq DOMAIN ops' /\ t.blocked \subseteq t.scope,
         ops' \in Seq(Op), DOMAIN ops \subseteq DOMAIN ops',
         posts' \in Seq(SUBSET Item), Len(posts') = Len(ops'),
         remote' \in [Item -> Value], cache' \in [Item -> Value], fresh' \subseteq Item,
         lock' \in {lock, c, Nobody}, external' = external, faults' \in Nat
  PROVE  /\ TypeOK'
         /\ task'[c] = t
         /\ \A d \in Client \ {c} : task'[d] = task[d]
  <1>1. /\ task' \in [Client -> TaskState]
        /\ task'[c] = t
        /\ \A d \in Client \ {c} : task'[d] = task[d]
    BY DEF TypeOK
  <1>2. ASSUME NEW d \in Client, task'[d].pc \in {"call", "answered", "recover"}
        PROVE  /\ task'[d].list \subseteq DOMAIN ops'
               /\ task'[d].blocked \subseteq task'[d].scope
    <2>1. CASE d = c
      BY <2>1, <1>1, <1>2 DEF Replaying, Calling
    <2>2. CASE d # c
      BY <2>2, <1>1, <1>2 DEF TypeOK
    <2> QED
      BY <2>1, <2>2
  <1>3. external' \in Nat /\ lock' \in Client \cup {Nobody}
    BY DEF TypeOK
  <1> QED
    BY <1>1, <1>2, <1>3 DEF TypeOK

\* account_mutations: while one client holds it, the others hold nothing that
\* its step could falsify.
LEMMA OthersWait ==
  ASSUME LockHeld, NEW c \in Client, lock \in {c, Nobody},
         \A d \in Client \ {c} : task'[d] = task[d],
         task'[c].pc \in Holding => lock' = c,
         ClientInv(c)'
  PROVE  LockHeld' /\ \A d \in Client : ClientInv(d)'
  <1>1. ASSUME NEW d \in Client, d # c
        PROVE  task'[d].pc \notin Holding
    BY <1>1 DEF LockHeld
  <1>2. LockHeld'
    BY <1>1 DEF LockHeld
  <1>3. ASSUME NEW d \in Client
        PROVE  ClientInv(d)'
    <2>1. CASE d = c
      BY <2>1
    <2>2. CASE d # c
      BY <2>2, <1>1 DEF ClientInv, Holding, Replaying, Calling
    <2> QED
      BY <2>1, <2>2
  <1> QED
    BY <1>2, <1>3

\* A step of somebody else that leaves the rows and the provider as they are.
LEMMA ClientSame ==
  ASSUME NEW c \in Client, TypeOK, ClientInv(c), task'[c] = task[c], Kept,
         UNCHANGED <<remote, fresh, posts, external>>
  PROVE  ClientInv(c)'
  <1>1. ASSUME task[c].pc \in Replaying
        PROVE  ListInOrder(c)'
    <2>1. task[c].list \in SUBSET DOMAIN ops
      BY <1>1, TaskTyped
    <2>2. ListInOrder(c)
      BY <1>1 DEF ClientInv
    <2> QED
      BY <2>1, <2>2 DEF ListInOrder, Kept, RowsKept
  <1>2. ASSUME task[c].pc \in Calling
        PROVE  InProgress(c)' /\ task[c].op \in DOMAIN ops
    BY <1>2 DEF ClientInv, InProgress, Kept, RowsKept
  <1>3. ASSUME task[c].pc = "answered"
        PROVE  AnswerTrue(c)'
    <2>1. task[c].op \in DOMAIN ops /\ AnswerTrue(c)
      BY <1>2, <1>3 DEF Calling, ClientInv
    <2> QED
      BY <2>1 DEF AnswerTrue, Kept, RowsKept
  <1>4. ASSUME task[c].pc = "page"
        PROVE  PageTrue(c)'
    BY <1>4 DEF ClientInv, PageTrue
  <1> QED
    BY <1>1, <1>2, <1>3, <1>4 DEF ClientInv

\* The ledger stays as it is when no row is settled and no item changes.
LEMMA LedgerSame ==
  ASSUME TypeOK, PostsInv, ItemsInv, CacheInv, Kept,
         UNCHANGED <<remote, fresh, cache, posts, external>>
  PROVE  PostsInv' /\ ItemsInv' /\ CacheInv'
  <1>1. PostsInv'
    BY DEF PostsInv, Kept, RowsKept
  <1>2. ItemsInv'
    BY DEF ItemsInv, Kept, RowsKept
  <1>3. \A i \in Item : Clean(i)' => Clean(i)
    BY DEF Clean, Touches, Kept, RowsKept
  <1>4. CacheInv'
    BY <1>3 DEF CacheInv
  <1> QED
    BY <1>1, <1>2, <1>4

LEMMA OpsSame ==
  ASSUME ops' = ops
  PROVE  Kept
  BY DEF Kept, RowsKept

-----------------------------------------------------------------------------
(* Foreground mutations                                                    *)

LEMMA EnqueueInv ==
  ASSUME QueueInv, NEW c \in Client, NEW i \in Item, NEW kind \in Kind,
         NEW title \in Nat, NEW done \in Nat,
         kind # "create" => cache[i].live,
         Ready(c), Enqueue(c, NewOp(kind, i, title, done))
  PROVE  QueueInv'
  <1> DEFINE op == NewOp(kind, i, title, done)
             n == Len(ops) + 1
             t == [pc |-> "call", op |-> n, recovering |-> FALSE,
                   list |-> {}, blocked |-> {}, scope |-> {}]
  <1>1. ops \in Seq(Op) /\ posts \in Seq(SUBSET Item) /\ Len(posts) = Len(ops)
    BY DEF QueueInv, TypeOK
  <1>2. /\ op \in Op /\ op.kind = kind /\ op.item = i /\ op.state = "pending"
    BY AccountAssumption DEF NewOp, Op
  <1> HIDE DEF op
  <1>3. /\ ops' = Append(ops, op) /\ posts' = Append(posts, {}) /\ lock' = c
        /\ task' = [task EXCEPT ![c] = t]
        /\ UNCHANGED <<remote, fresh, cache, external, faults>>
    BY DEF Enqueue, op
  <1>4. /\ ops' \in Seq(Op) /\ Len(ops') = n /\ DOMAIN ops' = DOMAIN ops \cup {n}
        /\ n \notin DOMAIN ops /\ n \in Nat
    BY <1>1, <1>2, <1>3
  <1>5. (\A k \in DOMAIN ops : ops'[k] = ops[k]) /\ ops'[n] = op
    BY <1>1, <1>2, <1>3
  <1>6. /\ posts' \in Seq(SUBSET Item) /\ Len(posts') = n
        /\ \A k \in DOMAIN ops : posts'[k] = posts[k]
        /\ posts'[n] = {}
    BY <1>1, <1>3
  <1>7. t \in TaskState
    BY <1>4 DEF TaskState
  <1>8. /\ TypeOK'
        /\ task'[c] = t
        /\ \A d \in Client \ {c} : task'[d] = task[d]
    <2>1. faults \in Nat /\ remote \in [Item -> Value] /\ cache \in [Item -> Value] /\ fresh \subseteq Item
      BY DEF QueueInv, TypeOK
    <2> HIDE DEF n
    <2> QED
      BY <1>3, <1>4, <1>6, <1>7, <2>1, TypeKept DEF QueueInv
  <1>9. ClientInv(c)'
    <2>1. ListInOrder(c)'
      BY <1>8 DEF ListInOrder
    <2>2. InProgress(c)'
      BY <1>2, <1>4, <1>5, <1>8 DEF InProgress
    <2> QED
      BY <2>1, <2>2, <1>6, <1>8 DEF ClientInv
  <1>10. LockHeld' /\ \A d \in Client : ClientInv(d)'
    BY <1>3, <1>8, <1>9, OthersWait DEF QueueInv, Ready
  <1>11. PostsInv'
    BY <1>4, <1>5, <1>6 DEF QueueInv, PostsInv
  <1>12. ItemsInv'
    <2>1. ASSUME NEW k \in DOMAIN ops', ops'[k].kind # "create"
          PROVE  /\ ops'[k].item \notin fresh
                 /\ ~cache[ops'[k].item].live => ~remote[ops'[k].item].live
      <3>1. CASE k \in DOMAIN ops
        BY <2>1, <3>1, <1>5 DEF QueueInv, ItemsInv
      <3>2. CASE k = n
        BY <2>1, <3>2, <1>2, <1>5 DEF QueueInv, ItemsInv
      <3> QED
        BY <3>1, <3>2, <1>4
    <2> QED
      BY <2>1, <1>3 DEF QueueInv, ItemsInv
  <1>13. CacheInv'
    <2>1. \A j \in Item : Clean(j)' => Clean(j)
      BY <1>4, <1>5, <1>6 DEF Clean, Touches
    <2> QED
      BY <2>1, <1>3 DEF QueueInv, CacheInv
  <1> QED
    BY <1>8, <1>10, <1>11, <1>12, <1>13 DEF QueueInv

LEMMA RequestInv ==
  ASSUME QueueInv, NEW c \in Client, Request(c)
  PROVE  QueueInv'
  <1>1. PICK i \in Item : RequestCreate(c, i) \/ RequestUpdate(c, i)
                            \/ RequestComplete(c, i) \/ RequestDelete(c, i)
    BY DEF Request
  <1>2. Len(ops) + 1 \in Nat /\ cache[i].done \in Nat
    BY DEF QueueInv, TypeOK, Value
  <1>3. CASE RequestCreate(c, i)
    BY <1>2, <1>3, EnqueueInv DEF RequestCreate, Kind
  <1>4. CASE RequestUpdate(c, i)
    BY <1>2, <1>4, EnqueueInv DEF RequestUpdate, Kind
  <1>5. CASE RequestComplete(c, i)
    BY <1>2, <1>5, EnqueueInv DEF RequestComplete, Kind
  <1>6. CASE RequestDelete(c, i)
    BY <1>2, <1>6, EnqueueInv DEF RequestDelete, Kind
  <1> QED
    BY <1>1, <1>3, <1>4, <1>5, <1>6

-----------------------------------------------------------------------------
(* The provider is called                                                  *)

LEMMA BodyTyped ==
  ASSUME QueueInv, NEW k \in DOMAIN ops
  PROVE  /\ Body(ops[k]) \in Content
         /\ Body(ops[k]).live <=> ops[k].kind # "delete"
         /\ ops[k].kind = "delete" => Body(ops[k]) = Absent
  <1>1. /\ ops[k].title \in Nat /\ ops[k].done \in Nat /\ ops[k].item \in Item
        /\ ops[k].kind \in Kind
    BY RowTyped DEF QueueInv
  <1>2. cache[ops[k].item].title \in Nat
    BY <1>1 DEF QueueInv, TypeOK, Value
  <1> QED
    BY <1>1, <1>2 DEF Body, Content, Value, Absent, Kind

\* What the provider does with a call keeps the ledger: the operation is still
\* pending, so nothing is claimed of the item it changes.
LEMMA DeliveredInv ==
  ASSUME QueueInv, NEW k \in DOMAIN ops, ops[k].state = "pending", posts[k] = {},
         NEW i \in Item, NEW result \in Result, Delivered(k, i, result),
         UNCHANGED <<cache, ops, external>>
  PROVE  /\ remote' \in [Item -> Value] /\ fresh' \subseteq Item
         /\ posts' \in Seq(SUBSET Item) /\ Len(posts') = Len(ops)
         /\ PostsInv' /\ ItemsInv' /\ CacheInv'
         /\ i \notin fresh'
         /\ result \in {"ok", "notfound"}
         /\ result = "ok" =>
              /\ ops[k].kind = "create" => posts'[k] = {i}
              /\ ops[k].kind # "create" => i = ops[k].item
              /\ remote'[i] = Body(ops[k])
         /\ result = "notfound" =>
              ops[k].kind # "create" /\ i = ops[k].item /\ ~remote'[i].live
  <1>1. /\ Body(ops[k]) \in Content
        /\ Body(ops[k]).live <=> ops[k].kind # "delete"
    BY BodyTyped
  <1>2. /\ posts \in Seq(SUBSET Item) /\ Len(posts) = Len(ops) /\ ops \in Seq(Op)
        /\ remote \in [Item -> Content] /\ fresh \subseteq Item
    BY DEF QueueInv, TypeOK, ItemsInv
  <1>3. \A v \in Content : v \in Value
    BY DEF Content
  <1>4. k \in DOMAIN posts /\ DOMAIN posts = DOMAIN ops
    BY <1>2
  <1>5. CASE /\ ops[k].kind = "create"
             /\ i \in fresh /\ Owner[i] = ops[k].account
             /\ remote' = [remote EXCEPT ![i] = Body(ops[k])]
             /\ fresh' = fresh \ {i}
             /\ posts' = [posts EXCEPT ![k] = @ \cup {i}]
             /\ result = "ok"
    <2>1. /\ remote' \in [Item -> Content] /\ remote'[i] = Body(ops[k])
          /\ \A j \in Item : j # i => remote'[j] = remote[j]
      BY <1>1, <1>2, <1>5
    <2>2. posts' = [posts EXCEPT ![k] = {i}]
      BY <1>5
    <2>3. /\ posts' \in Seq(SUBSET Item) /\ Len(posts') = Len(ops) /\ posts'[k] = {i}
          /\ \A j \in DOMAIN ops : j # k => posts'[j] = posts[j]
      BY <2>2, <1>2, <1>4
    <2>4. PostsInv'
      BY <2>3, <1>5 DEF QueueInv, PostsInv
    <2>5. ItemsInv'
      BY <2>1, <1>5, <1>1 DEF QueueInv, ItemsInv
    <2>6. ASSUME NEW j \in Item, Clean(j)'
          PROVE  Clean(j) /\ j # i
      BY <2>3, <2>6, <1>5 DEF Clean, Touches
    <2>7. CacheInv'
      BY <2>1, <2>6 DEF QueueInv, CacheInv
    <2> QED
      BY <2>1, <2>3, <2>4, <2>5, <2>7, <1>2, <1>3, <1>5
  <1>6. CASE /\ ops[k].kind # "create"
             /\ i = ops[k].item /\ remote[i].live
             /\ remote' = [remote EXCEPT ![i] = Body(ops[k])]
             /\ result = "ok"
             /\ UNCHANGED <<fresh, posts>>
    <2>1. /\ remote' \in [Item -> Content] /\ remote'[i] = Body(ops[k])
          /\ \A j \in Item : j # i => remote'[j] = remote[j]
      BY <1>1, <1>2, <1>6
    <2>2. i \notin fresh /\ cache[i].live
      BY <1>6 DEF QueueInv, ItemsInv
    <2>3. PostsInv'
      BY <1>6 DEF QueueInv, PostsInv
    <2>4. ItemsInv'
      BY <2>1, <2>2, <1>6, <1>1 DEF QueueInv, ItemsInv
    <2>5. ASSUME NEW j \in Item, Clean(j)'
          PROVE  Clean(j) /\ j # i
      BY <2>5, <1>6 DEF Clean, Touches
    <2>6. CacheInv'
      BY <2>1, <2>5 DEF QueueInv, CacheInv
    <2> QED
      BY <2>1, <2>2, <2>3, <2>4, <2>6, <1>2, <1>3, <1>6
  <1>7. CASE /\ ops[k].kind # "create"
             /\ i = ops[k].item /\ ~remote[i].live
             /\ result = "notfound"
             /\ UNCHANGED <<remote, fresh, posts>>
    <2>1. PostsInv' /\ ItemsInv' /\ CacheInv'
      BY <1>7, LedgerSame, OpsSame DEF QueueInv
    <2>2. i \notin fresh
      BY <1>7 DEF QueueInv, ItemsInv
    <2> QED
      BY <2>1, <2>2, <1>2, <1>3, <1>7
  <1> QED
    BY <1>5, <1>6, <1>7 DEF Delivered

\* The answer is on its way to the worker that called.
LEMMA AnsweredInv ==
  ASSUME QueueInv, NEW c \in Client, task[c].pc = "call",
         NEW i \in Item, NEW result \in Result, NEW value \in Content,
         Answered(c, i, result, value),
         UNCHANGED <<cache, ops, lock, external>>, faults' \in Nat,
         remote' \in [Item -> Value], fresh' \subseteq Item,
         posts' \in Seq(SUBSET Item), Len(posts') = Len(ops),
         PostsInv', ItemsInv', CacheInv',
         result = "ok" =>
           /\ ops[task[c].op].kind = "create" => posts'[task[c].op] = {i}
           /\ ops[task[c].op].kind # "create" => i = ops[task[c].op].item
           /\ remote'[i] = value
           /\ i \notin fresh',
         result = "notfound" =>
           /\ ops[task[c].op].kind # "create" /\ i = ops[task[c].op].item
           /\ ~remote'[i].live
           /\ ops[task[c].op].kind = "delete" => value = Absent
  PROVE  QueueInv'
  <1> DEFINE t == [pc |-> "answered", op |-> task[c].op, recovering |-> task[c].recovering,
                   list |-> task[c].list, blocked |-> task[c].blocked,
                   scope |-> task[c].scope, result |-> result, item |-> i, value |-> value]
  <1>1. /\ task[c].pc \in Calling /\ task[c].pc \in Replaying /\ task[c].pc \in Holding
        /\ value \in Value
    BY DEF Calling, Replaying, Holding, Content
  <1>2. /\ task[c].list \in SUBSET DOMAIN ops
        /\ task[c].blocked \in SUBSET task[c].scope /\ task[c].scope \in SUBSET Account
        /\ task[c].op \in Nat /\ task[c].recovering \in BOOLEAN
        /\ ops \in Seq(Op)
    BY <1>1, TaskTyped DEF QueueInv, TypeOK
  <1>3. t \in TaskState
    BY <1>1, <1>2 DEF TaskState
  <1>4. task' = [task EXCEPT ![c] = t]
    BY DEF Answered, QueueInv, TypeOK
  <1>5. /\ TypeOK'
        /\ task'[c] = t
        /\ \A d \in Client \ {c} : task'[d] = task[d]
    <2>1. /\ t.list = task[c].list /\ t.blocked = task[c].blocked /\ t.scope = task[c].scope
          /\ cache' \in [Item -> Value] /\ ops' \in Seq(Op) /\ Len(posts') = Len(ops')
          /\ DOMAIN ops \subseteq DOMAIN ops'
      BY <1>2 DEF QueueInv, TypeOK
    <2> HIDE DEF t
    <2> QED
      BY <1>2, <1>3, <1>4, <2>1, TypeKept DEF QueueInv
  <1>6. ListInOrder(c) /\ InProgress(c)
    BY <1>1 DEF QueueInv, ClientInv
  <1>7. ClientInv(c)'
    <2>1. ListInOrder(c)'
      BY <1>1, <1>5, <1>6 DEF ListInOrder, Calling
    <2>2. InProgress(c)'
      BY <1>5, <1>6 DEF InProgress
    <2>3. AnswerTrue(c)'
      BY <1>5 DEF AnswerTrue
    <2> QED
      BY <1>5, <2>1, <2>2, <2>3 DEF ClientInv
  <1>8. lock = c /\ lock' = c
    BY <1>1 DEF QueueInv, LockHeld
  <1>9. LockHeld' /\ \A d \in Client : ClientInv(d)'
    BY <1>5, <1>7, <1>8, OthersWait DEF QueueInv
  <1> QED
    BY <1>5, <1>9 DEF QueueInv

LEMMA CallProviderInv ==
  ASSUME QueueInv, NEW c \in Client, CallProvider(c)
  PROVE  QueueInv'
  <1> DEFINE k == task[c].op
             broken == ops[k].account \in Broken
  <1>1. /\ task[c].pc = "call" /\ k \in DOMAIN ops
        /\ ops[k].state = "pending" /\ posts[k] = {}
        /\ UNCHANGED <<cache, ops, lock, external>>
    BY DEF CallProvider, QueueInv, ClientInv, InProgress, Calling
  <1>2. Body(ops[k]) \in Content /\ (ops[k].kind = "delete" => Body(ops[k]) = Absent)
    BY <1>1, BodyTyped
  <1>3. Absent \in Content
    BY DEF Absent, Content, Value
  <1>4. faults \in Nat
    BY DEF QueueInv, TypeOK
  <1>5. ASSUME NEW i \in Item, NEW result \in {"ok", "notfound"},
               Delivered(k, i, result), Answered(c, i, result, Body(ops[k])),
               UNCHANGED faults
        PROVE  QueueInv'
    <2>1. result \in Result
      BY DEF Result
    <2> HIDE DEF k
    <2> QED
      BY <1>1, <1>2, <1>4, <1>5, <2>1, DeliveredInv, AnsweredInv DEF k
  <1>6. ASSUME NEW i \in Item, NEW result \in {"retry", "reject"},
               Delivered(k, i, "ok"), Answered(c, i, result, Absent), faults' = faults + 1
        PROVE  QueueInv'
    <2>1. result \in Result /\ "ok" \in Result
      BY DEF Result
    <2> HIDE DEF k
    <2> QED
      BY <1>1, <1>3, <1>4, <1>6, <2>1, DeliveredInv, AnsweredInv DEF k
  <1>7. ASSUME NEW i \in Item, NEW result \in {"retry", "reject"},
               Undelivered(k, i), Answered(c, i, result, Absent), faults' \in Nat
        PROVE  QueueInv'
    <2>1. result \in Result
      BY DEF Result
    <2>2. UNCHANGED <<remote, fresh, posts>>
      BY <1>7 DEF Undelivered
    <2>3. /\ remote' \in [Item -> Value] /\ fresh' \subseteq Item
          /\ posts' \in Seq(SUBSET Item) /\ Len(posts') = Len(ops)
      BY <2>2 DEF QueueInv, TypeOK
    <2>4. PostsInv' /\ ItemsInv' /\ CacheInv'
      BY <1>1, <2>2, LedgerSame, OpsSame DEF QueueInv
    <2> QED
      BY <1>1, <1>3, <1>7, <2>1, <2>3, <2>4, AnsweredInv
  <1>8. \/ \E i \in Item, result \in {"ok", "notfound"} :
             /\ Delivered(k, i, result) /\ Answered(c, i, result, Body(ops[k]))
             /\ UNCHANGED faults
        \/ \E i \in Item, result \in {"retry", "reject"} :
             /\ Delivered(k, i, "ok") /\ Answered(c, i, result, Absent)
             /\ faults' = faults + 1
        \/ \E i \in Item, result \in {"retry", "reject"} :
             /\ Undelivered(k, i) /\ Answered(c, i, result, Absent)
             /\ faults' \in Nat
    BY <1>4 DEF CallProvider
  <1> QED
    BY <1>5, <1>6, <1>7, <1>8

-----------------------------------------------------------------------------
(* The answer is recorded                                                  *)

\* A row is settled: an item it does not touch is as clean as before.
LEMMA SettledClean ==
  ASSUME QueueInv, NEW k \in DOMAIN ops, ops[k].state = "pending",
         NEW state \in {"succeeded", "failed"}, Settled(k, state), posts' = posts,
         NEW i \in Item, Clean(i)'
  PROVE  /\ Clean(i) \/ Touches(k, i)
         /\ state = "failed" => Clean(i)
  <1>1. \A j \in DOMAIN ops : Touches(j, i)' <=> Touches(j, i)
    BY DEF Settled, RowsKept, Touches
  <1> QED
    BY <1>1 DEF Clean, Settled, RowsKept

\* Whatever comes of the answer, the row is settled or, when it is to be tried
\* again, still pending, and the ledger holds.
LEMMA RecordInv ==
  ASSUME QueueInv, NEW c \in Client, task[c].pc = "answered", Record(c),
         UNCHANGED <<remote, fresh, posts, external>>
  PROVE  /\ ops' \in Seq(Op) /\ Len(ops') = Len(ops) /\ RowsKept
         /\ cache' \in [Item -> Value]
         /\ \A j \in DOMAIN ops : j # task[c].op => ops'[j].state = ops[j].state
         /\ ops'[task[c].op].state = "pending" => ~Accepted(c) /\ Retryable(c)
         /\ PostsInv' /\ ItemsInv' /\ CacheInv'
  <1> DEFINE k == task[c].op
             i == task[c].item
             value == task[c].value
  <1>1. k \in DOMAIN ops /\ ops[k].state = "pending" /\ AnswerTrue(c) /\ TypeOK
    BY DEF QueueInv, ClientInv, InProgress, Calling
  <1>2. value \in Content /\ value \in Value /\ i \in Item
    BY <1>1 DEF AnswerTrue, Content
  <1>3. CASE Accepted(c) /\ Commit(c)
    <2>1. ops' \in Seq(Op) /\ Settled(k, "succeeded") /\ Len(ops') = Len(ops)
      BY <1>1, <1>3, SetSucceeded DEF Commit
    <2>2. /\ cache' \in [Item -> Content] /\ cache'[i] = value
          /\ \A j \in Item : j # i => cache'[j] = cache[j]
      BY <1>2, <1>3 DEF Commit, QueueInv, ItemsInv
    <2>3. PostsInv'
      BY <2>1 DEF QueueInv, PostsInv, Settled, RowsKept
    <2>4. i \notin fresh /\ (~value.live => ~remote[i].live)
      BY <1>1, <1>3 DEF Accepted, AnswerTrue, QueueInv, ItemsInv, Absent
    <2>5. ItemsInv'
      <3>1. \A j \in fresh : ~remote[j].live /\ ~cache'[j].live
        BY <1>2, <2>2, <2>4 DEF QueueInv, TypeOK, ItemsInv
      <3>2. ASSUME NEW j \in DOMAIN ops, ops[j].kind # "create"
            PROVE  /\ ops[j].item \notin fresh
                   /\ ~cache'[ops[j].item].live => ~remote[ops[j].item].live
        BY <1>1, <3>2, <2>2, <2>4, RowTyped DEF QueueInv, ItemsInv
      <3> QED
        BY <2>1, <2>2, <3>1, <3>2 DEF QueueInv, ItemsInv, Settled, RowsKept
    <2>6. external = 0 => value = remote[i]
      <3>1. CASE task[c].result = "ok"
        BY <1>1, <3>1 DEF AnswerTrue
      <3>2. CASE task[c].result = "notfound" /\ ops[k].kind = "delete"
        BY <1>1, <1>2, <3>2 DEF AnswerTrue, QueueInv, ItemsInv, Content
      <3> QED
        BY <1>3, <3>1, <3>2 DEF Accepted
    <2>7. ASSUME NEW j \in Item, Clean(j)', j # i
          PROVE  Clean(j)
      <3>1. ~Touches(k, j)
        BY <1>1, <1>3, <2>7 DEF Accepted, AnswerTrue, Touches, QueueInv, PostsInv
      <3> QED
        BY <1>1, <2>1, <2>7, <3>1, SettledClean
    <2>8. CacheInv'
      BY <2>2, <2>6, <2>7 DEF QueueInv, CacheInv
    <2>9. cache' \in [Item -> Value]
      BY <2>2 DEF Content
    <2> QED
      BY <1>1, <2>1, <2>3, <2>5, <2>8, <2>9 DEF Settled
  <1>4. CASE ~Accepted(c) /\ Retryable(c) /\ Defer(c)
    <2>1. ops' \in Seq(Op) /\ Kept /\ Len(ops') = Len(ops)
      BY <1>1, <1>4, SetRecent DEF Defer
    <2>2. PostsInv' /\ ItemsInv' /\ CacheInv'
      BY <2>1, <1>4, LedgerSame DEF QueueInv, Defer
    <2>3. cache' \in [Item -> Value]
      BY <1>4 DEF Defer, QueueInv, TypeOK
    <2> QED
      BY <2>1, <2>2, <2>3, <1>4 DEF Kept
  <1>5. CASE ~Accepted(c) /\ ~Retryable(c) /\ Fail(c)
    <2>1. ops' \in Seq(Op) /\ Settled(k, "failed") /\ Len(ops') = Len(ops)
      BY <1>1, <1>5, SetState DEF Fail
    <2>2. PostsInv'
      BY <2>1 DEF QueueInv, PostsInv, Settled, RowsKept
    <2>3. ItemsInv'
      BY <2>1, <1>5 DEF QueueInv, ItemsInv, Settled, RowsKept, Fail
    <2>4. \A j \in Item : Clean(j)' => Clean(j)
      BY <1>1, <2>1, SettledClean
    <2>5. CacheInv'
      BY <2>4, <1>5 DEF QueueInv, CacheInv, Fail
    <2>6. cache' \in [Item -> Value]
      BY <1>5 DEF Fail, QueueInv, TypeOK
    <2> QED
      BY <1>1, <2>1, <2>2, <2>3, <2>5, <2>6 DEF Settled
  <1> QED
    BY <1>3, <1>4, <1>5 DEF Record

LEMMA FinishRequestInv ==
  ASSUME QueueInv, NEW c \in Client, FinishRequest(c)
  PROVE  QueueInv'
  <1>1. /\ task[c].pc = "answered" /\ Record(c) /\ lock' = Nobody
        /\ task' = [task EXCEPT ![c] = Done]
        /\ UNCHANGED <<remote, fresh, posts, external, faults>>
    BY DEF FinishRequest
  <1>2. /\ ops' \in Seq(Op) /\ Len(ops') = Len(ops) /\ RowsKept
        /\ cache' \in [Item -> Value]
        /\ PostsInv' /\ ItemsInv' /\ CacheInv'
    BY <1>1, RecordInv
  <1>3. Done \in TaskState /\ Done.pc = "idle"
    BY DEF Done, TaskState
  <1>4. /\ TypeOK'
        /\ task'[c] = Done
        /\ \A d \in Client \ {c} : task'[d] = task[d]
    <2>1. /\ remote' \in [Item -> Value] /\ fresh' \subseteq Item
          /\ posts' \in Seq(SUBSET Item) /\ Len(posts') = Len(ops') /\ faults' \in Nat
          /\ DOMAIN ops \subseteq DOMAIN ops'
      BY <1>1, <1>2 DEF QueueInv, TypeOK, RowsKept
    <2>2. Done.pc \notin Replaying
      BY <1>3 DEF Replaying, Calling
    <2> QED
      BY <1>1, <1>2, <1>3, <2>1, <2>2, TypeKept DEF QueueInv
  <1>5. task'[c].pc \notin Holding /\ ClientInv(c)'
    BY <1>3, <1>4 DEF ClientInv, Holding, Replaying, Calling
  <1>6. lock = c
    BY <1>1 DEF QueueInv, LockHeld, Holding, Replaying, Calling
  <1>7. LockHeld' /\ \A d \in Client : ClientInv(d)'
    BY <1>4, <1>5, <1>6, OthersWait DEF QueueInv
  <1> QED
    BY <1>2, <1>4, <1>7 DEF QueueInv

LEMMA FinishReplayInv ==
  ASSUME QueueInv, NEW c \in Client, FinishReplay(c)
  PROVE  QueueInv'
  <1> DEFINE k == task[c].op
             blocked == IF ~Accepted(c) /\ Retryable(c)
                        THEN task[c].blocked \cup {ops[k].account} ELSE task[c].blocked
             t == [pc |-> "recover", list |-> task[c].list, scope |-> task[c].scope,
                   blocked |-> blocked]
  <1>1. /\ task[c].pc = "answered" /\ task[c].recovering /\ Record(c)
        /\ UNCHANGED <<remote, fresh, lock, posts, external, faults>>
    BY DEF FinishReplay
  <1>2. task' = [task EXCEPT ![c] = t]
    BY DEF FinishReplay, QueueInv, TypeOK
  <1>3. /\ ops' \in Seq(Op) /\ Len(ops') = Len(ops) /\ RowsKept
        /\ cache' \in [Item -> Value]
        /\ \A j \in DOMAIN ops : j # k => ops'[j].state = ops[j].state
        /\ ops'[k].state = "pending" => ~Accepted(c) /\ Retryable(c)
        /\ PostsInv' /\ ItemsInv' /\ CacheInv'
    BY <1>1, RecordInv
  <1>4. task[c].pc \in Calling /\ task[c].pc \in Replaying /\ task[c].pc \in Holding
    BY <1>1 DEF Calling, Replaying, Holding
  <1>5. /\ task[c].list \in SUBSET DOMAIN ops
        /\ task[c].blocked \in SUBSET task[c].scope /\ task[c].scope \in SUBSET Account
        /\ ops \in Seq(Op)
    BY <1>4, TaskTyped DEF QueueInv, TypeOK
  <1>6. /\ ListInOrder(c) /\ k \in DOMAIN ops /\ k \notin task[c].list
        /\ ops[k].account \in task[c].scope
    BY <1>1, <1>4 DEF QueueInv, ClientInv, InProgress
  <1>7. /\ task[c].blocked \subseteq blocked /\ blocked \in SUBSET task[c].scope
        /\ ops'[k].state = "pending" => ops[k].account \in blocked
    BY <1>3, <1>5, <1>6
  <1> HIDE DEF blocked
  <1>8. t \in TaskState
    BY <1>5, <1>7 DEF TaskState
  <1>9. /\ TypeOK'
        /\ task'[c] = t
        /\ \A d \in Client \ {c} : task'[d] = task[d]
    <2>1. /\ remote' \in [Item -> Value] /\ fresh' \subseteq Item
          /\ posts' \in Seq(SUBSET Item) /\ Len(posts') = Len(ops') /\ faults' \in Nat
          /\ DOMAIN ops \subseteq DOMAIN ops'
      BY <1>1, <1>3 DEF QueueInv, TypeOK, RowsKept
    <2>2. t.list \subseteq DOMAIN ops' /\ t.blocked \subseteq t.scope
      BY <1>5, <1>7, <2>1
    <2> HIDE DEF t
    <2> QED
      BY <1>1, <1>2, <1>3, <1>8, <2>1, <2>2, TypeKept DEF QueueInv
  <1>10. ListInOrder(c)'
    <2>1. task'[c].list = task[c].list /\ task'[c].blocked = blocked
            /\ task'[c].scope = task[c].scope
      BY <1>9
    <2>2. ASSUME NEW l \in task[c].list
          PROVE  l # k /\ l \in DOMAIN ops
                   /\ ops'[l].state = "pending" /\ ops'[l].account \in task[c].scope
      BY <1>3, <1>5, <1>6 DEF ListInOrder, RowsKept
    <2>3. ASSUME NEW l \in task[c].list, NEW j \in DOMAIN ops, j < l,
                 ops'[j].account = ops'[l].account, ops'[j].state = "pending"
          PROVE  j \in task[c].list \/ ops'[l].account \in blocked
      <3>1. ops[j].account = ops[l].account /\ ops'[l].account = ops[l].account
        BY <2>2, <2>3, <1>3 DEF RowsKept
      <3>2. CASE j = k
        BY <2>3, <3>1, <3>2, <1>7
      <3>3. CASE j # k
        BY <2>3, <3>1, <3>3, <1>3, <1>6, <1>7 DEF ListInOrder
      <3> QED
        BY <3>2, <3>3
    <2>4. DOMAIN ops' = DOMAIN ops
      BY <1>3 DEF RowsKept
    <2> QED
      BY <2>1, <2>2, <2>3, <2>4 DEF ListInOrder
  <1>11. ClientInv(c)'
    BY <1>9, <1>10 DEF ClientInv, Calling
  <1>12. lock = c /\ lock' = c
    BY <1>1, <1>4 DEF QueueInv, LockHeld
  <1>13. LockHeld' /\ \A d \in Client : ClientInv(d)'
    BY <1>9, <1>11, <1>12, OthersWait DEF QueueInv
  <1> QED
    BY <1>3, <1>9, <1>13 DEF QueueInv

-----------------------------------------------------------------------------
(* Recovery                                                                *)

LEMMA PendingFinite ==
  ASSUME TypeOK, NEW scope
  PROVE  Pending(scope) \in SUBSET Nat /\ IsFiniteSet(Pending(scope))
  <1>1. DOMAIN ops = 1..Len(ops) /\ Len(ops) \in Nat
    BY DEF TypeOK
  <1>2. Pending(scope) \subseteq 1..Len(ops)
    BY <1>1 DEF Pending
  <1>3. IsFiniteSet(1..Len(ops))
    BY <1>1, FS_Interval
  <1> QED
    BY <1>1, <1>2, <1>3, FS_Subset

LEMMA BeginRecoveryInv ==
  ASSUME QueueInv, NEW c \in Client, NEW scope \in SUBSET Account, BeginRecovery(c, scope)
  PROVE  QueueInv'
  <1> DEFINE list == Prefix(Pending(scope), RecoveryLimit)
             t == [pc |-> "recover", list |-> list, blocked |-> {}, scope |-> scope]
  <1>1. /\ lock = Nobody /\ lock' = c /\ task' = [task EXCEPT ![c] = t]
        /\ UNCHANGED <<remote, fresh, cache, ops, posts, external, faults>>
    BY DEF BeginRecovery, Ready
  <1>2. Pending(scope) \in SUBSET Nat /\ IsFiniteSet(Pending(scope))
    BY PendingFinite DEF QueueInv
  <1>3. list \subseteq Pending(scope) /\ Pending(scope) \subseteq DOMAIN ops
    BY DEF Prefix, Pending
  <1>4. \A k \in list, j \in Pending(scope) : j <= k => j \in list
    BY <1>2, PrefixClosed, BoundAssumption
  <1> HIDE DEF list
  <1>5. list \in SUBSET Nat
    BY <1>2, <1>3
  <1>6. t \in TaskState
    BY <1>5 DEF TaskState
  <1>7. /\ TypeOK'
        /\ task'[c] = t
        /\ \A d \in Client \ {c} : task'[d] = task[d]
    <2>1. /\ remote' \in [Item -> Value] /\ fresh' \subseteq Item /\ cache' \in [Item -> Value]
          /\ posts' \in Seq(SUBSET Item) /\ Len(posts') = Len(ops') /\ faults' \in Nat
          /\ DOMAIN ops \subseteq DOMAIN ops' /\ ops' \in Seq(Op)
      BY <1>1 DEF QueueInv, TypeOK
    <2>2. t.list \subseteq DOMAIN ops' /\ t.blocked \subseteq t.scope
      BY <1>1, <1>3
    <2> HIDE DEF t
    <2> QED
      BY <1>1, <1>6, <2>1, <2>2, TypeKept DEF QueueInv
  <1>8. ListInOrder(c)'
    <2>1. \A k \in list : ops[k].state = "pending" /\ ops[k].account \in scope
      BY <1>3 DEF Pending
    <2>2. ASSUME NEW k \in list, NEW j \in DOMAIN ops, j < k,
                 ops[j].account = ops[k].account, ops[j].state = "pending"
          PROVE  j \in list
      <3>1. j \in Pending(scope)
        BY <2>1, <2>2 DEF Pending
      <3>2. j <= k
        BY <2>2, <3>1, <1>2, <1>5
      <3> QED
        BY <3>1, <3>2, <1>4
    <2> QED
      BY <1>1, <1>7, <2>1, <2>2 DEF ListInOrder
  <1>9. ClientInv(c)'
    BY <1>7, <1>8 DEF ClientInv, Calling
  <1>10. LockHeld' /\ \A d \in Client : ClientInv(d)'
    BY <1>1, <1>7, <1>9, OthersWait DEF QueueInv
  <1>11. PostsInv' /\ ItemsInv' /\ CacheInv'
    BY <1>1, LedgerSame, OpsSame DEF QueueInv
  <1> QED
    BY <1>7, <1>10, <1>11 DEF QueueInv

\* The next operation to look at is the oldest one listed.
LEMMA NextTyped ==
  ASSUME QueueInv, NEW c \in Client, task[c].pc = "recover", task[c].list # {}
  PROVE  /\ NextOp(c) \in task[c].list
         /\ NextOp(c) \in DOMAIN ops
         /\ \A j \in task[c].list : NextOp(c) <= j
         /\ ops[NextOp(c)].state = "pending"
         /\ ops[NextOp(c)].account \in task[c].scope
         /\ task[c].list \in SUBSET DOMAIN ops
         /\ task[c].list \in SUBSET Nat
         /\ task[c].blocked \in SUBSET task[c].scope
         /\ task[c].scope \in SUBSET Account
         /\ ListInOrder(c)
         /\ lock = c
  <1>1. task[c].pc \in Replaying /\ task[c].pc \in Holding
    BY DEF Replaying, Holding
  <1>2. /\ task[c].list \in SUBSET DOMAIN ops
        /\ task[c].blocked \in SUBSET task[c].scope
        /\ task[c].scope \in SUBSET Account
    BY <1>1, TaskTyped DEF QueueInv
  <1>3. task[c].list \in SUBSET Nat
    BY <1>2 DEF QueueInv, TypeOK
  <1>4. ListInOrder(c) /\ lock = c
    BY <1>1 DEF QueueInv, ClientInv, LockHeld
  <1>5. NextOp(c) \in task[c].list /\ \A j \in task[c].list : NextOp(c) <= j
    BY <1>3, OldestIsLeast DEF NextOp
  <1> QED
    BY <1>2, <1>3, <1>4, <1>5 DEF ListInOrder

\* The recovery goes on to the operation after: what it leaves behind is settled,
\* or its account waits.
LEMMA AdvanceInv ==
  ASSUME QueueInv, NEW c \in Client, task[c].pc = "recover", task[c].list # {},
         NEW blocked \in SUBSET task[c].scope, task[c].blocked \subseteq blocked,
         Advance(c, blocked),
         ops' \in Seq(Op), Len(ops') = Len(ops), RowsKept,
         \A j \in DOMAIN ops : j # NextOp(c) => ops'[j].state = ops[j].state,
         ops'[NextOp(c)].state = "pending" => ops[NextOp(c)].account \in blocked,
         UNCHANGED <<remote, fresh, cache, lock, posts, external>>, faults' \in Nat,
         PostsInv', ItemsInv', CacheInv'
  PROVE  QueueInv'
  <1> DEFINE k == NextOp(c)
             list == task[c].list \ {k}
             t == [pc |-> "recover", list |-> list, blocked |-> blocked,
                   scope |-> task[c].scope]
  <1>1. /\ k \in DOMAIN ops /\ list \in SUBSET DOMAIN ops /\ list \in SUBSET Nat
        /\ task[c].scope \in SUBSET Account /\ ListInOrder(c) /\ lock = c
    BY NextTyped
  <1>2. task' = [task EXCEPT ![c] = t]
    BY DEF Advance, QueueInv, TypeOK
  <1> HIDE DEF k
  <1>3. t \in TaskState
    BY <1>1 DEF TaskState
  <1>4. /\ TypeOK'
        /\ task'[c] = t
        /\ \A d \in Client \ {c} : task'[d] = task[d]
    <2>1. /\ remote' \in [Item -> Value] /\ fresh' \subseteq Item /\ cache' \in [Item -> Value]
          /\ posts' \in Seq(SUBSET Item) /\ Len(posts') = Len(ops')
          /\ DOMAIN ops \subseteq DOMAIN ops'
      BY DEF QueueInv, TypeOK, RowsKept
    <2>2. t.list \subseteq DOMAIN ops' /\ t.blocked \subseteq t.scope
      BY <1>1, <2>1
    <2> HIDE DEF t
    <2> QED
      BY <1>2, <1>3, <2>1, <2>2, TypeKept DEF QueueInv
  <1>5. ListInOrder(c)'
    <2>1. ASSUME NEW l \in list
          PROVE  l # k /\ l \in DOMAIN ops /\ l \in task[c].list
                   /\ ops'[l].state = "pending" /\ ops'[l].account \in task[c].scope
      BY <1>1 DEF ListInOrder, RowsKept, k
    <2>2. ASSUME NEW l \in list, NEW j \in DOMAIN ops, j < l,
                 ops'[j].account = ops'[l].account, ops'[j].state = "pending"
          PROVE  j \in list \/ ops'[l].account \in blocked
      <3>1. ops[j].account = ops[l].account /\ ops'[l].account = ops[l].account
        BY <2>1, <2>2 DEF RowsKept
      <3>2. CASE j = k
        BY <2>2, <3>1, <3>2 DEF k
      <3>3. CASE j # k
        <4>1. ops[j].state = "pending"
          BY <2>2, <3>3 DEF k
        <4>2. j \in task[c].list \/ ops[l].account \in task[c].blocked
          BY <4>1, <3>1, <2>1, <2>2, <1>1 DEF ListInOrder, Calling
        <4> QED
          BY <4>2, <3>1, <3>3
      <3> QED
        BY <3>2, <3>3
    <2>3. DOMAIN ops' = DOMAIN ops
      BY DEF RowsKept
    <2> QED
      BY <1>4, <2>1, <2>2, <2>3 DEF ListInOrder
  <1>6. ClientInv(c)'
    BY <1>4, <1>5 DEF ClientInv, Calling
  <1>7. LockHeld' /\ \A d \in Client : ClientInv(d)'
    BY <1>1, <1>4, <1>6, OthersWait DEF QueueInv
  <1> QED
    BY <1>4, <1>7 DEF QueueInv

LEMMA SkipBlockedInv ==
  ASSUME QueueInv, NEW c \in Client, SkipBlocked(c)
  PROVE  QueueInv'
  <1> DEFINE blocked == task[c].blocked \cup {ops[NextOp(c)].account}
  <1>1. /\ task[c].pc = "recover" /\ task[c].list # {} /\ Advance(c, blocked)
        /\ UNCHANGED <<remote, fresh, cache, ops, lock, posts, external, faults>>
    BY DEF SkipBlocked
  <1>2. blocked \in SUBSET task[c].scope /\ task[c].blocked \subseteq blocked
    BY <1>1, NextTyped
  <1>3. Kept /\ PostsInv' /\ ItemsInv' /\ CacheInv'
    BY <1>1, LedgerSame, OpsSame DEF QueueInv
  <1>4. ops' \in Seq(Op) /\ faults' \in Nat
    BY <1>1 DEF QueueInv, TypeOK
  <1>5. ops[NextOp(c)].account \in blocked
    OBVIOUS
  <1> HIDE DEF blocked
  <1> QED
    BY <1>1, <1>2, <1>3, <1>4, <1>5, AdvanceInv DEF Kept

LEMMA UndiscoveredInv ==
  ASSUME QueueInv, NEW c \in Client, Undiscovered(c)
  PROVE  QueueInv'
  <1> DEFINE blocked == task[c].blocked \cup {ops[NextOp(c)].account}
  <1>1. /\ task[c].pc = "recover" /\ task[c].list # {} /\ Advance(c, blocked)
        /\ ops' = [ops EXCEPT ![NextOp(c)].recent = TRUE]
        /\ UNCHANGED <<remote, fresh, cache, lock, posts, external>>
    BY DEF Undiscovered, Due
  <1>2. /\ blocked \in SUBSET task[c].scope /\ task[c].blocked \subseteq blocked
        /\ NextOp(c) \in DOMAIN ops
    BY <1>1, NextTyped
  <1>3. ops' \in Seq(Op) /\ Kept /\ Len(ops') = Len(ops)
    BY <1>1, <1>2, SetRecent DEF QueueInv
  <1>4. PostsInv' /\ ItemsInv' /\ CacheInv'
    BY <1>1, <1>3, LedgerSame DEF QueueInv
  <1>5. faults' \in Nat
    BY DEF Undiscovered, QueueInv, TypeOK
  <1>6. ops[NextOp(c)].account \in blocked
    OBVIOUS
  <1> HIDE DEF blocked
  <1> QED
    BY <1>1, <1>2, <1>3, <1>4, <1>5, <1>6, AdvanceInv DEF Kept

\* The deletion of an item that the cache has not got is done: neither has the
\* provider.
LEMMA SettleLocallyInv ==
  ASSUME QueueInv, NEW c \in Client, SettleLocally(c)
  PROVE  QueueInv'
  <1> DEFINE k == NextOp(c)
             state == IF ops[k].kind = "delete" THEN "succeeded" ELSE "failed"
  <1>1. /\ task[c].pc = "recover" /\ task[c].list # {} /\ Advance(c, task[c].blocked)
        /\ ops' = [ops EXCEPT ![k].state = state]
        /\ state = "succeeded" => ops[k].kind = "delete" /\ ~cache[ops[k].item].live
        /\ UNCHANGED <<remote, fresh, cache, lock, posts, external, faults>>
    BY DEF SettleLocally, Due
  <1>2. /\ k \in DOMAIN ops /\ ops[k].state = "pending"
        /\ task[c].blocked \in SUBSET task[c].scope
    BY <1>1, NextTyped
  <1>3. state \in {"succeeded", "failed"}
    OBVIOUS
  <1> HIDE DEF k, state
  <1>4. ops' \in Seq(Op) /\ Settled(k, state) /\ Len(ops') = Len(ops)
    BY <1>1, <1>2, <1>3, SetState DEF QueueInv
  <1>5. PostsInv'
    BY <1>1, <1>4 DEF QueueInv, PostsInv, Settled, RowsKept
  <1>6. ItemsInv'
    BY <1>1, <1>4 DEF QueueInv, ItemsInv, Settled, RowsKept
  <1>7. ASSUME external = 0, NEW i \in Item, Clean(i)'
        PROVE  cache[i] = remote[i]
    <2>1. CASE Clean(i)
      BY <1>7, <2>1 DEF QueueInv, CacheInv
    <2>2. CASE ~Clean(i)
      <3>1. state = "succeeded" /\ Touches(k, i)
        BY <1>1, <1>2, <1>3, <1>4, <1>7, <2>2, SettledClean
      <3>2. i = ops[k].item /\ ~cache[i].live /\ ~remote[i].live
        BY <1>1, <1>2, <3>1 DEF Touches, QueueInv, PostsInv, ItemsInv
      <3> QED
        BY <3>2 DEF QueueInv, ItemsInv, Content
    <2> QED
      BY <2>1, <2>2
  <1>8. CacheInv'
    BY <1>1, <1>7 DEF CacheInv
  <1>9. /\ RowsKept /\ faults' \in Nat
        /\ \A j \in DOMAIN ops : j # k => ops'[j].state = ops[j].state
        /\ ops'[k].state # "pending"
    BY <1>1, <1>2, <1>3, <1>4 DEF Settled, QueueInv, TypeOK
  <1> QED
    BY <1>1, <1>2, <1>4, <1>5, <1>6, <1>8, <1>9, AdvanceInv DEF k

\* A replay takes the oldest pending operation of an account that does not wait.
LEMMA ReplayInv ==
  ASSUME QueueInv, NEW c \in Client, Replay(c)
  PROVE  QueueInv'
  <1> DEFINE k == NextOp(c)
             list == task[c].list \ {k}
             t == [pc |-> "call", op |-> k, recovering |-> TRUE, list |-> list,
                   blocked |-> task[c].blocked, scope |-> task[c].scope]
  <1>1. /\ task[c].pc = "recover" /\ task[c].list # {}
        /\ ops[k].account \notin task[c].blocked
        /\ ops[k].kind # "create"
        /\ task' = [task EXCEPT ![c] = t]
        /\ UNCHANGED <<remote, fresh, cache, ops, lock, posts, external, faults>>
    BY DEF Replay, Due, QueueInv, TypeOK
  <1>2. /\ k \in task[c].list /\ k \in DOMAIN ops /\ k \in Nat
        /\ \A j \in task[c].list : k <= j
        /\ ops[k].state = "pending" /\ ops[k].account \in task[c].scope
        /\ list \in SUBSET DOMAIN ops /\ list \in SUBSET Nat
        /\ task[c].blocked \in SUBSET task[c].scope
        /\ task[c].scope \in SUBSET Account
        /\ ListInOrder(c) /\ lock = c
    BY <1>1, NextTyped
  <1> HIDE DEF k
  <1>3. t \in TaskState
    BY <1>2 DEF TaskState
  <1>4. /\ TypeOK'
        /\ task'[c] = t
        /\ \A d \in Client \ {c} : task'[d] = task[d]
    <2>1. /\ remote' \in [Item -> Value] /\ fresh' \subseteq Item /\ cache' \in [Item -> Value]
          /\ posts' \in Seq(SUBSET Item) /\ Len(posts') = Len(ops')
          /\ DOMAIN ops \subseteq DOMAIN ops' /\ ops' \in Seq(Op) /\ faults' \in Nat
      BY <1>1 DEF QueueInv, TypeOK
    <2>2. t.list \subseteq DOMAIN ops' /\ t.blocked \subseteq t.scope
      BY <1>2, <2>1
    <2> HIDE DEF t
    <2> QED
      BY <1>1, <1>3, <2>1, <2>2, TypeKept DEF QueueInv
  <1>5. ListInOrder(c)'
    BY <1>1, <1>2, <1>4 DEF ListInOrder, Calling
  <1>6. ASSUME NEW j \in DOMAIN ops, j < k, ops[j].account = ops[k].account
        PROVE  ops[j].state # "pending"
    <2>1. j \notin task[c].list
      BY <1>2, <1>6 DEF QueueInv, TypeOK
    <2> QED
      BY <1>1, <1>2, <1>6, <2>1 DEF ListInOrder, Calling
  <1>7. InProgress(c)'
    BY <1>1, <1>2, <1>4, <1>6 DEF InProgress
  <1>8. ClientInv(c)'
    BY <1>1, <1>2, <1>4, <1>5, <1>7 DEF ClientInv, QueueInv, PostsInv
  <1>9. LockHeld' /\ \A d \in Client : ClientInv(d)'
    BY <1>1, <1>2, <1>4, <1>8, OthersWait DEF QueueInv
  <1>10. PostsInv' /\ ItemsInv' /\ CacheInv'
    BY <1>1, LedgerSame, OpsSame DEF QueueInv
  <1> QED
    BY <1>4, <1>9, <1>10 DEF QueueInv

-----------------------------------------------------------------------------
(* The refresh of the cached items                                         *)

\* A worker goes on without the lock; nothing else changes but a lock it held.
LEMMA ReleasedInv ==
  ASSUME QueueInv, NEW c \in Client, NEW t \in TaskState, t.pc \in {"idle", "sync"},
         task' = [task EXCEPT ![c] = t],
         lock' = lock \/ (lock = c /\ lock' = Nobody),
         UNCHANGED <<remote, fresh, cache, ops, posts, external>>, faults' \in Nat
  PROVE  QueueInv'
  <1>1. t.pc \notin Holding
    BY DEF Holding, Replaying, Calling
  <1>2. /\ TypeOK'
        /\ task'[c] = t
        /\ \A d \in Client \ {c} : task'[d] = task[d]
    <2>1. /\ remote' \in [Item -> Value] /\ fresh' \subseteq Item /\ cache' \in [Item -> Value]
          /\ posts' \in Seq(SUBSET Item) /\ Len(posts') = Len(ops')
          /\ DOMAIN ops \subseteq DOMAIN ops' /\ ops' \in Seq(Op)
      BY DEF QueueInv, TypeOK
    <2>2. t.pc \notin Replaying
      BY <1>1 DEF Holding
    <2> QED
      BY <2>1, <2>2, TypeKept DEF QueueInv
  <1>3. LockHeld'
    BY <1>1, <1>2 DEF QueueInv, LockHeld
  <1>4. ASSUME NEW d \in Client
        PROVE  ClientInv(d)'
    <2>1. CASE d = c
      BY <2>1, <1>1, <1>2 DEF ClientInv, Holding, Replaying, Calling
    <2>2. CASE d # c
      BY <2>2, <1>2, ClientSame, OpsSame DEF QueueInv
    <2> QED
      BY <2>1, <2>2
  <1>5. PostsInv' /\ ItemsInv' /\ CacheInv'
    BY LedgerSame, OpsSame DEF QueueInv
  <1> QED
    BY <1>2, <1>3, <1>4, <1>5 DEF QueueInv

LEMMA EndRecoveryInv ==
  ASSUME QueueInv, NEW c \in Client, EndRecovery(c)
  PROVE  QueueInv'
  <1> DEFINE t == [pc |-> "sync", scope |-> task[c].scope]
  <1>1. /\ task[c].pc = "recover" /\ lock' = Nobody
        /\ task' = [task EXCEPT ![c] = t]
        /\ UNCHANGED <<remote, fresh, cache, ops, posts, external, faults>>
    BY DEF EndRecovery, QueueInv, TypeOK
  <1>2. lock = c /\ task[c].scope \in SUBSET Account
    BY <1>1, TaskTyped DEF QueueInv, LockHeld, Holding, Replaying
  <1>3. t \in TaskState /\ t.pc = "sync" /\ faults' \in Nat
    BY <1>1, <1>2 DEF TaskState, QueueInv, TypeOK
  <1> HIDE DEF t
  <1> QED
    BY <1>1, <1>2, <1>3, ReleasedInv

LEMMA EndSyncInv ==
  ASSUME QueueInv, NEW c \in Client, EndSync(c)
  PROVE  QueueInv'
  <1> DEFINE t == Done
  <1>1. /\ task' = [task EXCEPT ![c] = t]
        /\ lock' = lock \/ (lock = c /\ lock' = Nobody)
        /\ UNCHANGED <<remote, fresh, cache, ops, posts, external>>
        /\ faults' \in Nat
    BY DEF EndSync, QueueInv, TypeOK
  <1>2. t \in TaskState /\ t.pc \in {"idle", "sync"}
    BY DEF Done, TaskState
  <1> HIDE DEF t
  <1> QED
    BY <1>1, <1>2, ReleasedInv

LEMMA FetchAgendaInv ==
  ASSUME QueueInv, NEW c \in Client, FetchAgenda(c)
  PROVE  QueueInv'
  <1>1. /\ task[c].pc = "sync" /\ lock = Nobody
        /\ UNCHANGED <<remote, fresh, cache, ops, posts, external>>
        /\ faults' \in Nat
    BY DEF FetchAgenda, QueueInv, TypeOK
  <1>2. task[c].scope \in SUBSET Account
    BY <1>1, TaskTyped DEF QueueInv
  <1>3. ASSUME NEW a \in task[c].scope, lock' = c,
               task' = [task EXCEPT ![c] =
                 [pc |-> "page", scope |-> @.scope \ {a}, account |-> a, items |-> Held(a)]]
        PROVE  QueueInv'
    <2> DEFINE t == [pc |-> "page", scope |-> task[c].scope \ {a}, account |-> a,
                     items |-> Held(a)]
    <2>1. /\ remote \in [Item -> Content] /\ Absent \in Content
          /\ \A v \in Content : v \in Value
      BY DEF QueueInv, ItemsInv, Absent, Content, Value
    <2>2. /\ Held(a) \in [Item -> Content]
          /\ \A i \in Item : Owner[i] = a => Held(a)[i] = remote[i]
      BY <2>1 DEF Held
    <2>3. t \in TaskState
      BY <1>2, <2>1, <2>2 DEF TaskState
    <2>4. task' = [task EXCEPT ![c] = t]
      BY <1>3 DEF QueueInv, TypeOK
    <2>5. t.pc \notin Replaying
      BY DEF Replaying, Calling
    <2>6. /\ TypeOK'
          /\ task'[c] = t
          /\ \A d \in Client \ {c} : task'[d] = task[d]
      <3>1. /\ remote' \in [Item -> Value] /\ fresh' \subseteq Item /\ cache' \in [Item -> Value]
            /\ posts' \in Seq(SUBSET Item) /\ Len(posts') = Len(ops')
            /\ DOMAIN ops \subseteq DOMAIN ops' /\ ops' \in Seq(Op)
        BY <1>1 DEF QueueInv, TypeOK
      <3> HIDE DEF t
      <3> QED
        BY <1>1, <1>3, <2>3, <2>4, <2>5, <3>1, TypeKept DEF QueueInv
    <2>7. PageTrue(c)'
      BY <1>1, <1>2, <2>2, <2>6 DEF PageTrue, QueueInv, ItemsInv
    <2>8. ClientInv(c)'
      BY <2>5, <2>6, <2>7 DEF ClientInv, Replaying
    <2>9. LockHeld' /\ \A d \in Client : ClientInv(d)'
      BY <1>1, <1>3, <2>6, <2>8, OthersWait DEF QueueInv
    <2>10. PostsInv' /\ ItemsInv' /\ CacheInv'
      BY <1>1, LedgerSame, OpsSame DEF QueueInv
    <2> QED
      BY <2>6, <2>9, <2>10 DEF QueueInv
  <1>4. ASSUME NEW a \in task[c].scope, lock' = lock,
               task' = [task EXCEPT ![c].scope = @ \ {a}]
        PROVE  QueueInv'
    <2> DEFINE t == [task[c] EXCEPT !.scope = @ \ {a}]
    <2>1. task[c] \in [pc : {"sync"}, scope : SUBSET Account]
      BY <1>1 DEF QueueInv, TypeOK, TaskState
    <2>2. t \in TaskState /\ t.pc = "sync"
      BY <2>1 DEF TaskState
    <2>3. task' = [task EXCEPT ![c] = t]
      BY <1>4 DEF QueueInv, TypeOK
    <2> HIDE DEF t
    <2> QED
      BY <1>1, <1>4, <2>2, <2>3, ReleasedInv
  <1> QED
    BY <1>3, <1>4 DEF FetchAgenda

\* replace_remote_agenda: the page is still what the provider holds.
LEMMA ReplaceAgendaInv ==
  ASSUME QueueInv, NEW c \in Client, ReplaceAgenda(c)
  PROVE  QueueInv'
  <1> DEFINE t == [pc |-> "sync", scope |-> task[c].scope]
             a == task[c].account
             items == task[c].items
  <1>1. /\ task[c].pc = "page" /\ lock' = Nobody
        /\ task' = [task EXCEPT ![c] = t]
        /\ cache' = [i \in Item |->
                       IF Owner[i] = a /\ i \notin Outside THEN items[i] ELSE cache[i]]
        /\ UNCHANGED <<remote, fresh, ops, posts, external, faults>>
    BY DEF ReplaceAgenda, QueueInv, TypeOK
  <1>2. /\ lock = c /\ task[c].scope \in SUBSET Account
        /\ PageTrue(c)
    BY <1>1, TaskTyped DEF QueueInv, LockHeld, Holding, ClientInv
  <1>3. t \in TaskState /\ t.pc \notin Holding /\ t.pc \notin Replaying
    BY <1>2 DEF TaskState, Holding, Replaying, Calling
  <1>4. \A v \in Content : v \in Value
    BY DEF Content
  <1>5. cache' \in [Item -> Content]
    BY <1>1, <1>2 DEF PageTrue, QueueInv, ItemsInv
  <1>6. /\ TypeOK'
        /\ task'[c] = t
        /\ \A d \in Client \ {c} : task'[d] = task[d]
    <2>1. /\ remote' \in [Item -> Value] /\ fresh' \subseteq Item /\ cache' \in [Item -> Value]
          /\ posts' \in Seq(SUBSET Item) /\ Len(posts') = Len(ops') /\ faults' \in Nat
          /\ DOMAIN ops \subseteq DOMAIN ops' /\ ops' \in Seq(Op)
      BY <1>1, <1>4, <1>5 DEF QueueInv, TypeOK
    <2> HIDE DEF t
    <2> QED
      BY <1>1, <1>3, <2>1, TypeKept DEF QueueInv
  <1>7. ClientInv(c)'
    BY <1>6 DEF ClientInv, Replaying, Calling
  <1>8. LockHeld' /\ \A d \in Client : ClientInv(d)'
    BY <1>2, <1>3, <1>6, <1>7, OthersWait DEF QueueInv
  <1>9. PostsInv'
    BY <1>1 DEF QueueInv, PostsInv
  <1>10. ItemsInv'
    <2>1. \A i \in fresh : ~cache'[i].live
      BY <1>1, <1>2 DEF PageTrue, QueueInv, TypeOK, ItemsInv
    <2>2. ASSUME NEW k \in DOMAIN ops, ops[k].kind # "create", ~cache'[ops[k].item].live
          PROVE  ~remote[ops[k].item].live
      <3>1. ops[k].item \in Item
        BY RowTyped DEF QueueInv
      <3> QED
        BY <1>1, <1>2, <2>2, <3>1 DEF PageTrue, QueueInv, ItemsInv
    <2> QED
      BY <1>1, <1>5, <2>1, <2>2 DEF QueueInv, ItemsInv
  <1>11. CacheInv'
    <2>1. \A i \in Item : Clean(i)' => Clean(i)
      BY <1>1 DEF Clean, Touches
    <2> QED
      BY <1>1, <1>2, <2>1 DEF QueueInv, CacheInv, PageTrue
  <1> QED
    BY <1>6, <1>8, <1>9, <1>10, <1>11 DEF QueueInv

-----------------------------------------------------------------------------
(* Other programs, time, disconnects and restarts                          *)

LEMMA EditElsewhereInv ==
  ASSUME QueueInv, NEW i \in Item, EditElsewhere(i)
  PROVE  QueueInv'
  <1>1. /\ remote[i].live /\ external' = external + 1
        /\ UNCHANGED <<fresh, cache, ops, lock, task, posts, faults>>
    BY DEF EditElsewhere
  <1>2. /\ remote' \in [Item -> Content]
        /\ \A j \in Item : remote'[j].live => remote[j].live
    <2>1. remote[i] \in Value /\ remote \in [Item -> Content] /\ Len(ops) + 1 \in Nat
      BY DEF QueueInv, TypeOK, ItemsInv
    <2>2. CASE remote' = [remote EXCEPT ![i] = Absent]
      BY <2>1, <2>2, <1>1 DEF Absent, Content, Value
    <2>3. CASE remote' = [remote EXCEPT ![i].title = Len(ops) + 1]
      <3> DEFINE item == [remote[i] EXCEPT !.title = Len(ops) + 1]
      <3>1. item \in Value /\ item.live
        BY <2>1, <1>1 DEF Value
      <3>2. item \in Content
        BY <3>1 DEF Content
      <3>3. remote' = [remote EXCEPT ![i] = item]
        BY <2>3
      <3> HIDE DEF item
      <3> QED
        BY <2>1, <1>1, <3>2, <3>3
    <2> QED
      BY <2>2, <2>3 DEF EditElsewhere
  <1>3. \A v \in Content : v \in Value
    BY DEF Content
  <1>4. external' \in Nat /\ external' # 0
    BY <1>1 DEF QueueInv, TypeOK
  <1>5. TypeOK'
    <2>1. remote' \in [Item -> Value]
      BY <1>2, <1>3
    <2> QED
      BY <1>1, <1>4, <2>1 DEF QueueInv, TypeOK
  <1>6. LockHeld'
    BY <1>1 DEF QueueInv, LockHeld
  <1>7. ASSUME NEW c \in Client
        PROVE  ClientInv(c)'
    <2>1. ClientInv(c) /\ task'[c] = task[c]
      BY <1>1 DEF QueueInv
    <2>2. task[c].pc \in Replaying => ListInOrder(c)'
      BY <1>1, <2>1 DEF ClientInv, ListInOrder
    <2>3. task[c].pc \in Calling => InProgress(c)'
      BY <1>1, <2>1 DEF ClientInv, InProgress
    <2>4. ASSUME task[c].pc = "answered"
          PROVE  AnswerTrue(c)'
      BY <1>1, <1>2, <1>4, <2>1, <2>4 DEF ClientInv, AnswerTrue
    <2>5. ASSUME task[c].pc = "page"
          PROVE  PageTrue(c)'
      BY <1>1, <1>2, <1>4, <2>1, <2>5 DEF ClientInv, PageTrue
    <2> QED
      BY <1>1, <2>1, <2>2, <2>3, <2>4, <2>5 DEF ClientInv
  <1>8. PostsInv' /\ CacheInv'
    BY <1>1, <1>4 DEF QueueInv, PostsInv, CacheInv
  <1>9. ItemsInv'
    <2>1. \A j \in fresh : ~remote'[j].live
      BY <1>2 DEF QueueInv, TypeOK, ItemsInv
    <2>2. ASSUME NEW k \in DOMAIN ops, ops[k].kind # "create", ~cache[ops[k].item].live
          PROVE  ~remote'[ops[k].item].live
      BY <2>2, <1>2, RowTyped DEF QueueInv, ItemsInv
    <2> QED
      BY <1>1, <1>2, <2>1, <2>2 DEF QueueInv, ItemsInv
  <1> QED
    BY <1>5, <1>6, <1>7, <1>8, <1>9 DEF QueueInv

LEMMA BackoffEndsInv ==
  ASSUME QueueInv, NEW k \in DOMAIN ops, BackoffEnds(k)
  PROVE  QueueInv'
  <1>1. /\ ops' = [ops EXCEPT ![k].recent = FALSE]
        /\ UNCHANGED <<remote, fresh, cache, lock, task, posts, external, faults>>
    BY DEF BackoffEnds
  <1>2. ops' \in Seq(Op) /\ Kept /\ Len(ops') = Len(ops)
    BY <1>1, SetRecent DEF QueueInv
  <1>3. TypeOK'
    BY <1>1, <1>2 DEF QueueInv, TypeOK, Kept, RowsKept
  <1>4. LockHeld' /\ \A c \in Client : ClientInv(c)'
    BY <1>1, <1>2, ClientSame DEF QueueInv, LockHeld
  <1>5. PostsInv' /\ ItemsInv' /\ CacheInv'
    BY <1>1, <1>2, LedgerSame DEF QueueInv
  <1> QED
    BY <1>3, <1>4, <1>5 DEF QueueInv

LEMMA StopInv ==
  ASSUME QueueInv, NEW clients \in SUBSET Client, Stop(clients)
  PROVE  QueueInv'
  <1>1. /\ faults' = faults + 1
        /\ task' = [c \in Client |-> IF c \in clients THEN Done ELSE task[c]]
        /\ lock' = IF lock \in clients THEN Nobody ELSE lock
        /\ UNCHANGED <<remote, fresh, cache, ops, posts, external>>
    BY DEF Stop
  <1>2. Done \in TaskState /\ Done.pc = "idle" /\ Done.pc \notin Holding
          /\ Done.pc \notin Replaying
    BY DEF Done, TaskState, Holding, Replaying, Calling
  <1>3. \A c \in Client : task'[c] = IF c \in clients THEN Done ELSE task[c]
    BY <1>1
  <1>4. TypeOK'
    <2>1. task' \in [Client -> TaskState]
      BY <1>1, <1>2 DEF QueueInv, TypeOK
    <2>2. lock' \in Client \cup {Nobody} /\ faults' \in Nat
      BY <1>1 DEF QueueInv, TypeOK
    <2>3. ASSUME NEW c \in Client, task'[c].pc \in {"call", "answered", "recover"}
          PROVE  task'[c].list \subseteq DOMAIN ops /\ task'[c].blocked \subseteq task'[c].scope
      BY <1>2, <1>3, <2>3 DEF QueueInv, TypeOK, Replaying, Calling
    <2> QED
      BY <1>1, <2>1, <2>2, <2>3 DEF QueueInv, TypeOK
  <1>5. LockHeld'
    BY <1>1, <1>2, <1>3 DEF QueueInv, LockHeld
  <1>6. ASSUME NEW c \in Client
        PROVE  ClientInv(c)'
    <2>1. CASE c \in clients
      BY <2>1, <1>2, <1>3 DEF ClientInv, Holding, Replaying, Calling
    <2>2. CASE c \notin clients
      BY <2>2, <1>1, <1>3, ClientSame, OpsSame DEF QueueInv
    <2> QED
      BY <2>1, <2>2
  <1>7. PostsInv' /\ ItemsInv' /\ CacheInv'
    BY <1>1, LedgerSame, OpsSame DEF QueueInv
  <1> QED
    BY <1>4, <1>5, <1>6, <1>7 DEF QueueInv

-----------------------------------------------------------------------------
(* The invariant                                                           *)

LEMMA QueueInit ==
  ASSUME Init
  PROVE  QueueInv
  <1>1. PICK existing \in SUBSET Item : InitWith(existing)
    BY DEF Init
  <1>2. /\ remote = [i \in Item |-> [live |-> i \in existing, title |-> 0, done |-> 0]]
        /\ cache = remote /\ fresh = Item \ existing /\ ops = <<>> /\ lock = Nobody
        /\ task = [c \in Client |-> Done] /\ posts = <<>> /\ external = 0 /\ faults = 0
    BY <1>1 DEF InitWith
  <1>3. remote \in [Item -> Content] /\ cache \in [Item -> Content]
    BY <1>2 DEF Content, Value, Absent
  <1>4. /\ \A v \in Content : v \in Value
        /\ Done \in TaskState /\ Done.pc = "idle"
        /\ DOMAIN ops = {} /\ DOMAIN posts = {}
    BY <1>2 DEF Content, Done, TaskState
  <1>5. TypeOK
    BY <1>2, <1>3, <1>4 DEF TypeOK
  <1>6. LockHeld /\ \A c \in Client : ClientInv(c)
    BY <1>2, <1>4 DEF LockHeld, ClientInv, Holding, Replaying, Calling
  <1>7. PostsInv /\ CacheInv
    BY <1>2, <1>4 DEF PostsInv, CacheInv
  <1>8. ItemsInv
    BY <1>2, <1>3, <1>4 DEF ItemsInv
  <1> QED
    BY <1>5, <1>6, <1>7, <1>8 DEF QueueInv

LEMMA ContinueInv ==
  ASSUME QueueInv, NEW c \in Client, Continue(c)
  PROVE  QueueInv'
  BY CallProviderInv, FinishRequestInv, FinishReplayInv, SkipBlockedInv,
     SettleLocallyInv, UndiscoveredInv, ReplayInv, EndRecoveryInv, FetchAgendaInv,
     ReplaceAgendaInv, EndSyncInv DEF Continue

LEMMA QueueStutter ==
  ASSUME QueueInv, UNCHANGED vars
  PROVE  QueueInv'
  <1>1. UNCHANGED <<remote, fresh, cache, ops, lock, task, posts, external, faults>>
    BY DEF vars
  <1>2. TypeOK'
    BY <1>1 DEF QueueInv, TypeOK
  <1>3. LockHeld' /\ \A c \in Client : ClientInv(c)'
    BY <1>1, ClientSame, OpsSame DEF QueueInv, LockHeld
  <1>4. PostsInv' /\ ItemsInv' /\ CacheInv'
    BY <1>1, LedgerSame, OpsSame DEF QueueInv
  <1> QED
    BY <1>2, <1>3, <1>4 DEF QueueInv

LEMMA QueueNext ==
  ASSUME QueueInv, [Next]_vars
  PROVE  QueueInv'
  <1>1. ASSUME NEW c \in Client, Request(c)
        PROVE  QueueInv'
    BY <1>1, RequestInv
  <1>2. ASSUME NEW c \in Client, RequestSync(c)
        PROVE  QueueInv'
    <2>1. Account \in SUBSET Account /\ \A a \in Account : {a} \in SUBSET Account
      OBVIOUS
    <2> QED
      BY <1>2, <2>1, BeginRecoveryInv DEF RequestSync
  <1>3. ASSUME NEW c \in Client, Continue(c)
        PROVE  QueueInv'
    BY <1>3, ContinueInv
  <1>4. ASSUME NEW c \in Client, Abort(c)
        PROVE  QueueInv'
    <2>1. {c} \in SUBSET Client
      OBVIOUS
    <2> QED
      BY <1>4, <2>1, StopInv DEF Abort
  <1>5. ASSUME NEW i \in Item, EditElsewhere(i)
        PROVE  QueueInv'
    BY <1>5, EditElsewhereInv
  <1>6. ASSUME NEW k \in DOMAIN ops, BackoffEnds(k)
        PROVE  QueueInv'
    BY <1>6, BackoffEndsInv
  <1>7. CASE Crash
    <2>1. Client \in SUBSET Client
      OBVIOUS
    <2> QED
      BY <1>7, <2>1, StopInv DEF Crash
  <1>8. CASE UNCHANGED vars
    BY <1>8, QueueStutter
  <1> QED
    BY <1>1, <1>2, <1>3, <1>4, <1>5, <1>6, <1>7, <1>8 DEF Next

\* The inductive invariant of the mutation queue.
LEMMA QueueInvariant == Spec => []QueueInv
  <1>1. Init => QueueInv
    BY QueueInit
  <1>2. QueueInv /\ [Next]_vars => QueueInv'
    BY QueueNext
  <1> QED
    BY <1>1, <1>2, PTL DEF Spec

-----------------------------------------------------------------------------
(* Theorems                                                                *)

\* The table of operations, the cache and the workers keep their types.
THEOREM QueueTypeCorrect == Spec => []TypeOK
  <1>1. QueueInv => TypeOK
    BY DEF QueueInv
  <1> QED
    BY <1>1, QueueInvariant, PTL

\* A create request makes at most one item at the provider, whatever answer is
\* lost, whoever disconnects and however often the daemon restarts.
THEOREM CreateMakesOne == Spec => []NoDuplicateCreate
  <1>1. ASSUME QueueInv, NEW k \in DOMAIN posts
        PROVE  Cardinality(posts[k]) <= 1
    <2>1. k \in DOMAIN ops
      BY <1>1 DEF QueueInv, TypeOK
    <2>2. CASE posts[k] = {}
      BY <2>2, FS_EmptySet
    <2>3. CASE \E i \in Item : posts[k] = {i}
      <3>1. PICK i \in Item : posts[k] = {i}
        BY <2>3
      <3>2. Cardinality({i}) = 1
        BY FS_Singleton
      <3> QED
        BY <3>1, <3>2
    <2> QED
      BY <1>1, <2>1, <2>2, <2>3 DEF QueueInv, PostsInv
  <1>2. QueueInv => NoDuplicateCreate
    BY <1>1 DEF NoDuplicateCreate
  <1> QED
    BY <1>2, QueueInvariant, PTL

\* Recovery calls the provider for an operation only when no older one of its
\* account is pending: neither the limit on what it reads, nor an account that
\* waits, nor an answer it defers puts a newer operation first.
THEOREM RecoveryKeepsOrder == Spec => []RecoveryInOrder
  <1>1. QueueInv => RecoveryInOrder
    BY DEF QueueInv, ClientInv, InProgress, Calling, RecoveryInOrder
  <1> QED
    BY <1>1, QueueInvariant, PTL

\* An item whose mutations all succeeded is cached as the provider holds it, when
\* no other program interferes.
THEOREM CacheShowsSucceeded == Spec => []SucceededMeansCached
  <1>1. QueueInv => SucceededMeansCached
    BY DEF QueueInv, CacheInv, Clean, Touches, SucceededMeansCached
  <1> QED
    BY <1>1, QueueInvariant, PTL

\* An item enters the cache only while the provider holds it: neither an answer
\* nor a refresh brings a deleted one back.
THEOREM NothingResurrected == Spec => NoResurrection
  <1> DEFINE Entered == external = 0 =>
               \A i \in Item : ~cache[i].live /\ cache'[i].live => remote[i].live
  <1>1. ASSUME QueueInv, [Next]_vars
        PROVE  Entered
    <2>1. ASSUME NEW c \in Client, task[c].pc = "answered", Accepted(c), Commit(c),
                 external = 0, NEW i \in Item, ~cache[i].live, cache'[i].live
          PROVE  remote[i].live
      <3>1. AnswerTrue(c)
        BY <1>1, <2>1 DEF QueueInv, ClientInv
      <3>2. cache \in [Item -> Value]
        BY <1>1 DEF QueueInv, TypeOK
      <3>3. i = task[c].item /\ task[c].value.live
        BY <2>1, <3>2 DEF Commit
      <3> QED
        BY <2>1, <3>1, <3>3 DEF Accepted, AnswerTrue, Absent
    <2>2. ASSUME NEW c \in Client, ReplaceAgenda(c)
          PROVE  Entered
      <3>1. PageTrue(c)
        BY <1>1, <2>2 DEF ReplaceAgenda, QueueInv, ClientInv
      <3> QED
        BY <2>2, <3>1 DEF ReplaceAgenda, PageTrue
    <2>3. ASSUME NEW c \in Client, FinishRequest(c) \/ FinishReplay(c)
          PROVE  Entered
      <3>1. task[c].pc = "answered" /\ (cache' = cache \/ (Accepted(c) /\ Commit(c)))
        BY <2>3 DEF FinishRequest, FinishReplay, Record, Defer, Fail
      <3> QED
        BY <2>1, <3>1
    <2>4. CASE cache' = cache
      BY <2>4
    <2>5. \/ cache' = cache
          \/ \E c \in Client : ReplaceAgenda(c) \/ FinishRequest(c) \/ FinishReplay(c)
      BY <1>1 DEF Next, Request, RequestCreate, RequestUpdate, RequestComplete,
         RequestDelete, Enqueue, RequestSync, BeginRecovery, Continue, CallProvider,
         SkipBlocked, SettleLocally, Undiscovered, Replay, EndRecovery, FetchAgenda,
         EndSync, Abort, Crash, Stop, EditElsewhere, BackoffEnds, vars
    <2> QED
      BY <2>2, <2>3, <2>4, <2>5
  <1>2. QueueInv /\ [Next]_vars => [Entered]_vars
    BY <1>1
  <1> QED
    BY <1>2, QueueInvariant, PTL DEF Spec, NoResurrection

-----------------------------------------------------------------------------
(* What the table remembers                                                *)

\* A row is never lost, never rewritten, and once it is settled it stays as it is.
Durable ==
    \A k \in DOMAIN ops :
        /\ k \in DOMAIN ops'
        /\ ops'[k].kind = ops[k].kind /\ ops'[k].account = ops[k].account
        /\ ops'[k].item = ops[k].item
        /\ ops'[k].title = ops[k].title /\ ops'[k].done = ops[k].done
        /\ ops[k].state # "pending" => ops'[k].state = ops[k].state

SettledForGood == [][Durable]_vars

LEMMA RowDurable ==
  ASSUME TypeOK, NEW k \in DOMAIN ops, NEW row \in Op,
         row.kind = ops[k].kind, row.account = ops[k].account, row.item = ops[k].item,
         row.title = ops[k].title, row.done = ops[k].done,
         ops[k].state # "pending" => row.state = ops[k].state,
         ops' = [ops EXCEPT ![k] = row]
  PROVE  Durable
  BY OneRow DEF Durable, RowsKept

LEMMA RecentDurable ==
  ASSUME TypeOK, NEW k \in DOMAIN ops, NEW b \in BOOLEAN,
         ops' = [ops EXCEPT ![k].recent = b]
  PROVE  Durable
  <1> DEFINE row == [ops[k] EXCEPT !.recent = b]
  <1>1. /\ row \in Op
        /\ row.kind = ops[k].kind /\ row.account = ops[k].account /\ row.item = ops[k].item
        /\ row.title = ops[k].title /\ row.done = ops[k].done /\ row.state = ops[k].state
    BY RowTyped DEF Op
  <1>2. ops' = [ops EXCEPT ![k] = row]
    BY DEF TypeOK
  <1> HIDE DEF row
  <1> QED
    BY <1>1, <1>2, RowDurable

LEMMA StateDurable ==
  ASSUME TypeOK, NEW k \in DOMAIN ops, ops[k].state = "pending",
         NEW state \in {"succeeded", "failed"},
         ops' = [ops EXCEPT ![k].state = state]
  PROVE  Durable
  <1> DEFINE row == [ops[k] EXCEPT !.state = state]
  <1>1. /\ row \in Op
        /\ row.kind = ops[k].kind /\ row.account = ops[k].account /\ row.item = ops[k].item
        /\ row.title = ops[k].title /\ row.done = ops[k].done
    BY RowTyped DEF Op
  <1>2. ops' = [ops EXCEPT ![k] = row]
    BY DEF TypeOK
  <1> HIDE DEF row
  <1> QED
    BY <1>1, <1>2, RowDurable

LEMMA CommitDurable ==
  ASSUME TypeOK, NEW k \in DOMAIN ops, ops[k].state = "pending",
         ops' = [ops EXCEPT ![k].state = "succeeded", ![k].recent = FALSE]
  PROVE  Durable
  <1> DEFINE row == [ops[k] EXCEPT !.state = "succeeded", !.recent = FALSE]
  <1>1. /\ row \in Op
        /\ row.kind = ops[k].kind /\ row.account = ops[k].account /\ row.item = ops[k].item
        /\ row.title = ops[k].title /\ row.done = ops[k].done
    BY RowTyped DEF Op
  <1>2. ops' = [ops EXCEPT ![k] = row]
    BY DEF TypeOK
  <1> HIDE DEF row
  <1> QED
    BY <1>1, <1>2, RowDurable

\* No row of the operations table is lost or rewritten, whoever disconnects and
\* however often the daemon restarts: what a client asked for stays as it was
\* asked, and an operation that has succeeded or failed is never opened again.
THEOREM OperationsDurable == Spec => SettledForGood
  <1>1. ASSUME QueueInv, [Next]_vars
        PROVE  Durable
    <2>1. CASE ops' = ops
      BY <2>1 DEF Durable
    <2>2. ASSUME NEW c \in Client, NEW op, Enqueue(c, op)
          PROVE  Durable
      <3>1. ops \in Seq(Op) /\ ops' = Append(ops, op)
        BY <1>1, <2>2 DEF QueueInv, TypeOK, Enqueue
      <3> QED
        BY <3>1 DEF Durable
    <2>3. ASSUME NEW c \in Client, FinishRequest(c) \/ FinishReplay(c)
          PROVE  Durable
      <3>1. task[c].pc = "answered" /\ Record(c)
        BY <2>3 DEF FinishRequest, FinishReplay
      <3>2. TypeOK /\ task[c].op \in DOMAIN ops /\ ops[task[c].op].state = "pending"
        BY <1>1, <3>1 DEF QueueInv, ClientInv, InProgress, Calling
      <3> QED
        BY <3>1, <3>2, CommitDurable, RecentDurable, StateDurable
           DEF Record, Commit, Defer, Fail
    <2>4. ASSUME NEW c \in Client, SettleLocally(c)
          PROVE  Durable
      <3> DEFINE state == IF ops[NextOp(c)].kind = "delete" THEN "succeeded" ELSE "failed"
      <3>1. /\ task[c].pc = "recover" /\ task[c].list # {}
            /\ ops' = [ops EXCEPT ![NextOp(c)].state = state]
        BY <2>4 DEF SettleLocally, Due
      <3>2. TypeOK /\ NextOp(c) \in DOMAIN ops /\ ops[NextOp(c)].state = "pending"
        BY <1>1, <3>1, NextTyped DEF QueueInv
      <3>3. state \in {"succeeded", "failed"}
        OBVIOUS
      <3> HIDE DEF state
      <3> QED
        BY <3>1, <3>2, <3>3, StateDurable
    <2>5. ASSUME NEW c \in Client, Undiscovered(c)
          PROVE  Durable
      <3>1. /\ task[c].pc = "recover" /\ task[c].list # {}
            /\ ops' = [ops EXCEPT ![NextOp(c)].recent = TRUE]
        BY <2>5 DEF Undiscovered, Due
      <3>2. TypeOK /\ NextOp(c) \in DOMAIN ops
        BY <1>1, <3>1, NextTyped DEF QueueInv
      <3> QED
        BY <3>1, <3>2, RecentDurable
    <2>6. ASSUME NEW k \in DOMAIN ops, BackoffEnds(k)
          PROVE  Durable
      BY <1>1, <2>6, RecentDurable DEF BackoffEnds, QueueInv
    <2>7. \/ ops' = ops
          \/ \E c \in Client, i \in Item : \E kind, title, done :
               Enqueue(c, NewOp(kind, i, title, done))
          \/ \E c \in Client : FinishRequest(c) \/ FinishReplay(c)
          \/ \E c \in Client : SettleLocally(c) \/ Undiscovered(c)
          \/ \E k \in DOMAIN ops : BackoffEnds(k)
      <3>1. ASSUME NEW c \in Client, Request(c)
            PROVE  \E i \in Item : \E kind, title, done : Enqueue(c, NewOp(kind, i, title, done))
        BY <3>1 DEF Request, RequestCreate, RequestUpdate, RequestComplete, RequestDelete
      <3> QED
        BY <1>1, <3>1 DEF Next, RequestSync, BeginRecovery, Continue, CallProvider,
           SkipBlocked, Replay, EndRecovery, FetchAgenda, ReplaceAgenda, EndSync, Abort,
           Crash, Stop, EditElsewhere, vars
    <2> QED
      BY <2>1, <2>2, <2>3, <2>4, <2>5, <2>6, <2>7
  <1>2. QueueInv /\ [Next]_vars => [Durable]_vars
    BY <1>1
  <1> QED
    BY <1>2, QueueInvariant, PTL DEF Spec, SettledForGood

-----------------------------------------------------------------------------
(* The lock comes back                                                     *)

\* account_mutations is held only by a worker that has yet to give it back: one
\* that awaits the provider, records an answer, recovers or writes a page.
LockUsed == lock # Nobody => lock \in Client /\ task[lock].pc \in Holding

\* One client's worker moves on.
LEMMA LockStep ==
  ASSUME TypeOK, LockUsed, NEW c \in Client, NEW t, task' = [task EXCEPT ![c] = t],
         lock' \in {lock, c, Nobody}, lock' = c => t.pc \in Holding
  PROVE  LockUsed'
  <1>1. task'[c] = t /\ \A d \in Client \ {c} : task'[d] = task[d]
    BY DEF TypeOK
  <1> QED
    BY <1>1 DEF LockUsed

LEMMA ContinueLock ==
  ASSUME QueueInv, LockUsed, NEW c \in Client, Continue(c)
  PROVE  LockUsed'
  <1>0. TypeOK
    BY DEF QueueInv
  <1>1. ASSUME CallProvider(c)
        PROVE  LockUsed'
    <2>1. /\ lock' = lock
          /\ \E i, result, value : Answered(c, i, result, value)
      BY <1>1 DEF CallProvider
    <2>2. PICK i, result, value : Answered(c, i, result, value)
      BY <2>1
    <2> DEFINE t == [pc |-> "answered", op |-> task[c].op, recovering |-> task[c].recovering,
                     list |-> task[c].list, blocked |-> task[c].blocked,
                     scope |-> task[c].scope, result |-> result, item |-> i, value |-> value]
    <2>3. task' = [task EXCEPT ![c] = t]
      BY <2>2, <1>0 DEF Answered, TypeOK
    <2>4. t.pc \in Holding
      BY DEF Holding, Replaying, Calling
    <2> HIDE DEF t
    <2> QED
      BY <1>0, <2>1, <2>3, <2>4, LockStep
  <1>2. ASSUME FinishRequest(c) \/ EndRecovery(c) \/ ReplaceAgenda(c)
        PROVE  LockUsed'
    BY <1>2, ClientAssumption DEF FinishRequest, EndRecovery, ReplaceAgenda, LockUsed
  <1>3. ASSUME NEW t, task' = [task EXCEPT ![c] = t], t.pc \in Holding, lock' = lock
        PROVE  LockUsed'
    BY <1>0, <1>3, LockStep
  <1>4. ASSUME NEW blocked, Advance(c, blocked), lock' = lock
        PROVE  LockUsed'
    <2> DEFINE t == [pc |-> "recover", list |-> task[c].list \ {NextOp(c)},
                     blocked |-> blocked, scope |-> task[c].scope]
    <2>1. task' = [task EXCEPT ![c] = t]
      BY <1>0, <1>4 DEF Advance, TypeOK
    <2>2. t.pc \in Holding
      BY DEF Holding, Replaying
    <2> HIDE DEF t
    <2> QED
      BY <1>4, <2>1, <2>2, <1>3
  <1>5. ASSUME SkipBlocked(c) \/ SettleLocally(c) \/ Undiscovered(c)
        PROVE  LockUsed'
    BY <1>4, <1>5 DEF SkipBlocked, SettleLocally, Undiscovered
  <1>6. ASSUME FinishReplay(c)
        PROVE  LockUsed'
    <2> DEFINE t == [pc |-> "recover", list |-> task[c].list, scope |-> task[c].scope,
                     blocked |-> IF ~Accepted(c) /\ Retryable(c)
                                 THEN task[c].blocked \cup {ops[task[c].op].account}
                                 ELSE task[c].blocked]
    <2>1. task' = [task EXCEPT ![c] = t] /\ lock' = lock
      BY <1>0, <1>6 DEF FinishReplay, TypeOK
    <2>2. t.pc \in Holding
      BY DEF Holding, Replaying
    <2> HIDE DEF t
    <2> QED
      BY <2>1, <2>2, <1>3
  <1>7. ASSUME Replay(c)
        PROVE  LockUsed'
    <2> DEFINE t == [pc |-> "call", op |-> NextOp(c), recovering |-> TRUE,
                     list |-> task[c].list \ {NextOp(c)}, blocked |-> task[c].blocked,
                     scope |-> task[c].scope]
    <2>1. task' = [task EXCEPT ![c] = t] /\ lock' = lock
      BY <1>0, <1>7 DEF Replay, TypeOK
    <2>2. t.pc \in Holding
      BY DEF Holding, Replaying, Calling
    <2> HIDE DEF t
    <2> QED
      BY <2>1, <2>2, <1>3
  <1>8. ASSUME FetchAgenda(c)
        PROVE  LockUsed'
    <2>1. PICK a \in task[c].scope :
            \/ /\ lock' = c
               /\ task' = [task EXCEPT ![c] =
                    [pc |-> "page", scope |-> @.scope \ {a}, account |-> a,
                     items |-> Held(a)]]
            \/ lock' = Nobody
      BY <1>8 DEF FetchAgenda
    <2>2. CASE lock' = Nobody
      BY <2>2 DEF LockUsed
    <2>3. CASE /\ lock' = c
               /\ task' = [task EXCEPT ![c] =
                    [pc |-> "page", scope |-> @.scope \ {a}, account |-> a,
                     items |-> Held(a)]]
      <3>1. task'[c].pc = "page"
        BY <1>0, <2>3 DEF TypeOK
      <3> QED
        BY <2>3, <3>1 DEF LockUsed, Holding
    <2> QED
      BY <2>1, <2>2, <2>3
  <1>9. ASSUME EndSync(c)
        PROVE  LockUsed'
    <2>1. task[c].pc = "sync" /\ lock' = lock /\ task' = [task EXCEPT ![c] = Done]
      BY <1>9 DEF EndSync
    <2>2. lock # c
      BY <2>1, ClientAssumption DEF LockUsed, Holding, Replaying, Calling
    <2> QED
      BY <1>0, <2>1, <2>2, LockStep
  <1> QED
    BY <1>1, <1>2, <1>5, <1>6, <1>7, <1>8, <1>9 DEF Continue

LEMMA StopLock ==
  ASSUME QueueInv, LockUsed, NEW clients \in SUBSET Client, Stop(clients)
  PROVE  LockUsed'
  <1>1. /\ task' = [c \in Client |-> IF c \in clients THEN Done ELSE task[c]]
        /\ lock' = IF lock \in clients THEN Nobody ELSE lock
    BY DEF Stop
  <1> QED
    BY <1>1 DEF LockUsed

LEMMA LockNext ==
  ASSUME QueueInv, LockUsed, [Next]_vars
  PROVE  LockUsed'
  <1>0. TypeOK
    BY DEF QueueInv
  <1>1. ASSUME NEW c \in Client, NEW op, Enqueue(c, op)
        PROVE  LockUsed'
    BY <1>0, <1>1 DEF Enqueue, LockUsed, TypeOK, Holding, Replaying, Calling
  <1>2. ASSUME NEW c \in Client, NEW scope, BeginRecovery(c, scope)
        PROVE  LockUsed'
    BY <1>0, <1>2 DEF BeginRecovery, LockUsed, TypeOK, Holding, Replaying
  <1>3. ASSUME NEW c \in Client, Abort(c)
        PROVE  LockUsed'
    <2>1. {c} \in SUBSET Client
      OBVIOUS
    <2> QED
      BY <1>3, <2>1, StopLock DEF Abort
  <1>4. CASE Crash
    <2>1. Client \in SUBSET Client
      OBVIOUS
    <2> QED
      BY <1>4, <2>1, StopLock DEF Crash
  <1>5. CASE UNCHANGED <<lock, task>>
    BY <1>5 DEF LockUsed
  <1>6. ASSUME NEW c \in Client, Request(c) \/ RequestSync(c)
        PROVE  LockUsed'
    BY <1>1, <1>2, <1>6 DEF Request, RequestCreate, RequestUpdate, RequestComplete,
       RequestDelete, RequestSync
  <1> QED
    BY <1>3, <1>4, <1>5, <1>6, ContinueLock DEF Next, EditElsewhere, BackoffEnds, vars

\* account_mutations is never left locked by a worker that is idle, between two
\* accounts of a sync, or gone: whoever has it is at a step that gives it back,
\* also after a disconnect or a restart in the middle of a provider call.
THEOREM LockComesBack == Spec => []LockUsed
  <1>1. Init => LockUsed
    BY DEF Init, InitWith, LockUsed
  <1>2. QueueInv /\ LockUsed /\ [Next]_vars => LockUsed'
    BY LockNext
  <1> QED
    BY <1>1, <1>2, QueueInvariant, PTL DEF Spec

-----------------------------------------------------------------------------
(* How far a recovery comes                                                *)

Before(j, s) == {k \in DOMAIN ops : k < j /\ ops[k].account \in s}

\* The page of the query could not hold j: as many older operations as it takes
\* were queued for the accounts it asked for.
Crowded(j, s) == RecoveryLimit <= Cardinality(Before(j, s))

Reached(c, j) ==
    \/ j \in task[c].list
    \/ ops[j].account \in task[c].blocked
    \/ task[c].pc \in Calling /\ j = task[c].op
    \/ Crowded(j, task[c].scope)

\* A pending operation is still to be looked at, in progress, of an account that
\* waits, or did not fit into the page.
Reach(c) == task[c].pc \in Replaying => \A j \in Pending(task[c].scope) : Reached(c, j)

\* When a recovery has looked at its list, what it leaves pending is of an account
\* that waits for its backoff, or did not fit into the page.
RecoveryReaches ==
    \A c \in Client :
        task[c].pc = "recover" /\ task[c].list = {} =>
            \A j \in Pending(task[c].scope) :
                ops[j].account \in task[c].blocked \/ Crowded(j, task[c].scope)

\* What the LIMIT cuts off has a page full of older ones before it.
LEMMA CutOff ==
  ASSUME TypeOK, NEW s, NEW j \in Pending(s), j \notin Prefix(Pending(s), RecoveryLimit)
  PROVE  Crowded(j, s)
  <1> DEFINE upTo == {i \in Pending(s) : i <= j}
             older == {i \in Pending(s) : i < j}
  <1>1. Pending(s) \in SUBSET Nat /\ IsFiniteSet(Pending(s)) /\ j \in Nat
    BY PendingFinite
  <1>2. upTo = older \cup {j} /\ j \notin older /\ older \subseteq Pending(s)
    BY <1>1
  <1>3. IsFiniteSet(older)
    BY <1>1, <1>2, FS_Subset
  <1>4. Cardinality(upTo) = Cardinality(older) + 1
    BY <1>2, <1>3, FS_AddElement
  <1>5. Cardinality(older) \in Nat
    BY <1>3, FS_CardinalityType
  <1>6. ~(Cardinality(upTo) <= RecoveryLimit)
    BY DEF Prefix
  <1>7. RecoveryLimit <= Cardinality(older)
    BY <1>4, <1>5, <1>6, BoundAssumption
  <1>8. older \subseteq Before(j, s) /\ Before(j, s) \subseteq DOMAIN ops
    BY DEF Before, Pending
  <1>9. IsFiniteSet(DOMAIN ops)
    <2>1. DOMAIN ops = 1..Len(ops) /\ Len(ops) \in Nat
      BY DEF TypeOK
    <2> QED
      BY <2>1, FS_Interval
  <1>10. IsFiniteSet(Before(j, s))
    BY <1>8, <1>9, FS_Subset
  <1>11. Cardinality(older) <= Cardinality(Before(j, s)) /\ Cardinality(Before(j, s)) \in Nat
    BY <1>8, <1>10, FS_Subset, FS_CardinalityType
  <1> QED
    BY <1>5, <1>7, <1>11, BoundAssumption DEF Crowded

\* A worker that recovers goes on: what it no longer lists is settled, in progress
\* or of an account that waits.
LEMMA ReachStep ==
  ASSUME NEW c \in Client, Reach(c), task[c].pc \in Replaying, RowsKept,
         task'[c].scope = task[c].scope, task[c].blocked \subseteq task'[c].blocked,
         NEW k,
         \A j \in DOMAIN ops : j # k => ops'[j].state = ops[j].state,
         task[c].list \subseteq task'[c].list \cup {k},
         task[c].pc \in Calling /\ task'[c].pc \in Calling => task'[c].op = task[c].op,
         task[c].pc \in Calling /\ task'[c].pc \notin Calling => task[c].op = k,
         k \in DOMAIN ops /\ ops'[k].state = "pending" =>
            \/ ops[k].account \in task'[c].blocked
            \/ task'[c].pc \in Calling /\ k = task'[c].op
            \/ k \in task'[c].list
  PROVE  Reach(c)'
  <1>1. ASSUME NEW j \in Pending(task[c].scope)', task'[c].pc \in Replaying
        PROVE  Reached(c, j)'
    <2>1. j \in DOMAIN ops /\ ops'[j].account = ops[j].account /\ ops'[j].state = "pending"
            /\ ops[j].account \in task[c].scope
      BY <1>1 DEF Pending, RowsKept
    <2>2. CASE j = k
      <3>1. ops'[k].state = "pending" /\ k \in DOMAIN ops /\ ops'[k].account = ops[k].account
        BY <2>1, <2>2
      <3>2. \/ ops[k].account \in task'[c].blocked
            \/ task'[c].pc \in Calling /\ k = task'[c].op
            \/ k \in task'[c].list
        BY <3>1
      <3> QED
        BY <2>2, <3>1, <3>2 DEF Reached
    <2>3. CASE j # k
      <3>1. Reached(c, j)
        BY <2>1, <2>3 DEF Reach, Pending
      <3>2. Before(j, task[c].scope)' = Before(j, task[c].scope)
        BY DEF Before, RowsKept
      <3>3. Crowded(j, task[c].scope) => Crowded(j, task[c].scope)'
        BY <3>2 DEF Crowded
      <3> QED
        BY <2>1, <2>3, <3>1, <3>3 DEF Reached
    <2> QED
      BY <2>2, <2>3
  <1> QED
    BY <1>1 DEF Reach

LEMMA ReachSame ==
  ASSUME TypeOK, NEW c \in Client, Reach(c), Kept, task'[c] = task[c]
  PROVE  Reach(c)'
  <1>1. CASE task[c].pc \in Replaying
    <2>1. RowsKept /\ 0 \notin DOMAIN ops /\ \A j \in DOMAIN ops : ops'[j].state = ops[j].state
      BY DEF Kept, TypeOK
    <2> QED
      BY <1>1, <2>1, ReachStep
  <1>2. CASE task[c].pc \notin Replaying
    BY <1>2 DEF Reach
  <1> QED
    BY <1>1, <1>2

\* While one client holds the lock or takes it, the others recover nothing.
LEMMA ReachOthers ==
  ASSUME LockHeld, NEW c \in Client, lock \in {c, Nobody}, Reach(c)',
         \A d \in Client \ {c} : task'[d] = task[d]
  PROVE  \A d \in Client : Reach(d)'
  <1>1. ASSUME NEW d \in Client, d # c
        PROVE  task'[d].pc \notin Replaying
    BY <1>1, ClientAssumption DEF LockHeld, Holding
  <1> QED
    BY <1>1 DEF Reach

LEMMA AdvanceReach ==
  ASSUME QueueInv, NEW c \in Client, Reach(c), task[c].pc = "recover", task[c].list # {},
         NEW blocked, task[c].blocked \subseteq blocked, Advance(c, blocked), RowsKept,
         \A j \in DOMAIN ops : j # NextOp(c) => ops'[j].state = ops[j].state,
         ops'[NextOp(c)].state = "pending" => ops[NextOp(c)].account \in blocked
  PROVE  Reach(c)'
  <1> DEFINE k == NextOp(c)
             t == [pc |-> "recover", list |-> task[c].list \ {k}, blocked |-> blocked,
                   scope |-> task[c].scope]
  <1>1. task'[c] = t
    BY DEF Advance, QueueInv, TypeOK
  <1>2. /\ task'[c].scope = task[c].scope /\ task'[c].blocked = blocked
        /\ task[c].list \subseteq task'[c].list \cup {k}
        /\ task[c].pc \in Replaying /\ task[c].pc \notin Calling
    BY <1>1 DEF Replaying, Calling
  <1> HIDE DEF k, t
  <1>3. /\ \A j \in DOMAIN ops : j # k => ops'[j].state = ops[j].state
        /\ ops'[k].state = "pending" => ops[k].account \in blocked
    BY DEF k
  <1> QED
    BY <1>2, <1>3, ReachStep

\* Only a step under the lock changes a row or what a recovery has to look at.
LEMMA ContinueOne ==
  ASSUME QueueInv, NEW c \in Client, Continue(c)
  PROVE  /\ \A d \in Client \ {c} : task'[d] = task[d]
         /\ lock \in {c, Nobody} \/ ops' = ops
  <1>0. task = [d \in Client |-> task[d]] /\ LockHeld
    BY DEF QueueInv, TypeOK
  <1>1. ASSUME NEW t, task' = [task EXCEPT ![c] = t]
        PROVE  \A d \in Client \ {c} : task'[d] = task[d]
    BY <1>0, <1>1
  <1>2. \E t : task' = [task EXCEPT ![c] = t]
    <2>1. CASE CallProvider(c)
      BY <2>1 DEF CallProvider, Answered
    <2>2. CASE FetchAgenda(c)
      BY <2>2 DEF FetchAgenda
    <2> QED
      BY <2>1, <2>2 DEF Continue, FinishRequest, FinishReplay, SkipBlocked, SettleLocally,
         Undiscovered, Replay, EndRecovery, ReplaceAgenda, EndSync, Advance
  <1>3. \/ task[c].pc \in Holding
        \/ lock = Nobody
        \/ ops' = ops
    BY DEF Continue, CallProvider, FinishRequest, FinishReplay, SkipBlocked, SettleLocally,
       Undiscovered, Replay, Due, EndRecovery, FetchAgenda, ReplaceAgenda, EndSync,
       Holding, Replaying, Calling
  <1> QED
    BY <1>0, <1>1, <1>2, <1>3 DEF LockHeld

LEMMA ContinueReach ==
  ASSUME QueueInv, NEW c \in Client, Reach(c), Continue(c)
  PROVE  Reach(c)'
  <1>0. TypeOK /\ LockHeld /\ ClientInv(c) /\ 0 \notin DOMAIN ops
    BY DEF QueueInv, TypeOK
  <1>1. ASSUME task'[c].pc \notin Replaying
        PROVE  Reach(c)'
    BY <1>1 DEF Reach
  <1>2. ASSUME FinishRequest(c) \/ EndRecovery(c) \/ FetchAgenda(c) \/ ReplaceAgenda(c)
                 \/ EndSync(c)
        PROVE  Reach(c)'
    <2>1. task'[c].pc \in {"idle", "sync", "page"}
      <3>1. ASSUME FetchAgenda(c)
            PROVE  task'[c].pc \in {"sync", "page"}
        <4>1. task[c].pc = "sync" /\ task[c] \in TaskState
          BY <1>0, <3>1 DEF FetchAgenda, TypeOK
        <4>2. task[c] = [pc |-> "sync", scope |-> task[c].scope]
          BY <4>1 DEF TaskState
        <4>3. PICK a \in task[c].scope :
                \/ task' = [task EXCEPT ![c] =
                     [pc |-> "page", scope |-> @.scope \ {a}, account |-> a,
                      items |-> Held(a)]]
                \/ task' = [task EXCEPT ![c].scope = @ \ {a}]
          BY <3>1 DEF FetchAgenda
        <4>4. CASE task' = [task EXCEPT ![c] =
                     [pc |-> "page", scope |-> @.scope \ {a}, account |-> a,
                      items |-> Held(a)]]
          BY <1>0, <4>4 DEF TypeOK
        <4>5. CASE task' = [task EXCEPT ![c].scope = @ \ {a}]
          BY <1>0, <4>1, <4>2, <4>5 DEF TypeOK
        <4> QED
          BY <4>3, <4>4, <4>5
      <3> QED
        BY <1>0, <1>2, <3>1 DEF FinishRequest, EndRecovery, ReplaceAgenda, EndSync, TypeOK, Done
    <2>2. task'[c].pc \notin Replaying
      BY <2>1 DEF Replaying, Calling
    <2> QED
      BY <1>1, <2>2
  <1>3. ASSUME CallProvider(c)
        PROVE  Reach(c)'
    <2>1. PICK i, result, value : Answered(c, i, result, value)
      BY <1>3 DEF CallProvider
    <2>2. task[c].pc = "call" /\ ops' = ops /\ Kept
      BY <1>3, OpsSame DEF CallProvider
    <2>3. /\ task'[c].pc = "answered" /\ task'[c].op = task[c].op
          /\ task'[c].list = task[c].list /\ task'[c].blocked = task[c].blocked
          /\ task'[c].scope = task[c].scope
      BY <1>0, <2>1 DEF Answered, TypeOK
    <2>4. task[c].pc \in Replaying /\ task'[c].pc \in Calling
      BY <2>2, <2>3 DEF Replaying, Calling
    <2> QED
      BY <1>0, <2>2, <2>3, <2>4, ReachStep DEF Kept
  <1>4. ASSUME FinishReplay(c)
        PROVE  Reach(c)'
    <2> DEFINE k == task[c].op
               blocked == IF ~Accepted(c) /\ Retryable(c)
                          THEN task[c].blocked \cup {ops[k].account} ELSE task[c].blocked
    <2>1. task[c].pc = "answered" /\ Record(c) /\ UNCHANGED <<remote, fresh, posts, external>>
      BY <1>4 DEF FinishReplay
    <2>2. /\ RowsKept
          /\ \A j \in DOMAIN ops : j # k => ops'[j].state = ops[j].state
          /\ ops'[k].state = "pending" => ~Accepted(c) /\ Retryable(c)
      BY <2>1, RecordInv
    <2>3. /\ task'[c].pc = "recover" /\ task'[c].list = task[c].list
          /\ task'[c].scope = task[c].scope /\ task'[c].blocked = blocked
      BY <1>0, <1>4 DEF FinishReplay, TypeOK
    <2>4. /\ task[c].blocked \subseteq blocked
          /\ ops'[k].state = "pending" => ops[k].account \in blocked
      BY <2>2
    <2>5. task[c].pc \in Replaying /\ task'[c].pc \notin Calling
      BY <2>1, <2>3 DEF Replaying, Calling
    <2> HIDE DEF blocked
    <2> QED
      BY <2>2, <2>3, <2>4, <2>5, ReachStep
  <1>5. ASSUME SkipBlocked(c)
        PROVE  Reach(c)'
    <2>1. /\ task[c].pc = "recover" /\ task[c].list # {} /\ Kept
          /\ Advance(c, task[c].blocked \cup {ops[NextOp(c)].account})
      BY <1>5, OpsSame DEF SkipBlocked
    <2> QED
      BY <2>1, AdvanceReach DEF Kept
  <1>6. ASSUME SettleLocally(c)
        PROVE  Reach(c)'
    <2> DEFINE state == IF ops[NextOp(c)].kind = "delete" THEN "succeeded" ELSE "failed"
    <2>1. /\ task[c].pc = "recover" /\ task[c].list # {}
          /\ Advance(c, task[c].blocked)
          /\ ops' = [ops EXCEPT ![NextOp(c)].state = state]
      BY <1>6 DEF SettleLocally, Due
    <2>2. state \in {"succeeded", "failed"} /\ NextOp(c) \in DOMAIN ops
      BY <2>1, NextTyped
    <2> HIDE DEF state
    <2>3. Settled(NextOp(c), state)
      BY <1>0, <2>1, <2>2, SetState
    <2>4. /\ RowsKept
          /\ \A j \in DOMAIN ops : j # NextOp(c) => ops'[j].state = ops[j].state
          /\ ops'[NextOp(c)].state # "pending"
      BY <2>2, <2>3 DEF Settled
    <2> QED
      BY <2>1, <2>4, AdvanceReach
  <1>7. ASSUME Undiscovered(c)
        PROVE  Reach(c)'
    <2>1. /\ task[c].pc = "recover" /\ task[c].list # {}
          /\ Advance(c, task[c].blocked \cup {ops[NextOp(c)].account})
          /\ ops' = [ops EXCEPT ![NextOp(c)].recent = TRUE]
      BY <1>7 DEF Undiscovered, Due
    <2>2. NextOp(c) \in DOMAIN ops
      BY <2>1, NextTyped
    <2>3. Kept
      BY <1>0, <2>1, <2>2, SetRecent
    <2> QED
      BY <2>1, <2>3, AdvanceReach DEF Kept
  <1>8. ASSUME Replay(c)
        PROVE  Reach(c)'
    <2> DEFINE k == NextOp(c)
    <2>1. task[c].pc = "recover" /\ task[c].list # {} /\ ops' = ops /\ Kept
      BY <1>8, OpsSame DEF Replay, Due
    <2>2. /\ task'[c].pc = "call" /\ task'[c].op = k /\ task'[c].list = task[c].list \ {k}
          /\ task'[c].blocked = task[c].blocked /\ task'[c].scope = task[c].scope
      BY <1>0, <1>8 DEF Replay, TypeOK
    <2>3. /\ task[c].pc \in Replaying /\ task[c].pc \notin Calling /\ task'[c].pc \in Calling
          /\ task[c].list \subseteq task'[c].list \cup {k}
      BY <2>1, <2>2 DEF Replaying, Calling
    <2> HIDE DEF k
    <2> QED
      BY <2>1, <2>2, <2>3, ReachStep DEF Kept
  <1> QED
    BY <1>2, <1>3, <1>4, <1>5, <1>6, <1>7, <1>8 DEF Continue

LEMMA ReachNext ==
  ASSUME QueueInv, \A c \in Client : Reach(c), [Next]_vars
  PROVE  \A c \in Client : Reach(c)'
  <1>0. TypeOK /\ LockHeld
    BY DEF QueueInv
  <1>1. ASSUME NEW c \in Client, Request(c)
        PROVE  \A d \in Client : Reach(d)'
    <2>1. PICK op : Ready(c) /\ Enqueue(c, op)
      BY <1>1 DEF Request, RequestCreate, RequestUpdate, RequestComplete, RequestDelete
    <2>2. /\ task'[c].scope = {} /\ \A d \in Client \ {c} : task'[d] = task[d]
      BY <1>0, <2>1 DEF Enqueue, TypeOK
    <2>3. Reach(c)'
      BY <2>2 DEF Reach, Pending
    <2> QED
      BY <1>0, <2>1, <2>2, <2>3, ReachOthers DEF Ready
  <1>2. ASSUME NEW c \in Client, NEW scope \in SUBSET Account, BeginRecovery(c, scope)
        PROVE  \A d \in Client : Reach(d)'
    <2>1. /\ task'[c].list = Prefix(Pending(scope), RecoveryLimit) /\ task'[c].scope = scope
          /\ ops' = ops /\ lock = Nobody /\ \A d \in Client \ {c} : task'[d] = task[d]
      BY <1>0, <1>2 DEF BeginRecovery, Ready, TypeOK
    <2>2. \A j \in Pending(scope) : j \in task'[c].list \/ Crowded(j, scope)
      BY <1>0, <2>1, CutOff
    <2>3. Pending(task[c].scope)' = Pending(scope)
      BY <2>1 DEF Pending
    <2>4. \A j : Crowded(j, scope) => Crowded(j, task[c].scope)'
      BY <2>1 DEF Crowded, Before
    <2>5. Reach(c)'
      BY <2>2, <2>3, <2>4 DEF Reach, Reached
    <2> QED
      BY <1>0, <2>1, <2>5, ReachOthers
  <1>3. ASSUME NEW c \in Client, Continue(c)
        PROVE  \A d \in Client : Reach(d)'
    <2>1. Reach(c)'
      BY <1>3, ContinueReach
    <2>2. /\ \A d \in Client \ {c} : task'[d] = task[d]
          /\ lock \in {c, Nobody} \/ ops' = ops
      BY <1>3, ContinueOne
    <2>3. CASE lock \in {c, Nobody}
      BY <1>0, <2>1, <2>2, <2>3, ReachOthers
    <2>4. CASE ops' = ops
      <3>1. ASSUME NEW d \in Client, d # c
            PROVE  Reach(d)'
        BY <1>0, <2>2, <2>4, <3>1, ReachSame, OpsSame
      <3> QED
        BY <2>1, <3>1
    <2> QED
      BY <2>2, <2>3, <2>4
  <1>4. ASSUME NEW clients \in SUBSET Client, Stop(clients)
        PROVE  \A d \in Client : Reach(d)'
    <2>1. /\ \A d \in Client : task'[d] = IF d \in clients THEN Done ELSE task[d]
          /\ ops' = ops
      BY <1>4 DEF Stop
    <2>2. ASSUME NEW d \in Client
          PROVE  Reach(d)'
      <3>1. CASE d \in clients
        BY <2>1, <3>1 DEF Reach, Done, Replaying, Calling
      <3>2. CASE d \notin clients
        BY <1>0, <2>1, <3>2, ReachSame, OpsSame
      <3> QED
        BY <3>1, <3>2
    <2> QED
      BY <2>2
  <1>5. ASSUME Kept, task' = task
        PROVE  \A d \in Client : Reach(d)'
    BY <1>0, <1>5, ReachSame
  <1>6. ASSUME NEW k \in DOMAIN ops, BackoffEnds(k)
        PROVE  Kept /\ task' = task
    BY <1>0, <1>6, SetRecent DEF BackoffEnds
  <1>7. ASSUME NEW c \in Client, RequestSync(c)
        PROVE  \A d \in Client : Reach(d)'
    <2>1. Account \in SUBSET Account /\ \A a \in Account : {a} \in SUBSET Account
      OBVIOUS
    <2> QED
      BY <1>2, <1>7, <2>1 DEF RequestSync
  <1>8. ASSUME NEW c \in Client, Abort(c) \/ Crash
        PROVE  \A d \in Client : Reach(d)'
    <2>1. Client \in SUBSET Client /\ {c} \in SUBSET Client
      OBVIOUS
    <2> QED
      BY <1>4, <1>8, <2>1 DEF Abort, Crash
  <1>9. CASE UNCHANGED vars
    BY <1>5, <1>9, OpsSame DEF vars
  <1>10. ASSUME NEW i \in Item, EditElsewhere(i)
         PROVE  Kept /\ task' = task
    BY <1>10, OpsSame DEF EditElsewhere
  <1>11. ASSUME Crash
         PROVE  \A d \in Client : Reach(d)'
    BY <1>8, <1>11
  <1> QED
    BY <1>1, <1>3, <1>5, <1>6, <1>7, <1>8, <1>9, <1>10, <1>11 DEF Next

\* A recovery that has looked at everything it read leaves an operation of its
\* accounts pending only when that account has to wait, or when a page full of
\* older operations was queued before it: no answer, no account that keeps failing
\* and no change in between makes it pass over another.
THEOREM RecoveryComplete == Spec => []RecoveryReaches
  <1> DEFINE AllReach == \A c \in Client : Reach(c)
  <1>1. Init => AllReach
    BY DEF Init, InitWith, Reach, Done, Replaying, Calling
  <1>2. QueueInv /\ AllReach /\ [Next]_vars => AllReach'
    BY ReachNext
  <1>3. AllReach => RecoveryReaches
    BY DEF Reach, Reached, RecoveryReaches, Replaying, Calling
  <1> HIDE DEF AllReach
  <1> QED
    BY <1>1, <1>2, <1>3, QueueInvariant, PTL DEF Spec

=============================================================================
