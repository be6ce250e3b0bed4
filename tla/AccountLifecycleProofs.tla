----------------------- MODULE AccountLifecycleProofs -----------------------
(***************************************************************************)
(* Proofs about AccountLifecycle, for any accounts, frontends and bounds:  *)
(* an online account is set up once, one pass at a time works on an        *)
(* account, nothing of a removed account comes back, and what a request    *)
(* takes (the lock, the mark, a provider) it gives back.                   *)
(***************************************************************************)
EXTENDS AccountLifecycle, FiniteSetTheorems, WellFoundedInduction, TLAPS

USE OrderAssumption, ClientAssumption, BoundAssumption

-----------------------------------------------------------------------------
(* The inductive invariant                                                 *)

Adding == {"create", "created", "registered"}

Removing == {"purge", "secrets", "row"}

Reauthorizing == {"reauth", "reauthorized"}

Locking == Adding \cup Removing

Requesting == Locking \cup Reauthorizing \cup {"download"}

Passing == {"list", "inbox", "schedule"}

Syncing == Passing \cup {"visit"}

Rows == {a \in Account : auth[a] # "absent"}

\* A request between two steps of accounts.add or accounts.remove holds the lock,
\* and the provider it has in hand has been constructed.
TaskInv ==
    \A c \in Client :
        /\ task[c].pc \in Locking => lock = c
        /\ task[c].pc \in Requesting => task[c].provider <= instances
        /\ task[c].pc \in Passing => task[c].todo # {}

\* An account that is being added is new, and no other has its address; ids are
\* not given out again.
AddInv ==
    /\ Rows \subseteq used
    /\ OneAccountPerAddress
    /\ \A c \in Client :
         /\ task[c].pc \in Adding => task[c].account \in used \ deleted
         /\ task[c].pc \in {"create", "created"} /\ task[c].account \in Brokered =>
              \A b \in Brokered : SameAddress(task[c].account, b) => b \notin Rows

\* An account that a pass works on is marked, and there is one pass.
PassInv ==
    \A a \in Account :
        /\ Len(background[a]) <= 1
        /\ background[a] # <<>> => a \in syncing
        /\ \A c \in Client : SyncsNow(c, a) =>
             /\ a \in syncing
             /\ background[a] = <<>>
             /\ \A d \in Client : SyncsNow(d, a) => d = c

LifeInv == TypeOK /\ TaskInv /\ AddInv /\ PassInv

\* What is gone is gone from every place, a removal in progress has taken the
\* provider out and does not give back that of an account that is gone, and no
\* other request has one in hand that could be taken for a live one.
GoneInv ==
    /\ \A a \in deleted :
         a \notin Rows /\ a \notin secrets /\ a \notin files /\ providers[a] = 0
    /\ \A c \in Client :
         /\ task[c].pc \in Removing =>
              /\ providers[task[c].account] = 0
              /\ task[c].account \in deleted => task[c].provider = 0
         /\ task[c].pc \in {"secrets", "row"} => files = {}
         /\ task[c].pc = "row" => task[c].account \notin secrets
         /\ task[c].pc \in Reauthorizing => task[c].account \notin deleted
         /\ task[c].pc = "download" => task[c].provider # 0

-----------------------------------------------------------------------------
(* The order of a synchronisation                                          *)

Less == {ss \in Nat \X Nat : ss[1] < ss[2]}

LEMMA LessWellFounded == IsWellFoundedOn(Less, Nat)
  BY NatLessThanWellFounded DEF OpToRel, Less

LEMMA LeastNatural ==
  ASSUME NEW s \in SUBSET Nat, s # {}
  PROVE  \E k \in s : \A j \in s : k <= j
  <1>1. PICK k \in s : \A j \in s : ~ (<<j, k>> \in Less)
    BY LessWellFounded, WFMin
  <1>2. ASSUME NEW j \in s, j < k
        PROVE  FALSE
    <2>1. <<j, k>> \in Nat \X Nat
      BY DEF Less
    <2>2. <<j, k>> \in Less
      BY <2>1, <1>2 DEF Less
    <2> QED
      BY <1>1, <2>2
  <1> QED
    BY <1>2

\* There is an account to visit as long as some are left.
LEMMA FirstIsOne ==
  ASSUME NEW s \in SUBSET Account, s # {}
  PROVE  First(s) \in s
  <1>1. \A a \in Account : Rank(a) \in Nat
    BY OrderAssumption DEF Rank
  <1> DEFINE ranks == {Rank(a) : a \in s}
  <1>2. ranks \in SUBSET Nat /\ ranks # {}
    BY <1>1
  <1>3. PICK k \in ranks : \A j \in ranks : k <= j
    BY <1>2, LeastNatural
  <1>4. PICK a \in s : Rank(a) = k
    BY <1>3
  <1>5. \A b \in s : Rank(a) <= Rank(b)
    BY <1>3, <1>4
  <1> QED
    BY <1>5 DEF First

-----------------------------------------------------------------------------
(* What the frontends' requests are doing                                  *)

TaskState == {Done} \cup AccountTask \cup SyncTask

LEMMA TaskTyped ==
  ASSUME TypeOK, NEW c \in Client
  PROVE  /\ task[c] \in TaskState
         /\ task[c].pc \in {"idle"} \cup Requesting \cup Syncing
         /\ task[c].pc \in Requesting =>
              /\ task[c] \in AccountTask
              /\ task[c].account \in Account
              /\ task[c].provider \in Nat
         /\ task[c].pc \in Syncing =>
              /\ task[c] \in SyncTask
              /\ task[c].todo \in SUBSET Account
  <1>1. task[c] \in TaskState
    BY DEF TypeOK, TaskState
  <1>2. task[c].pc \in {"idle"} \cup Requesting \cup Syncing
    BY <1>1 DEF TaskState, Done, AccountTask, SyncTask, Requesting, Locking, Adding,
       Removing, Reauthorizing, Syncing, Passing
  <1>3. ASSUME task[c].pc \in Requesting
        PROVE  /\ task[c] \in AccountTask
               /\ task[c].account \in Account
               /\ task[c].provider \in Nat
    BY <1>1, <1>3 DEF TaskState, Done, AccountTask, SyncTask, Requesting, Locking, Adding,
       Removing, Reauthorizing
  <1>4. ASSUME task[c].pc \in Syncing
        PROVE  /\ task[c] \in SyncTask
               /\ task[c].todo \in SUBSET Account
    BY <1>1, <1>4 DEF TaskState, Done, AccountTask, SyncTask, Syncing, Passing
  <1> QED
    BY <1>1, <1>2, <1>3, <1>4

LEMMA VisitedTyped ==
  ASSUME TypeOK, TaskInv, NEW c \in Client,
         \/ task[c].pc \in Passing
         \/ task[c].pc = "visit" /\ task[c].todo # {}
  PROVE  Visited(c) \in task[c].todo /\ Visited(c) \in Account
  <1>1. task[c].todo # {} /\ task[c].todo \in SUBSET Account
    BY TaskTyped DEF TaskInv, Syncing
  <1> QED
    BY <1>1, FirstIsOne DEF Visited

\* A request goes on with what it has in hand.
LEMMA GoesTyped ==
  ASSUME TypeOK, NEW c \in Client, NEW pc, Goes(c, pc)
  PROVE  /\ \A d \in Client : d # c => task'[d] = task[d]
         /\ task[c].pc \in Requesting /\ pc \in Requesting =>
              /\ task' \in [Client -> TaskState]
              /\ task'[c].pc = pc
              /\ task'[c].account = task[c].account
              /\ task'[c].provider = task[c].provider
         /\ task[c].pc \in Syncing /\ pc \in Syncing =>
              /\ task' \in [Client -> TaskState]
              /\ task'[c].pc = pc
              /\ task'[c].todo = task[c].todo
  <1> DEFINE t == [task[c] EXCEPT !.pc = pc]
  <1>1. task' = [task EXCEPT ![c] = t]
    BY DEF Goes, TypeOK
  <1>2. task \in [Client -> TaskState]
    BY DEF TypeOK, TaskState
  <1>3. ASSUME task[c].pc \in Requesting, pc \in Requesting
        PROVE  t \in AccountTask /\ t.pc = pc /\ t.account = task[c].account
                 /\ t.provider = task[c].provider
    <2>1. task[c] \in AccountTask
      BY <1>3, TaskTyped
    <2> QED
      BY <1>3, <2>1 DEF AccountTask, Requesting, Locking, Adding, Removing, Reauthorizing
  <1>4. ASSUME task[c].pc \in Syncing, pc \in Syncing
        PROVE  t \in SyncTask /\ t.pc = pc /\ t.todo = task[c].todo
    <2>1. task[c] \in SyncTask
      BY <1>4, TaskTyped
    <2> QED
      BY <1>4, <2>1 DEF SyncTask, Syncing, Passing
  <1> HIDE DEF t
  <1> QED
    BY <1>1, <1>2, <1>3, <1>4 DEF TaskState

\* A request is done, or a frontend turns to another.
LEMMA SetTyped ==
  ASSUME TypeOK, NEW c \in Client, NEW t \in TaskState, task' = [task EXCEPT ![c] = t]
  PROVE  /\ \A d \in Client : d # c => task'[d] = task[d]
         /\ task' \in [Client -> TaskState]
         /\ task'[c] = t
  BY DEF TypeOK, TaskState

-----------------------------------------------------------------------------
(* What one frontend's step leaves of the invariant                        *)

Others(c) == \A d \in Client : d # c => task'[d] = task[d]

LEMMA TaskKept ==
  ASSUME TypeOK, TaskInv, NEW c \in Client, Others(c),
         instances' \in {instances, instances + 1},
         lock' = lock \/ (lock \in {c, Nobody} /\ lock' \in {c, Nobody}),
         task'[c].pc \in Locking => lock' = c,
         task'[c].pc \in Requesting => task'[c].provider <= instances',
         task'[c].pc \in Passing => task'[c].todo # {}
  PROVE  TaskInv'
  <1>1. ASSUME NEW d \in Client, d # c
        PROVE  /\ task[d].pc \in Locking => lock' = d
               /\ task[d].pc \in Requesting => task[d].provider <= instances'
               /\ task[d].pc \in Passing => task[d].todo # {}
    <2>1. task[d].pc \in Locking => lock' = d
      BY <1>1, ClientAssumption DEF TaskInv
    <2>2. ASSUME task[d].pc \in Requesting
          PROVE  task[d].provider <= instances'
      <3>1. task[d].provider \in Nat /\ task[d].provider <= instances /\ instances \in Nat
        BY <2>2, TaskTyped DEF TaskInv, TypeOK
      <3> QED
        BY <3>1
    <2> QED
      BY <2>1, <2>2 DEF TaskInv
  <1>2. ASSUME NEW d \in Client
        PROVE  /\ task'[d].pc \in Locking => lock' = d
               /\ task'[d].pc \in Requesting => task'[d].provider <= instances'
               /\ task'[d].pc \in Passing => task'[d].todo # {}
    BY <1>1 DEF Others
  <1> QED
    BY <1>2 DEF TaskInv

\* No row comes or goes, and no account is being added that was not.
LEMMA AddKept ==
  ASSUME AddInv, NEW c \in Client, Others(c), Rows' = Rows,
         used' = used, deleted' = deleted,
         task'[c].pc \in Adding =>
           /\ task[c].pc \in Adding
           /\ task'[c].account = task[c].account
           /\ task'[c].pc = "registered" \/ task[c].pc \in {"create", "created"}
  PROVE  AddInv'
  <1>1. OneAccountPerAddress'
    <2>1. \A b \in Brokered : auth'[b] # "absent" <=> auth[b] # "absent"
      BY OrderAssumption DEF Rows
    <2> QED
      BY <2>1 DEF AddInv, OneAccountPerAddress, SameAddress
  <1>2. ASSUME NEW d \in Client
        PROVE  /\ task'[d].pc \in Adding => task'[d].account \in used \ deleted
               /\ task'[d].pc \in {"create", "created"} /\ task'[d].account \in Brokered =>
                    \A b \in Brokered : SameAddress(task'[d].account, b) => b \notin Rows
    <2>1. CASE d = c
      BY <2>1 DEF AddInv, Adding
    <2>2. CASE d # c
      BY <2>2 DEF AddInv, Others
    <2> QED
      BY <2>1, <2>2
  <1> QED
    BY <1>1, <1>2 DEF AddInv, SameAddress

\* The frontend is in no pass after its step, and was in none before or is in it
\* still.
LEMMA PassKept ==
  ASSUME PassInv, NEW c \in Client, Others(c), UNCHANGED <<syncing, background>>,
         task'[c].pc \in Passing => task[c].pc \in Passing /\ task'[c].todo = task[c].todo
  PROVE  PassInv'
  <1>1. \A d \in Client, a \in Account : SyncsNow(d, a)' => SyncsNow(d, a)
    BY DEF SyncsNow, Visited, Others, Passing
  <1> QED
    BY <1>1 DEF PassInv

\* A pass is given up or over: the account is no longer marked.
LEMMA PassEnds ==
  ASSUME TypeOK, TaskInv, PassInv, NEW c \in Client, Others(c),
         task[c].pc \in Passing, task'[c].pc \notin Passing,
         syncing' = syncing \ {Visited(c)}, background' = background
  PROVE  PassInv'
  <1>1. Visited(c) \in Account
    BY VisitedTyped
  <1>2. SyncsNow(c, Visited(c))
    BY DEF SyncsNow, Passing
  <1>3. \A d \in Client, a \in Account : SyncsNow(d, a)' => d # c /\ SyncsNow(d, a)
    BY DEF SyncsNow, Visited, Others, Passing
  <1>4. ASSUME NEW a \in Account
        PROVE  /\ Len(background[a]) <= 1
               /\ background[a] # <<>> => a \in syncing /\ a # Visited(c)
               /\ \A d \in Client : SyncsNow(d, a)' =>
                    /\ a \in syncing /\ a # Visited(c)
                    /\ background[a] = <<>>
                    /\ \A e \in Client : SyncsNow(e, a)' => e = d
    BY <1>1, <1>2, <1>3 DEF PassInv
  <1> QED
    BY <1>4 DEF PassInv

\* A step that is about no row, no id and no pass.
LEMMA LifeKept ==
  ASSUME LifeInv, NEW c \in Client, Others(c), TypeOK', Rows' = Rows,
         UNCHANGED <<used, deleted, syncing, background>>,
         instances' \in {instances, instances + 1},
         lock' = lock \/ (lock \in {c, Nobody} /\ lock' \in {c, Nobody}),
         task'[c].pc \in Locking => lock' = c,
         task'[c].pc \in Requesting => task'[c].provider <= instances',
         task'[c].pc \in Passing =>
           task[c].pc \in Passing /\ task'[c].todo = task[c].todo,
         task'[c].pc \in Adding =>
           /\ task[c].pc \in Adding
           /\ task'[c].account = task[c].account
           /\ task'[c].pc = "registered" \/ task[c].pc \in {"create", "created"}
  PROVE  LifeInv'
  <1>1. task'[c].pc \in Passing => task'[c].todo # {}
    BY DEF LifeInv, TaskInv
  <1>2. TaskInv'
    BY <1>1, TaskKept DEF LifeInv
  <1>3. AddInv'
    BY AddKept DEF LifeInv
  <1>4. PassInv'
    BY PassKept DEF LifeInv
  <1> QED
    BY <1>2, <1>3, <1>4 DEF LifeInv

\* The types of what changed; the rest keeps its own.
LEMMA TypeKept ==
  ASSUME TypeOK, task' \in [Client -> TaskState],
         \/ auth' = auth /\ mail' = mail
         \/ /\ auth' \in [Account -> {"absent", "ready", "needs_auth", "error"}]
            /\ mail' \subseteq Rows',
         secrets' = secrets \/ secrets' \subseteq Account \ Brokered,
         files' = files \/ files' \subseteq Account,
         \/ providers' = providers /\ instances' = instances
         \/ instances' \in Nat /\ providers' \in [Account -> 0..instances'],
         removed' = removed \/ removed' \subseteq Account,
         syncing' = syncing \/ syncing' \subseteq Account,
         background' = background \/ background' \in [Account -> Seq({"page", "close"})],
         lock' = lock \/ lock' \in Client \cup {Nobody},
         \/ used' = used /\ deleted' = deleted
         \/ used' \subseteq Account /\ deleted' \subseteq used',
         requests' = requests \/ requests' = requests + 1,
         faults' = faults \/ faults' = faults + 1,
         aborts' = aborts \/ aborts' = aborts + 1
  PROVE  TypeOK'
  <1>1. requests' \in Nat /\ faults' \in Nat /\ aborts' \in Nat
    <2>1. requests \in Nat /\ faults \in Nat /\ aborts \in Nat
      BY Zenon DEF TypeOK
    <2>2. requests' \in Nat
      BY <2>1
    <2>3. faults' \in Nat
      BY <2>1
    <2>4. aborts' \in Nat
      BY <2>1
    <2> QED
      BY <2>2, <2>3, <2>4
  <1>2. /\ auth' \in [Account -> {"absent", "ready", "needs_auth", "error"}]
        /\ mail' \subseteq {a \in Account : auth'[a] # "absent"}
    BY DEF TypeOK, Rows
  <1>3. providers' \in [Account -> 0..instances'] /\ instances' \in Nat
    BY DEF TypeOK
  <1>4. used' \subseteq Account /\ deleted' \subseteq used'
    BY DEF TypeOK
  <1>5. secrets' \subseteq Account \ Brokered /\ files' \subseteq Account
    BY DEF TypeOK
  <1>6. removed' \subseteq Account /\ syncing' \subseteq Account
    BY DEF TypeOK
  <1>7. background' \in [Account -> Seq({"page", "close"})] /\ lock' \in Client \cup {Nobody}
    BY DEF TypeOK
  <1> QED
    BY <1>1, <1>2, <1>3, <1>4, <1>5, <1>6, <1>7 DEF TypeOK, TaskState

-----------------------------------------------------------------------------
(* accounts.add                                                            *)

LEMMA DoneTyped ==
  /\ Done \in TaskState /\ Done.pc = "idle"
  /\ Done.pc \notin Locking \cup Requesting \cup Passing \cup Adding
  BY DEF Done, TaskState, Requesting, Locking, Adding, Removing, Reauthorizing, Passing

LEMMA RequestAddLife ==
  ASSUME LifeInv, NEW c \in Client, NEW a \in Account, RequestAdd(c, a)
  PROVE  LifeInv'
  <1>1. /\ lock = Nobody /\ a \notin used /\ requests' = requests + 1
        /\ UNCHANGED <<tableVars, memoryVars, deleted, instances, faults, aborts>>
    BY DEF RequestAdd, Begins
  <1>2. Rows' = Rows
    BY <1>1 DEF Rows, tableVars
  <1>3. CASE Existing(a) /\ Begins(c, Done) /\ UNCHANGED <<lock, used>>
    <2>1. task' = [task EXCEPT ![c] = Done]
      BY <1>3 DEF Begins
    <2>2. /\ Others(c) /\ task' \in [Client -> TaskState] /\ task'[c] = Done
      BY <2>1, DoneTyped, SetTyped DEF LifeInv, Others
    <2>3. TypeOK'
      BY <1>1, <1>3, <2>2, TypeKept DEF LifeInv, tableVars, memoryVars
    <2> QED
      BY <1>1, <1>2, <1>3, <2>2, <2>3, DoneTyped, LifeKept DEF memoryVars
  <1>4. CASE /\ ~Existing(a) /\ lock' = c /\ used' = used \cup {a}
             /\ Begins(c, [pc |-> "create", account |-> a, provider |-> 0])
    <2> DEFINE t == [pc |-> "create", account |-> a, provider |-> 0]
    <2>1. task' = [task EXCEPT ![c] = t]
      BY <1>4 DEF Begins
    <2>2. /\ t \in TaskState /\ t.pc = "create" /\ t.account = a /\ t.provider = 0
      BY DEF TaskState, AccountTask
    <2>3. t.pc \in Locking /\ t.pc \notin Passing
      BY <2>2 DEF Locking, Adding, Passing
    <2> HIDE DEF t
    <2>4. Others(c) /\ task' \in [Client -> TaskState] /\ task'[c] = t
      BY <2>1, <2>2, SetTyped DEF LifeInv, Others
    <2>5. TypeOK'
      <3>1. used' \subseteq Account /\ deleted' \subseteq used'
        BY <1>1, <1>4 DEF LifeInv, TypeOK
      <3> QED
        BY <1>1, <1>4, <2>4, <3>1, TypeKept DEF LifeInv, tableVars, memoryVars
    <2>6. TaskInv'
      <3>1. instances \in Nat
        BY DEF LifeInv, TypeOK
      <3> QED
        BY <1>1, <1>4, <2>2, <2>3, <2>4, <3>1, TaskKept DEF LifeInv
    <2>7. AddInv'
      <3>1. a \notin deleted
        BY <1>1 DEF LifeInv, TypeOK
      <3>2. \A b \in Brokered : auth'[b] = auth[b]
        BY <1>1 DEF tableVars
      <3>3. OneAccountPerAddress'
        BY <3>2 DEF LifeInv, AddInv, OneAccountPerAddress, SameAddress
      <3>4. a \in Brokered => \A b \in Brokered : SameAddress(a, b) => b \notin Rows
        BY <1>4 DEF Existing, Rows
      <3>5. ASSUME NEW d \in Client
            PROVE  /\ task'[d].pc \in Adding => task'[d].account \in used' \ deleted
                   /\ task'[d].pc \in {"create", "created"} /\ task'[d].account \in Brokered =>
                        \A b \in Brokered : SameAddress(task'[d].account, b) => b \notin Rows
        <4>1. CASE d = c
          BY <4>1, <1>4, <2>2, <2>4, <3>1, <3>4
        <4>2. CASE d # c
          BY <4>2, <1>4, <2>4 DEF LifeInv, AddInv, Others
        <4> QED
          BY <4>1, <4>2
      <3> QED
        BY <1>1, <1>2, <1>4, <3>3, <3>5 DEF LifeInv, AddInv, SameAddress
    <2>8. PassInv'
      BY <1>1, <2>3, <2>4, PassKept DEF LifeInv, memoryVars
    <2> QED
      BY <2>5, <2>6, <2>7, <2>8 DEF LifeInv
  <1> QED
    BY <1>3, <1>4 DEF RequestAdd

LEMMA CreateProviderLife ==
  ASSUME LifeInv, NEW c \in Client, CreateProvider(c)
  PROVE  LifeInv'
  <1> DEFINE a == task[c].account
             stored == secrets \cup ({a} \ Brokered)
  <1>1. /\ task[c].pc = "create"
        /\ UNCHANGED <<auth, mail, files, memoryVars, used, deleted, requests, aborts>>
    BY DEF CreateProvider
  <1>2. task[c].pc \in Requesting /\ task[c].pc \in Locking /\ task[c].pc \in Adding
    BY <1>1 DEF Requesting, Locking, Adding
  <1>3. a \in Account /\ lock = c
    BY <1>2, TaskTyped DEF LifeInv, TaskInv
  <1>4. Rows' = Rows
    BY <1>1 DEF Rows
  <1>5. secrets \subseteq Account \ Brokered /\ stored \subseteq Account \ Brokered
    BY <1>3 DEF LifeInv, TypeOK
  <1>6. CASE /\ instances' = instances + 1
             /\ secrets' = stored
             /\ task' = [task EXCEPT ![c] =
                  [pc |-> "created", account |-> @.account, provider |-> instances + 1]]
             /\ UNCHANGED <<lock, faults>>
    <2> DEFINE t == [pc |-> "created", account |-> a, provider |-> instances + 1]
    <2>1. instances \in Nat
      BY DEF LifeInv, TypeOK
    <2>2. /\ t \in TaskState /\ t.pc = "created" /\ t.account = a
          /\ t.provider = instances + 1
      BY <1>3, <2>1 DEF TaskState, AccountTask
    <2>3. task' = [task EXCEPT ![c] = t]
      BY <1>6 DEF LifeInv, TypeOK
    <2> HIDE DEF t
    <2>4. Others(c) /\ task' \in [Client -> TaskState] /\ task'[c] = t
      BY <2>2, <2>3, SetTyped DEF LifeInv, Others
    <2>5. providers' \in [Account -> 0..instances'] /\ instances' \in Nat
      BY <1>1, <1>6 DEF LifeInv, TypeOK, memoryVars
    <2>6. TypeOK'
      BY <1>1, <1>5, <1>6, <2>4, <2>5, TypeKept DEF LifeInv, memoryVars
    <2>7. task'[c].pc \notin Passing /\ task'[c].provider <= instances'
      BY <2>1, <2>2, <2>4, <1>6 DEF Passing
    <2> QED
      BY <1>1, <1>2, <1>3, <1>4, <1>6, <2>2, <2>4, <2>6, <2>7, LifeKept DEF memoryVars
  <1>7. CASE Fails /\ secrets' \in {secrets, stored} /\ EndsUnlocking(c) /\ UNCHANGED instances
    <2>1. task' = [task EXCEPT ![c] = Done] /\ lock' = Nobody
      BY <1>7 DEF EndsUnlocking, Ends
    <2>2. Others(c) /\ task' \in [Client -> TaskState] /\ task'[c] = Done
      BY <2>1, DoneTyped, SetTyped DEF LifeInv, Others
    <2>4. TypeOK'
      BY <1>1, <1>5, <1>7, <2>1, <2>2, TypeKept DEF LifeInv, Fails, memoryVars
    <2> QED
      BY <1>1, <1>3, <1>4, <1>7, <2>1, <2>2, <2>4, DoneTyped, LifeKept DEF memoryVars
  <1> QED
    BY <1>6, <1>7 DEF CreateProvider

LEMMA EndsTyped ==
  ASSUME TypeOK, NEW c \in Client, Ends(c)
  PROVE  /\ Others(c) /\ task' \in [Client -> TaskState] /\ task'[c] = Done
  BY DoneTyped, SetTyped DEF Ends, Others

LEMMA RegisterAccountLife ==
  ASSUME LifeInv, NEW c \in Client, RegisterAccount(c)
  PROVE  LifeInv'
  <1> DEFINE a == task[c].account
  <1>1. /\ task[c].pc = "created" /\ removed' = removed \ {a}
        /\ UNCHANGED <<mail, secrets, files, providers, syncing, background, used, deleted,
                       instances, requests, aborts>>
    BY DEF RegisterAccount
  <1>2. task[c].pc \in Requesting /\ task[c].pc \in Locking /\ task[c].pc \in Adding
    BY <1>1 DEF Requesting, Locking, Adding
  <1>3. /\ a \in Account /\ lock = c /\ a \in used \ deleted /\ removed' \subseteq Account
        /\ task[c].provider <= instances
    BY <1>1, <1>2, TaskTyped DEF LifeInv, TaskInv, AddInv, TypeOK
  <1>4. CASE auth' = [auth EXCEPT ![a] = "ready"] /\ Goes(c, "registered") /\ UNCHANGED <<lock, faults>>
    <2>1. /\ Others(c) /\ task' \in [Client -> TaskState]
          /\ task'[c].pc = "registered" /\ task'[c].account = a
          /\ task'[c].provider = task[c].provider
      <3>1. "registered" \in Requesting
        BY DEF Requesting, Locking, Adding
      <3> QED
        BY <1>2, <1>4, <3>1, GoesTyped DEF LifeInv, Others
    <2>2. /\ auth' \in [Account -> {"absent", "ready", "needs_auth", "error"}]
          /\ Rows' = Rows \cup {a}
      BY <1>3, <1>4 DEF LifeInv, TypeOK, Rows
    <2>3. mail' \subseteq Rows'
      BY <1>1, <2>2 DEF LifeInv, TypeOK, Rows
    <2>4. TypeOK'
      BY <1>1, <1>3, <1>4, <2>1, <2>2, <2>3, TypeKept DEF LifeInv
    <2>5. task'[c].pc \in Locking /\ task'[c].pc \notin Passing
      BY <2>1 DEF Locking, Adding, Passing
    <2>6. TaskInv'
      BY <1>1, <1>3, <1>4, <2>1, <2>5, TaskKept DEF LifeInv
    <2>7. AddInv'
      <3>1. \A b \in Brokered : b \in Rows' => b \in Rows \/ b = a
        BY <2>2
      <3>2. a \in Brokered => \A b \in Brokered : SameAddress(a, b) => b \notin Rows
        BY <1>1 DEF LifeInv, AddInv
      <3>3. \A b \in Brokered : (b \in Rows <=> auth[b] # "absent") /\ (b \in Rows' <=> auth'[b] # "absent")
        BY OrderAssumption DEF Rows
      <3>4. OneAccountPerAddress'
        BY <3>1, <3>2, <3>3 DEF LifeInv, AddInv, OneAccountPerAddress, SameAddress
      <3>5. ASSUME NEW d \in Client
            PROVE  /\ task'[d].pc \in Adding => task'[d].account \in used \ deleted
                   /\ task'[d].pc \notin {"create", "created"}
        <4>1. CASE d = c
          BY <4>1, <1>3, <2>1
        <4>2. CASE d # c
          BY <4>2, <1>3, <2>1 DEF LifeInv, TaskInv, Others, Locking, Adding
        <4> QED
          BY <4>1, <4>2
      <3> QED
        BY <1>1, <1>3, <2>2, <3>4, <3>5 DEF LifeInv, AddInv
    <2>8. PassInv'
      BY <1>1, <2>1, <2>5, PassKept DEF LifeInv
    <2> QED
      BY <2>4, <2>6, <2>7, <2>8 DEF LifeInv
  <1>5. CASE Fails /\ EndsUnlocking(c) /\ UNCHANGED auth
    <2>1. /\ Others(c) /\ task' \in [Client -> TaskState] /\ task'[c] = Done /\ lock' = Nobody
      BY <1>5, EndsTyped DEF LifeInv, EndsUnlocking
    <2>2. TypeOK'
      BY <1>1, <1>3, <1>5, <2>1, TypeKept DEF LifeInv, Fails
    <2>3. Rows' = Rows
      BY <1>5 DEF Rows
    <2> QED
      BY <1>1, <1>3, <2>1, <2>2, <2>3, DoneTyped, LifeKept
  <1> QED
    BY <1>4, <1>5 DEF RegisterAccount

LEMMA ActivateProviderLife ==
  ASSUME LifeInv, NEW c \in Client, ActivateProvider(c)
  PROVE  LifeInv'
  <1> DEFINE a == task[c].account
  <1>1. /\ task[c].pc = "registered"
        /\ providers' = [providers EXCEPT ![a] = task[c].provider]
        /\ EndsUnlocking(c)
        /\ UNCHANGED <<tableVars, removed, syncing, background, boundVars>>
    BY DEF ActivateProvider
  <1>2. task[c].pc \in Requesting /\ task[c].pc \in Locking
    BY <1>1 DEF Requesting, Locking, Adding
  <1>3. /\ task[c].provider \in Nat /\ task[c].provider <= instances /\ lock = c
        /\ instances \in Nat /\ providers \in [Account -> 0..instances]
    BY <1>2, TaskTyped DEF LifeInv, TaskInv, TypeOK
  <1>4. providers' \in [Account -> 0..instances]
    <2>1. task[c].provider \in 0..instances
      BY <1>3
    <2> QED
      BY <1>1, <1>3, <2>1
  <1>5. Others(c) /\ task' \in [Client -> TaskState] /\ task'[c] = Done /\ lock' = Nobody
    BY <1>1, EndsTyped DEF LifeInv, EndsUnlocking
  <1>6. TypeOK'
    BY <1>1, <1>3, <1>4, <1>5, TypeKept DEF LifeInv, tableVars, boundVars
  <1>7. Rows' = Rows
    BY <1>1 DEF Rows, tableVars
  <1> QED
    BY <1>1, <1>3, <1>5, <1>6, <1>7, DoneTyped, LifeKept DEF boundVars

-----------------------------------------------------------------------------
(* accounts.remove                                                         *)

LEMMA RequestRemoveLife ==
  ASSUME LifeInv, NEW c \in Client, NEW a \in Account, RequestRemove(c, a)
  PROVE  LifeInv'
  <1> DEFINE t == [pc |-> "purge", account |-> a, provider |-> providers[a]]
  <1>1. /\ lock = Nobody /\ lock' = c /\ removed' = removed \cup {a}
        /\ providers' = [providers EXCEPT ![a] = 0]
        /\ requests' = requests + 1 /\ task' = [task EXCEPT ![c] = t]
        /\ UNCHANGED <<tableVars, syncing, background, used, deleted, instances, faults,
                       aborts>>
    BY DEF RequestRemove, Begins
  <1>2. /\ instances \in Nat /\ providers \in [Account -> 0..instances]
        /\ removed' \subseteq Account
    BY <1>1 DEF LifeInv, TypeOK
  <1>3. 0 \in 0..instances /\ providers[a] \in Nat /\ providers[a] <= instances
    BY <1>2
  <1>4. providers' \in [Account -> 0..instances]
    BY <1>1, <1>2, <1>3
  <1>5. t \in TaskState /\ t.pc = "purge" /\ t.provider = providers[a]
    BY <1>3 DEF TaskState, AccountTask
  <1> HIDE DEF t
  <1>6. Others(c) /\ task' \in [Client -> TaskState] /\ task'[c] = t
    BY <1>1, <1>5, SetTyped DEF LifeInv, Others
  <1>7. t.pc \notin Passing /\ t.pc \notin Adding
    BY <1>5 DEF Passing, Adding
  <1>8. TypeOK'
    BY <1>1, <1>2, <1>4, <1>6, TypeKept DEF LifeInv, tableVars
  <1>9. Rows' = Rows
    BY <1>1 DEF Rows, tableVars
  <1> QED
    BY <1>1, <1>3, <1>5, <1>6, <1>7, <1>8, <1>9, LifeKept

\* The undoing of a removal, and its end.
LEMMA RollBackTyped ==
  ASSUME LifeInv, NEW c \in Client, task[c].pc \in Removing, RollBack(c)
  PROVE  /\ Others(c) /\ task' \in [Client -> TaskState] /\ task'[c] = Done
         /\ lock = c /\ lock' = Nobody
         /\ removed' \subseteq Account
         /\ providers' \in [Account -> 0..instances]
  <1>1. task[c].pc \in Requesting /\ task[c].pc \in Locking
    BY DEF Requesting, Locking
  <1>2. /\ task[c].account \in Account /\ task[c].provider \in Nat
        /\ task[c].provider <= instances /\ lock = c
        /\ instances \in Nat /\ providers \in [Account -> 0..instances]
        /\ removed \subseteq Account
    BY <1>1, TaskTyped DEF LifeInv, TaskInv, TypeOK
  <1>3. task[c].provider \in 0..instances
    BY <1>2
  <1>4. providers' \in [Account -> 0..instances] /\ removed' \subseteq Account
    BY <1>2, <1>3 DEF RollBack
  <1>5. Others(c) /\ task' \in [Client -> TaskState] /\ task'[c] = Done /\ lock' = Nobody
    BY EndsTyped DEF LifeInv, RollBack, EndsUnlocking
  <1> QED
    BY <1>2, <1>4, <1>5

LEMMA ProceedTyped ==
  ASSUME LifeInv, NEW c \in Client, task[c].pc \in Removing, NEW pc \in Removing,
         Proceed(c, pc)
  PROVE  /\ Others(c) /\ task' \in [Client -> TaskState]
         /\ task'[c].pc = pc /\ task'[c].account = task[c].account
         /\ task'[c].provider = task[c].provider
         /\ task'[c].provider <= instances
         /\ task'[c].pc \notin Passing \cup Adding
         /\ lock = c
         /\ UNCHANGED <<removed, providers, lock, faults>>
  <1>1. /\ task[c].pc \in Requesting /\ task[c].pc \in Locking
        /\ pc \in Requesting /\ pc \notin Passing \cup Adding
    BY DEF Requesting, Locking, Removing, Passing, Adding
  <1>2. Goes(c, pc) /\ UNCHANGED <<removed, providers, lock, faults>>
    BY DEF Proceed
  <1>3. Others(c) /\ task' \in [Client -> TaskState] /\ task'[c].pc = pc
          /\ task'[c].account = task[c].account /\ task'[c].provider = task[c].provider
    BY <1>1, <1>2, GoesTyped DEF LifeInv, Others
  <1> QED
    BY <1>1, <1>2, <1>3 DEF LifeInv, TaskInv

\* A removal goes on, is undone or ends, and no row is touched.
LEMMA RemovalLife ==
  ASSUME LifeInv, NEW c \in Client, task[c].pc \in Removing,
         \/ \E pc \in Removing : Proceed(c, pc)
         \/ RollBack(c) /\ (UNCHANGED faults \/ Fails),
         files' \subseteq Account, secrets' \subseteq Account \ Brokered,
         UNCHANGED <<auth, mail, syncing, background, used, deleted, instances, requests,
                     aborts>>
  PROVE  LifeInv'
  <1>1. Rows' = Rows
    BY DEF Rows
  <1>2. ASSUME NEW pc \in Removing, Proceed(c, pc)
        PROVE  LifeInv'
    <2>1. TypeOK'
      BY <1>2, ProceedTyped, TypeKept DEF LifeInv
    <2> QED
      BY <1>1, <1>2, <2>1, ProceedTyped, LifeKept
  <1>3. CASE RollBack(c) /\ (UNCHANGED faults \/ Fails)
    <2>1. faults' = faults \/ faults' = faults + 1
      BY <1>3 DEF Fails
    <2>2. instances' \in Nat
      BY DEF LifeInv, TypeOK
    <2>3. TypeOK'
      BY <1>3, <2>1, <2>2, RollBackTyped, TypeKept DEF LifeInv
    <2> QED
      BY <1>1, <1>3, <2>3, RollBackTyped, DoneTyped, LifeKept
  <1> QED
    BY <1>2, <1>3

LEMMA PurgeLife ==
  ASSUME LifeInv, NEW c \in Client, Purge(c)
  PROVE  LifeInv'
  <1>1. /\ task[c].pc \in Removing /\ "secrets" \in Removing
        /\ files' \subseteq Account /\ secrets' \subseteq Account \ Brokered
    BY DEF Purge, Removing, LifeInv, TypeOK
  <1> QED
    BY <1>1, RemovalLife DEF Purge

LEMMA DeleteSecretsLife ==
  ASSUME LifeInv, NEW c \in Client, DeleteSecrets(c)
  PROVE  LifeInv'
  <1>1. /\ task[c].pc \in Removing /\ "row" \in Removing
        /\ files' \subseteq Account /\ secrets' \subseteq Account \ Brokered
    BY DEF DeleteSecrets, Removing, LifeInv, TypeOK
  <1> QED
    BY <1>1, RemovalLife DEF DeleteSecrets

LEMMA DeleteRowLife ==
  ASSUME LifeInv, NEW c \in Client, DeleteRow(c)
  PROVE  LifeInv'
  <1> DEFINE a == task[c].account
  <1>1. /\ task[c].pc \in Removing /\ task[c].pc \in Requesting /\ task[c].pc \in Locking
        /\ UNCHANGED <<secrets, files, syncing, background, used, instances, requests,
                       aborts>>
    BY DEF DeleteRow, Removing, Requesting, Locking
  <1>2. a \in Account /\ lock = c
    BY <1>1, TaskTyped DEF LifeInv, TaskInv
  <1>3. CASE /\ auth[a] # "absent"
             /\ auth' = [auth EXCEPT ![a] = "absent"]
             /\ mail' = mail \ {a}
             /\ deleted' = deleted \cup {a}
             /\ EndsUnlocking(c)
             /\ UNCHANGED <<removed, providers, faults>>
    <2>1. Others(c) /\ task' \in [Client -> TaskState] /\ task'[c] = Done /\ lock' = Nobody
      BY <1>3, EndsTyped DEF LifeInv, EndsUnlocking
    <2>2. /\ auth' \in [Account -> {"absent", "ready", "needs_auth", "error"}]
          /\ Rows' = Rows \ {a}
      BY <1>2, <1>3 DEF LifeInv, TypeOK, Rows
    <2>3. mail' \subseteq Rows'
      BY <1>3, <2>2 DEF LifeInv, TypeOK, Rows
    <2>4. a \in used
      BY <1>2, <1>3 DEF LifeInv, AddInv, Rows
    <2>5. used' \subseteq Account /\ deleted' \subseteq used'
      BY <1>1, <1>3, <2>4 DEF LifeInv, TypeOK
    <2>6. TypeOK'
      BY <1>1, <1>3, <2>1, <2>2, <2>3, <2>5, TypeKept DEF LifeInv
    <2>7. TaskInv'
      BY <1>1, <1>2, <2>1, DoneTyped, TaskKept DEF LifeInv
    <2>8. \A d \in Client : task'[d].pc \notin Adding /\ task'[d].pc \notin {"create", "created"}
      <3>1. ASSUME NEW d \in Client
            PROVE  task'[d].pc \notin Adding
        <4>1. CASE d = c
          BY <4>1, <2>1, DoneTyped
        <4>2. CASE d # c
          BY <4>2, <1>2, <2>1 DEF LifeInv, TaskInv, Others, Locking
        <4> QED
          BY <4>1, <4>2
      <3> QED
        BY <3>1 DEF Adding
    <2>9. OneAccountPerAddress'
      <3>1. \A b \in Brokered : auth'[b] # "absent" => auth[b] # "absent"
        BY <1>2, <1>3, OrderAssumption DEF LifeInv, TypeOK
      <3> QED
        BY <3>1 DEF LifeInv, AddInv, OneAccountPerAddress, SameAddress
    <2>10. AddInv'
      BY <1>1, <2>2, <2>8, <2>9 DEF LifeInv, AddInv
    <2>11. PassInv'
      BY <1>1, <2>1, DoneTyped, PassKept DEF LifeInv
    <2> QED
      BY <2>6, <2>7, <2>10, <2>11 DEF LifeInv
  <1>4. CASE /\ IF auth[a] = "absent" THEN UNCHANGED faults ELSE Fails
             /\ RollBack(c)
             /\ UNCHANGED <<auth, mail, deleted>>
    <2>1. UNCHANGED faults \/ Fails
      BY <1>4
    <2>2. files' \subseteq Account /\ secrets' \subseteq Account \ Brokered
      BY <1>1 DEF LifeInv, TypeOK
    <2> QED
      BY <1>1, <1>4, <2>1, <2>2, RemovalLife
  <1> QED
    BY <1>3, <1>4 DEF DeleteRow

-----------------------------------------------------------------------------
(* accounts.reauth and attachment.download                                 *)

\* A request about one account that takes no lock.
LEMMA BeginsLife ==
  ASSUME LifeInv, NEW c \in Client, NEW a \in Account, NEW pc \in {"reauth", "download"},
         NEW provider \in 0..instances,
         Begins(c, [pc |-> pc, account |-> a, provider |-> provider]),
         UNCHANGED <<tableVars, memoryVars, lock, used, deleted, instances, faults, aborts>>
  PROVE  LifeInv'
  <1> DEFINE t == [pc |-> pc, account |-> a, provider |-> provider]
  <1>1. provider \in Nat /\ provider <= instances
    BY DEF LifeInv, TypeOK
  <1>2. /\ t \in TaskState /\ t.pc = pc /\ t.provider = provider
    BY <1>1 DEF TaskState, AccountTask
  <1>3. task' = [task EXCEPT ![c] = t] /\ requests' = requests + 1
    BY DEF Begins
  <1> HIDE DEF t
  <1>4. Others(c) /\ task' \in [Client -> TaskState] /\ task'[c] = t
    BY <1>2, <1>3, SetTyped DEF LifeInv, Others
  <1>5. t.pc \notin Locking \cup Passing \cup Adding
    BY <1>2 DEF Locking, Adding, Removing, Passing
  <1>6. TypeOK'
    BY <1>3, <1>4, TypeKept DEF LifeInv, tableVars, memoryVars
  <1>7. Rows' = Rows
    BY DEF Rows, tableVars
  <1> QED
    BY <1>1, <1>2, <1>4, <1>5, <1>6, <1>7, LifeKept DEF memoryVars

LEMMA RequestReauthLife ==
  ASSUME LifeInv, NEW c \in Client, NEW a \in Account, RequestReauth(c, a)
  PROVE  LifeInv'
  <1>1. 0 \in 0..instances
    BY DEF LifeInv, TypeOK
  <1> QED
    BY <1>1, BeginsLife DEF RequestReauth

LEMMA RequestDownloadLife ==
  ASSUME LifeInv, NEW c \in Client, NEW a \in Account, RequestDownload(c, a)
  PROVE  LifeInv'
  <1>1. providers[a] \in 0..instances
    BY DEF LifeInv, TypeOK
  <1> QED
    BY <1>1, BeginsLife DEF RequestDownload

\* Another state of an account that has a row.
LEMMA SetAuthTyped ==
  ASSUME TypeOK, NEW a \in Account, NEW state \in {"ready", "needs_auth", "error"},
         SetAuthState(a, state), mail' = mail
  PROVE  /\ auth' \in [Account -> {"absent", "ready", "needs_auth", "error"}]
         /\ Rows' = Rows
         /\ mail' \subseteq Rows'
  <1>1. /\ auth' \in [Account -> {"absent", "ready", "needs_auth", "error"}]
        /\ \A b \in Account : auth'[b] = "absent" <=> auth[b] = "absent"
    BY DEF SetAuthState, TypeOK
  <1>2. Rows' = Rows
    BY <1>1 DEF Rows
  <1> QED
    BY <1>1, <1>2 DEF TypeOK, Rows

LEMMA PersistTyped ==
  ASSUME TypeOK, NEW a \in Account, PersistFailure(a), mail' = mail
  PROVE  /\ auth' \in [Account -> {"absent", "ready", "needs_auth", "error"}]
         /\ Rows' = Rows
         /\ mail' \subseteq Rows'
  <1>1. CASE auth' = auth
    BY <1>1 DEF TypeOK, Rows
  <1>2. CASE \E state \in {"needs_auth", "error"} : SetAuthState(a, state)
    BY <1>2, SetAuthTyped
  <1> QED
    BY <1>1, <1>2 DEF PersistFailure

LEMMA ReauthorizeLife ==
  ASSUME LifeInv, NEW c \in Client, Reauthorize(c)
  PROVE  LifeInv'
  <1> DEFINE a == task[c].account
             missing == a \notin Brokered \cup secrets
  <1>1. /\ task[c].pc = "reauth"
        /\ UNCHANGED <<mail, secrets, files, removed, syncing, background, lock, used,
                       deleted, requests, aborts>>
    BY DEF Reauthorize
  <1>2. task[c].pc \in Requesting /\ "reauthorized" \in Requesting
          /\ "reauthorized" \notin Locking \cup Passing \cup Adding
    BY <1>1 DEF Requesting, Reauthorizing, Locking, Adding, Removing, Passing
  <1>3. /\ a \in Account /\ task[c].provider \in Nat /\ task[c].provider <= instances
        /\ instances \in Nat /\ providers \in [Account -> 0..instances]
    BY <1>2, TaskTyped DEF LifeInv, TaskInv, TypeOK
  <1>4. CASE /\ instances' = instances + 1
             /\ providers' = [providers EXCEPT ![a] = instances + 1]
             /\ Goes(c, "reauthorized")
             /\ UNCHANGED <<auth, faults>>
    <2>1. /\ Others(c) /\ task' \in [Client -> TaskState]
          /\ task'[c].pc = "reauthorized" /\ task'[c].provider = task[c].provider
      BY <1>2, <1>4, GoesTyped DEF LifeInv, Others
    <2>2. instances + 1 \in 0..(instances + 1) /\ providers \in [Account -> 0..(instances + 1)]
      BY <1>3
    <2>3. providers' \in [Account -> 0..instances'] /\ instances' \in Nat
      BY <1>3, <1>4, <2>2
    <2>4. TypeOK'
      BY <1>1, <1>4, <2>1, <2>3, TypeKept DEF LifeInv
    <2>5. Rows' = Rows
      BY <1>4 DEF Rows
    <2>6. task'[c].provider <= instances'
      BY <1>3, <1>4, <2>1
    <2> QED
      BY <1>1, <1>2, <1>4, <2>1, <2>4, <2>5, <2>6, LifeKept
  <1>5. CASE /\ IF missing THEN UNCHANGED faults ELSE Fails
             /\ \E state \in {"needs_auth", "error"} : SetAuthState(a, state)
             /\ Ends(c)
             /\ UNCHANGED <<instances, providers>>
    <2>1. Others(c) /\ task' \in [Client -> TaskState] /\ task'[c] = Done
      BY <1>5, EndsTyped DEF LifeInv
    <2>2. /\ auth' \in [Account -> {"absent", "ready", "needs_auth", "error"}]
          /\ Rows' = Rows /\ mail' \subseteq Rows'
      BY <1>1, <1>3, <1>5, SetAuthTyped DEF LifeInv
    <2>3. faults' = faults \/ faults' = faults + 1
      BY <1>5 DEF Fails
    <2>4. TypeOK'
      BY <1>1, <1>5, <2>1, <2>2, <2>3, TypeKept DEF LifeInv
    <2> QED
      BY <1>1, <1>5, <2>1, <2>2, <2>4, DoneTyped, LifeKept
  <1> QED
    BY <1>4, <1>5 DEF Reauthorize

LEMMA FinishReauthLife ==
  ASSUME LifeInv, NEW c \in Client, FinishReauth(c)
  PROVE  LifeInv'
  <1>1. /\ task[c].pc = "reauthorized" /\ SetAuthState(task[c].account, "ready") /\ Ends(c)
        /\ UNCHANGED <<mail, secrets, files, memoryVars, lock, boundVars>>
    BY DEF FinishReauth
  <1>2. task[c].account \in Account
    BY <1>1, TaskTyped DEF LifeInv, Requesting, Reauthorizing
  <1>3. Others(c) /\ task' \in [Client -> TaskState] /\ task'[c] = Done
    BY <1>1, EndsTyped DEF LifeInv
  <1>4. /\ auth' \in [Account -> {"absent", "ready", "needs_auth", "error"}]
        /\ Rows' = Rows /\ mail' \subseteq Rows'
    BY <1>1, <1>2, SetAuthTyped DEF LifeInv
  <1>5. TypeOK'
    BY <1>1, <1>3, <1>4, TypeKept DEF LifeInv, memoryVars, boundVars
  <1> QED
    BY <1>1, <1>3, <1>4, <1>5, DoneTyped, LifeKept DEF memoryVars, boundVars

LEMMA FinishDownloadLife ==
  ASSUME LifeInv, NEW c \in Client, FinishDownload(c)
  PROVE  LifeInv'
  <1>1. /\ task[c].pc = "download" /\ Ends(c)
        /\ UNCHANGED <<auth, mail, secrets, memoryVars, lock, used, deleted, instances,
                       requests, aborts>>
    BY DEF FinishDownload
  <1>2. task[c].account \in Account
    BY <1>1, TaskTyped DEF LifeInv, Requesting
  <1>3. files' \subseteq Account /\ (faults' = faults \/ faults' = faults + 1)
    BY <1>2 DEF FinishDownload, Fails, LifeInv, TypeOK
  <1>4. Others(c) /\ task' \in [Client -> TaskState] /\ task'[c] = Done
    BY <1>1, EndsTyped DEF LifeInv
  <1>5. TypeOK'
    BY <1>1, <1>3, <1>4, TypeKept DEF LifeInv, memoryVars
  <1>6. Rows' = Rows
    BY <1>1 DEF Rows
  <1> QED
    BY <1>1, <1>4, <1>5, <1>6, DoneTyped, LifeKept DEF memoryVars

-----------------------------------------------------------------------------
(* sync.start                                                              *)

\* A step of a synchronisation takes no lock, makes no row and begins no
\* addition: only its pass is left to look at.
LEMMA SyncKept ==
  ASSUME LifeInv, NEW c \in Client, Others(c), task' \in [Client -> TaskState],
         task'[c].pc \in {"idle"} \cup Syncing,
         task'[c].pc \in Passing => task'[c].todo # {},
         auth' \in [Account -> {"absent", "ready", "needs_auth", "error"}],
         Rows' = Rows, mail' \subseteq Rows,
         syncing' \subseteq Account,
         background' \in [Account -> Seq({"page", "close"})],
         faults' = faults \/ faults' = faults + 1,
         UNCHANGED <<secrets, files, providers, removed, lock, used, deleted, instances,
                     requests, aborts>>,
         PassInv'
  PROVE  LifeInv'
  <1>1. task'[c].pc \notin Locking \cup Requesting \cup Adding
    BY DEF Locking, Adding, Removing, Requesting, Reauthorizing, Syncing, Passing
  <1>2. TypeOK'
    BY TypeKept DEF LifeInv
  <1>3. TaskInv'
    BY <1>1, TaskKept DEF LifeInv
  <1>4. AddInv'
    BY <1>1, AddKept DEF LifeInv
  <1> QED
    BY <1>2, <1>3, <1>4 DEF LifeInv

LEMMA LeavesTyped ==
  ASSUME LifeInv, NEW c \in Client, task[c].pc \in Syncing, Leaves(c)
  PROVE  /\ Others(c) /\ task' \in [Client -> TaskState]
         /\ task'[c].pc = "visit"
         /\ task'[c].pc \notin Passing /\ task'[c].pc \in Syncing
  <1> DEFINE t == [pc |-> "visit", todo |-> task[c].todo \ {Visited(c)}]
  <1>1. task[c].todo \in SUBSET Account
    BY TaskTyped DEF LifeInv
  <1>2. t \in TaskState /\ t.pc = "visit"
    BY <1>1 DEF TaskState, SyncTask
  <1>3. task' = [task EXCEPT ![c] = t]
    BY DEF Leaves, LifeInv, TypeOK
  <1> HIDE DEF t
  <1>4. Others(c) /\ task' \in [Client -> TaskState] /\ task'[c] = t
    BY <1>2, <1>3, SetTyped DEF LifeInv, Others
  <1> QED
    BY <1>2, <1>4 DEF Syncing, Passing

LEMMA TablesTyped ==
  ASSUME LifeInv
  PROVE  /\ auth \in [Account -> {"absent", "ready", "needs_auth", "error"}]
         /\ mail \subseteq Rows
         /\ syncing \subseteq Account
         /\ background \in [Account -> Seq({"page", "close"})]
  BY DEF LifeInv, TypeOK, Rows

LEMMA SyncsLife ==
  ASSUME LifeInv, NEW c \in Client, NEW todo \in SUBSET Account, Syncs(c, todo)
  PROVE  LifeInv'
  <1> DEFINE t == [pc |-> "visit", todo |-> todo]
  <1>1. /\ task' = [task EXCEPT ![c] = t]
        /\ UNCHANGED <<tableVars, memoryVars, lock, boundVars>>
    BY DEF Syncs
  <1>2. t \in TaskState /\ t.pc = "visit"
    BY DEF TaskState, SyncTask
  <1> HIDE DEF t
  <1>3. Others(c) /\ task' \in [Client -> TaskState] /\ task'[c] = t
    BY <1>1, <1>2, SetTyped DEF LifeInv, Others
  <1>4. task'[c].pc \notin Passing /\ task'[c].pc \in Syncing
    BY <1>2, <1>3 DEF Syncing, Passing
  <1>5. PassInv'
    BY <1>1, <1>3, <1>4, PassKept DEF LifeInv, memoryVars
  <1>6. Rows' = Rows
    BY <1>1 DEF Rows, tableVars
  <1> QED
    BY <1>1, <1>3, <1>4, <1>5, <1>6, TablesTyped, SyncKept DEF tableVars, memoryVars, boundVars

LEMMA VisitAccountLife ==
  ASSUME LifeInv, NEW c \in Client, VisitAccount(c)
  PROVE  LifeInv'
  <1> DEFINE a == Visited(c)
  <1>1. /\ task[c].pc = "visit" /\ task[c].todo # {}
        /\ UNCHANGED <<tableVars, providers, removed, background, lock, boundVars>>
    BY DEF VisitAccount
  <1>2. task[c].pc \in Syncing /\ "list" \in Syncing /\ "list" \in Passing
    BY <1>1 DEF Syncing, Passing
  <1>3. a \in Account
    BY <1>1, VisitedTyped DEF LifeInv
  <1>4. Rows' = Rows
    BY <1>1 DEF Rows, tableVars
  <1>5. CASE Leaves(c) /\ UNCHANGED syncing
    <2>1. /\ Others(c) /\ task' \in [Client -> TaskState]
          /\ task'[c].pc \notin Passing /\ task'[c].pc \in Syncing
      BY <1>2, <1>5, LeavesTyped
    <2>2. PassInv'
      BY <1>1, <1>5, <2>1, PassKept DEF LifeInv
    <2> QED
      BY <1>1, <1>4, <1>5, <2>1, <2>2, TablesTyped, SyncKept DEF tableVars, boundVars
  <1>6. CASE a \notin syncing /\ syncing' = syncing \cup {a} /\ Goes(c, "list")
    <2>1. /\ Others(c) /\ task' \in [Client -> TaskState]
          /\ task'[c].pc = "list" /\ task'[c].todo = task[c].todo
      BY <1>2, <1>6, GoesTyped DEF LifeInv, Others
    <2>2. syncing' \subseteq Account
      BY <1>3, <1>6, TablesTyped
    <2>3. \A d \in Client, b \in Account :
            SyncsNow(d, b)' => IF d = c THEN b = a ELSE SyncsNow(d, b)
      BY <2>1 DEF SyncsNow, Visited, Others
    <2>4. ASSUME NEW b \in Account
          PROVE  /\ Len(background[b]) <= 1
                 /\ background[b] # <<>> => b \in syncing'
                 /\ \A d \in Client : SyncsNow(d, b)' =>
                      /\ b \in syncing'
                      /\ background[b] = <<>>
                      /\ \A e \in Client : SyncsNow(e, b)' => e = d
      <3>1. /\ Len(background[b]) <= 1
            /\ background[b] # <<>> => b \in syncing
        BY DEF LifeInv, PassInv
      <3>2. CASE b = a
        <4>1. background[b] = <<>> /\ b \in syncing'
          BY <3>1, <3>2, <1>6
        <4>2. \A d \in Client : ~ SyncsNow(d, b)
          BY <3>2, <1>6 DEF LifeInv, PassInv
        <4>3. \A d \in Client : SyncsNow(d, b)' => d = c
          BY <4>2, <2>3
        <4> QED
          BY <3>1, <4>1, <4>3
      <3>3. CASE b # a
        <4>1. \A d \in Client : SyncsNow(d, b)' => SyncsNow(d, b)
          BY <3>3, <2>3
        <4> QED
          BY <3>1, <4>1, <1>6 DEF LifeInv, PassInv
      <3> QED
        BY <3>2, <3>3
    <2>5. PassInv'
      BY <1>1, <2>4 DEF PassInv
    <2> QED
      BY <1>1, <1>2, <1>4, <2>1, <2>2, <2>5, TablesTyped, SyncKept DEF tableVars, boundVars
  <1> QED
    BY <1>5, <1>6 DEF VisitAccount

LEMMA EndSyncLife ==
  ASSUME LifeInv, NEW c \in Client, EndSync(c)
  PROVE  LifeInv'
  <1>1. /\ Ends(c) /\ UNCHANGED <<tableVars, memoryVars, lock, boundVars>>
    BY DEF EndSync
  <1>2. Others(c) /\ task' \in [Client -> TaskState] /\ task'[c] = Done
    BY <1>1, EndsTyped DEF LifeInv
  <1>3. PassInv'
    BY <1>1, <1>2, DoneTyped, PassKept DEF LifeInv, memoryVars
  <1>4. Rows' = Rows
    BY <1>1 DEF Rows, tableVars
  <1> QED
    BY <1>1, <1>2, <1>3, <1>4, DoneTyped, TablesTyped, SyncKept DEF tableVars, memoryVars, boundVars

\* The pass over an account is given up: the request moves on or ends.
LEMMA GiveUpLife ==
  ASSUME LifeInv, NEW c \in Client, task[c].pc \in Passing,
         syncing' = syncing \ {Visited(c)}, background' = background,
         Leaves(c) \/ Ends(c),
         auth' \in [Account -> {"absent", "ready", "needs_auth", "error"}],
         Rows' = Rows, mail' = mail,
         faults' = faults \/ faults' = faults + 1,
         UNCHANGED <<secrets, files, providers, removed, lock, used, deleted, instances,
                     requests, aborts>>
  PROVE  LifeInv'
  <1>1. task[c].pc \in Syncing
    BY DEF Syncing
  <1>2. /\ Others(c) /\ task' \in [Client -> TaskState]
        /\ task'[c].pc \notin Passing /\ task'[c].pc \in {"idle"} \cup Syncing
    <2>1. CASE Leaves(c)
      BY <1>1, <2>1, LeavesTyped
    <2>2. CASE Ends(c)
      BY <2>2, EndsTyped, DoneTyped DEF LifeInv
    <2> QED
      BY <2>1, <2>2
  <1>3. PassInv'
    BY <1>2, PassEnds DEF LifeInv
  <1>4. syncing' \subseteq Account /\ mail' \subseteq Rows
    BY TablesTyped
  <1>5. background' \in [Account -> Seq({"page", "close"})]
    BY TablesTyped
  <1> QED
    BY <1>2, <1>3, <1>4, <1>5, SyncKept

\* The pass goes on with the next stage.
LEMMA StageLife ==
  ASSUME LifeInv, NEW c \in Client, task[c].pc \in Passing, NEW pc \in Passing, Goes(c, pc),
         mail' \subseteq Rows,
         UNCHANGED <<auth, secrets, files, memoryVars, lock, boundVars>>
  PROVE  LifeInv'
  <1>1. task[c].pc \in Syncing /\ pc \in Syncing
    BY DEF Syncing
  <1>2. /\ Others(c) /\ task' \in [Client -> TaskState]
        /\ task'[c].pc = pc /\ task'[c].todo = task[c].todo
    BY <1>1, GoesTyped DEF LifeInv, Others
  <1>3. PassInv'
    BY <1>2, PassKept DEF LifeInv, memoryVars
  <1>4. task'[c].todo # {}
    BY <1>2 DEF LifeInv, TaskInv
  <1>5. Rows' = Rows
    BY DEF Rows
  <1> QED
    BY <1>1, <1>2, <1>3, <1>4, <1>5, TablesTyped, SyncKept DEF memoryVars, boundVars

LEMMA StoreMailboxesLife ==
  ASSUME LifeInv, NEW c \in Client, StoreMailboxes(c)
  PROVE  LifeInv'
  <1> DEFINE a == Visited(c)
  <1>1. /\ task[c].pc = "list" /\ task[c].pc \in Passing /\ "inbox" \in Passing
        /\ UNCHANGED <<auth, secrets, files, providers, removed, background, lock, boundVars>>
    BY DEF StoreMailboxes, Passing
  <1>2. a \in Account
    BY <1>1, VisitedTyped DEF LifeInv
  <1>3. Rows' = Rows
    BY <1>1 DEF Rows
  <1>4. CASE syncing' = syncing \ {a} /\ (Leaves(c) \/ Ends(c)) /\ mail' = mail
    BY <1>1, <1>3, <1>4, TablesTyped, GiveUpLife DEF boundVars
  <1>5. CASE auth[a] # "absent" /\ mail' = mail \cup {a} /\ Goes(c, "inbox") /\ UNCHANGED syncing
    <2>1. mail' \subseteq Rows
      BY <1>2, <1>5, TablesTyped DEF Rows
    <2> QED
      BY <1>1, <1>5, <2>1, StageLife DEF memoryVars
  <1> QED
    BY <1>4, <1>5 DEF StoreMailboxes

LEMMA SyncInboxLife ==
  ASSUME LifeInv, NEW c \in Client, SyncInbox(c)
  PROVE  LifeInv'
  <1>1. /\ task[c].pc = "inbox" /\ task[c].pc \in Passing /\ "schedule" \in Passing
        /\ UNCHANGED <<tableVars, providers, removed, background, lock, boundVars>>
    BY DEF SyncInbox, Passing
  <1>2. Rows' = Rows
    BY <1>1 DEF Rows, tableVars
  <1>3. CASE syncing' = syncing \ {Visited(c)} /\ Ends(c)
    BY <1>1, <1>2, <1>3, TablesTyped, GiveUpLife DEF tableVars, boundVars
  <1>4. CASE Goes(c, "schedule") /\ UNCHANGED syncing
    <2>1. mail' \subseteq Rows
      BY <1>1, TablesTyped DEF tableVars
    <2> QED
      BY <1>1, <1>4, <2>1, StageLife DEF tableVars, memoryVars
  <1> QED
    BY <1>3, <1>4 DEF SyncInbox

LEMMA FailSyncLife ==
  ASSUME LifeInv, NEW c \in Client, FailSync(c)
  PROVE  LifeInv'
  <1>1. /\ task[c].pc \in Passing /\ syncing' = syncing \ {Visited(c)} /\ Ends(c)
        /\ PageFails(Visited(c)) /\ PersistFailure(Visited(c))
        /\ UNCHANGED <<mail, secrets, files, providers, removed, background, lock, used, deleted,
                       instances, requests, aborts>>
    BY DEF FailSync, Passing
  <1>2. Visited(c) \in Account
    BY <1>1, VisitedTyped DEF LifeInv
  <1>3. /\ auth' \in [Account -> {"absent", "ready", "needs_auth", "error"}]
        /\ Rows' = Rows
    BY <1>1, <1>2, PersistTyped DEF LifeInv
  <1>4. faults' = faults \/ faults' = faults + 1
    BY <1>1 DEF PageFails, Fails
  <1> QED
    BY <1>1, <1>3, <1>4, GiveUpLife

\* The rest of the pass is handed over to the background: the account stays
\* marked.
LEMMA ScheduleBackgroundLife ==
  ASSUME LifeInv, NEW c \in Client, ScheduleBackground(c)
  PROVE  LifeInv'
  <1> DEFINE a == Visited(c)
  <1>1. /\ task[c].pc = "schedule" /\ task[c].pc \in Passing /\ task[c].pc \in Syncing
        /\ Leaves(c)
        /\ UNCHANGED <<tableVars, providers, removed, lock, boundVars>>
    BY DEF ScheduleBackground, Passing, Syncing
  <1>2. a \in Account
    BY <1>1, VisitedTyped DEF LifeInv
  <1>3. Rows' = Rows
    BY <1>1 DEF Rows, tableVars
  <1>4. CASE syncing' = syncing \ {a} /\ UNCHANGED background
    BY <1>1, <1>3, <1>4, TablesTyped, GiveUpLife DEF tableVars, boundVars
  <1>5. CASE background' = [background EXCEPT ![a] = Append(@, "page")] /\ UNCHANGED syncing
    <2>1. /\ Others(c) /\ task' \in [Client -> TaskState]
          /\ task'[c].pc \notin Passing /\ task'[c].pc \in Syncing
      BY <1>1, LeavesTyped
    <2>2. SyncsNow(c, a)
      BY <1>1 DEF SyncsNow
    <2>3. a \in syncing /\ background[a] = <<>> /\ \A d \in Client : SyncsNow(d, a) => d = c
      BY <1>2, <2>2 DEF LifeInv, PassInv
    <2>4. /\ background' \in [Account -> Seq({"page", "close"})]
          /\ \A b \in Account : b # a => background'[b] = background[b]
          /\ background'[a] = Append(background[a], "page")
      BY <1>2, <1>5, TablesTyped
    <2>5. Len(background'[a]) <= 1
      BY <2>3, <2>4
    <2>6. \A d \in Client, b \in Account : SyncsNow(d, b)' => SyncsNow(d, b) /\ d # c
      BY <2>1 DEF SyncsNow, Visited, Others, Passing
    <2>7. ASSUME NEW b \in Account
          PROVE  /\ Len(background'[b]) <= 1
                 /\ background'[b] # <<>> => b \in syncing
                 /\ \A d \in Client : SyncsNow(d, b)' =>
                      /\ b \in syncing
                      /\ background'[b] = <<>>
                      /\ \A e \in Client : SyncsNow(e, b)' => e = d
      <3>1. CASE b = a
        BY <3>1, <2>3, <2>5, <2>6
      <3>2. CASE b # a
        BY <3>2, <2>4, <2>6 DEF LifeInv, PassInv
      <3> QED
        BY <3>1, <3>2
    <2>8. PassInv'
      BY <1>5, <2>7 DEF PassInv
    <2> QED
      BY <1>1, <1>3, <1>5, <2>1, <2>4, <2>8, TablesTyped, SyncKept DEF tableVars, boundVars
  <1> QED
    BY <1>4, <1>5 DEF ScheduleBackground

-----------------------------------------------------------------------------
(* Background passes                                                       *)

\* A step of a background pass leaves the requests alone.
LEMMA PassStepKept ==
  ASSUME LifeInv, task' = task,
         auth' \in [Account -> {"absent", "ready", "needs_auth", "error"}],
         Rows' = Rows, mail' \subseteq Rows,
         syncing' \subseteq Account,
         background' \in [Account -> Seq({"page", "close"})],
         faults' = faults \/ faults' = faults + 1,
         UNCHANGED <<secrets, files, providers, removed, lock, used, deleted, instances,
                     requests, aborts>>,
         PassInv'
  PROVE  LifeInv'
  <1>1. task' \in [Client -> TaskState]
    BY DEF LifeInv, TypeOK, TaskState
  <1>2. TypeOK'
    BY <1>1, TypeKept DEF LifeInv
  <1>3. TaskInv'
    BY DEF LifeInv, TaskInv
  <1>4. OneAccountPerAddress'
    <2>1. \A b \in Brokered : auth'[b] # "absent" <=> auth[b] # "absent"
      BY OrderAssumption DEF Rows
    <2> QED
      BY <2>1 DEF LifeInv, AddInv, OneAccountPerAddress, SameAddress
  <1>5. AddInv'
    BY <1>4 DEF LifeInv, AddInv, SameAddress
  <1> QED
    BY <1>2, <1>3, <1>5 DEF LifeInv

\* There is one background pass of the account, and no foreground one.
LEMMA OneStage ==
  ASSUME LifeInv, NEW a \in Account, NEW i \in DOMAIN background[a]
  PROVE  /\ i = 1 /\ Len(background[a]) = 1
         /\ background[a] \in Seq({"page", "close"})
         /\ background[a] # <<>>
         /\ a \in syncing
         /\ \A c \in Client : ~ SyncsNow(c, a)
  <1>1. background[a] \in Seq({"page", "close"})
    BY TablesTyped
  <1>2. i = 1 /\ Len(background[a]) = 1
    <2>1. Len(background[a]) <= 1 /\ Len(background[a]) \in Nat
      BY <1>1 DEF LifeInv, PassInv
    <2>2. i \in 1..Len(background[a])
      BY <1>1
    <2>3. \A n \in Nat : \A j \in 1..n : n <= 1 => j = 1 /\ n = 1
      OBVIOUS
    <2> QED
      BY <2>1, <2>2, <2>3
  <1>3. background[a] # <<>>
    BY <1>2
  <1> QED
    BY <1>1, <1>2, <1>3 DEF LifeInv, PassInv

\* The one pass of the account is over.
LEMMA FinishTyped ==
  ASSUME LifeInv, NEW a \in Account, NEW i \in DOMAIN background[a], Finish(a, i), task' = task
  PROVE  /\ syncing' \subseteq Account
         /\ background' \in [Account -> Seq({"page", "close"})]
         /\ PassInv'
  <1> DEFINE s == background[a]
  <1>1. i = 1 /\ Len(s) = 1 /\ s \in Seq({"page", "close"})
    BY OneStage
  <1>2. SubSeq(s, 1, i - 1) \o SubSeq(s, i + 1, Len(s)) = <<>>
    <2>1. SubSeq(s, 1, 0) = <<>> /\ SubSeq(s, 2, 1) = <<>>
      BY <1>1
    <2> QED
      BY <1>1, <2>1
  <1>3. background' = [background EXCEPT ![a] = <<>>] /\ syncing' = syncing \ {a}
    BY <1>2, TablesTyped DEF Finish
  <1>4. <<>> \in Seq({"page", "close"}) /\ Len(<<>>) <= 1
    OBVIOUS
  <1>5. background' \in [Account -> Seq({"page", "close"})] /\ syncing' \subseteq Account
    BY <1>3, <1>4, TablesTyped
  <1>6. \A d \in Client, b \in Account : SyncsNow(d, b)' <=> SyncsNow(d, b)
    BY DEF SyncsNow, Visited
  <1>7. ASSUME NEW b \in Account
        PROVE  /\ Len(background'[b]) <= 1
               /\ background'[b] # <<>> => b \in syncing'
               /\ \A d \in Client : SyncsNow(d, b)' =>
                    /\ b \in syncing'
                    /\ background'[b] = <<>>
                    /\ \A e \in Client : SyncsNow(e, b)' => e = d
    <2>1. CASE b = a
      <3>1. background'[b] = <<>> /\ \A d \in Client : ~ SyncsNow(d, b)'
        BY <2>1, <1>3, <1>6, OneStage, TablesTyped
      <3> QED
        BY <3>1, <1>4
    <2>2. CASE b # a
      <3>1. background'[b] = background[b] /\ (b \in syncing' <=> b \in syncing)
        BY <2>2, <1>3, TablesTyped
      <3> QED
        BY <3>1, <1>6 DEF LifeInv, PassInv
    <2> QED
      BY <2>1, <2>2
  <1> QED
    BY <1>5, <1>7 DEF PassInv

LEMMA BackgroundPageLife ==
  ASSUME LifeInv, NEW a \in Account, NEW i \in DOMAIN background[a], BackgroundPage(a, i)
  PROVE  LifeInv'
  <1>1. /\ UNCHANGED <<mail, secrets, files, providers, removed, lock, task, used, deleted,
                       instances, requests, aborts>>
        /\ mail' \subseteq Rows
    BY TablesTyped DEF BackgroundPage
  <1>2. CASE /\ Finish(a, i)
             /\ UNCHANGED auth \/ PersistFailure(a)
             /\ UNCHANGED faults \/ PageFails(a)
    <2>1. /\ auth' \in [Account -> {"absent", "ready", "needs_auth", "error"}]
          /\ Rows' = Rows
      <3>1. CASE UNCHANGED auth
        BY <3>1, TablesTyped DEF Rows
      <3>2. CASE PersistFailure(a)
        BY <1>1, <3>2, PersistTyped DEF LifeInv
      <3> QED
        BY <1>2, <3>1, <3>2
    <2>2. faults' = faults \/ faults' = faults + 1
      BY <1>2 DEF PageFails, Fails
    <2> QED
      BY <1>1, <1>2, <2>1, <2>2, FinishTyped, PassStepKept
  <1>3. CASE /\ background' = [background EXCEPT ![a][i] = "close"]
             /\ UNCHANGED <<auth, syncing, faults>>
    <2>1. /\ background[a] \in Seq({"page", "close"}) /\ i = 1 /\ Len(background[a]) = 1
          /\ a \in syncing /\ \A c \in Client : ~ SyncsNow(c, a)
      BY OneStage
    <2>2. background' = [background EXCEPT ![a] = [background[a] EXCEPT ![i] = "close"]]
      BY <1>3, TablesTyped
    <2>3. /\ [background[a] EXCEPT ![i] = "close"] \in Seq({"page", "close"})
          /\ Len([background[a] EXCEPT ![i] = "close"]) = 1
      BY <2>1
    <2>4. /\ background' \in [Account -> Seq({"page", "close"})]
          /\ Len(background'[a]) = 1
          /\ \A b \in Account : b # a => background'[b] = background[b]
      BY <2>2, <2>3, TablesTyped
    <2>5. \A d \in Client, b \in Account : SyncsNow(d, b)' <=> SyncsNow(d, b)
      BY <1>1 DEF SyncsNow, Visited
    <2>6. ASSUME NEW b \in Account
          PROVE  /\ Len(background'[b]) <= 1
                 /\ background'[b] # <<>> => b \in syncing
                 /\ \A d \in Client : SyncsNow(d, b)' =>
                      /\ b \in syncing
                      /\ background'[b] = <<>>
                      /\ \A e \in Client : SyncsNow(e, b)' => e = d
      <3>1. CASE b = a
        BY <3>1, <2>1, <2>4, <2>5
      <3>2. CASE b # a
        BY <3>2, <2>4, <2>5 DEF LifeInv, PassInv
      <3> QED
        BY <3>1, <3>2
    <2>7. PassInv'
      BY <1>3, <2>6 DEF PassInv
    <2>8. Rows' = Rows
      BY <1>3 DEF Rows
    <2> QED
      BY <1>1, <1>3, <2>4, <2>7, <2>8, TablesTyped, PassStepKept
  <1> QED
    BY <1>2, <1>3 DEF BackgroundPage

LEMMA ClosePassLife ==
  ASSUME LifeInv, NEW a \in Account, NEW i \in DOMAIN background[a], ClosePass(a, i)
  PROVE  LifeInv'
  <1>1. /\ Finish(a, i)
        /\ UNCHANGED auth \/ SetAuthState(a, "ready")
        /\ UNCHANGED <<mail, secrets, files, providers, removed, lock, task, boundVars>>
        /\ mail' \subseteq Rows
    BY TablesTyped DEF ClosePass
  <1>2. /\ auth' \in [Account -> {"absent", "ready", "needs_auth", "error"}]
        /\ Rows' = Rows
    <2>1. CASE UNCHANGED auth
      BY <2>1, TablesTyped DEF Rows
    <2>2. CASE SetAuthState(a, "ready")
      BY <1>1, <2>2, SetAuthTyped DEF LifeInv
    <2> QED
      BY <1>1, <2>1, <2>2
  <1> QED
    BY <1>1, <1>2, FinishTyped, PassStepKept DEF boundVars

-----------------------------------------------------------------------------
(* Disconnects and restarts                                                *)

LEMMA AbortLife ==
  ASSUME LifeInv, NEW c \in Client, Abort(c)
  PROVE  LifeInv'
  <1>1. /\ aborts' = aborts + 1 /\ Ends(c)
        /\ lock' = IF lock = c THEN Nobody ELSE lock
        /\ UNCHANGED <<tableVars, memoryVars, used, deleted, instances, requests, faults>>
    BY DEF Abort
  <1>2. Others(c) /\ task' \in [Client -> TaskState] /\ task'[c] = Done
    BY <1>1, EndsTyped DEF LifeInv
  <1>3. lock' = lock \/ (lock \in {c, Nobody} /\ lock' \in {c, Nobody})
    BY <1>1
  <1>4. lock' \in Client \cup {Nobody}
    BY <1>1 DEF LifeInv, TypeOK
  <1>5. TypeOK'
    BY <1>1, <1>2, <1>4, TypeKept DEF LifeInv, tableVars, memoryVars
  <1>6. Rows' = Rows
    BY <1>1 DEF Rows, tableVars
  <1> QED
    BY <1>1, <1>2, <1>3, <1>5, <1>6, DoneTyped, LifeKept DEF memoryVars

\* A row is restored, or marked with the failure.
LEMMA RestartRows ==
  ASSUME Restart
  PROVE  \E restored \in SUBSET Rows, refused \in [Account -> {"needs_auth", "error"}] :
           /\ providers' = [a \in Account |-> IF a \in restored THEN instances + 1 ELSE 0]
           /\ auth' = [a \in Account |->
                         IF a \in restored THEN "ready"
                         ELSE IF a \in Rows THEN refused[a] ELSE "absent"]
  <1>1. \E restored \in SUBSET Rows : \E state \in [Rows \ restored -> {"needs_auth", "error"}] :
           /\ providers' = [a \in Account |-> IF a \in restored THEN instances + 1 ELSE 0]
           /\ auth' = [a \in Account |->
                         IF a \in restored THEN "ready"
                         ELSE IF a \in Rows THEN state[a] ELSE "absent"]
    BY DEF Restart, Rows
  <1>2. PICK restored \in SUBSET Rows : \E state \in [Rows \ restored -> {"needs_auth", "error"}] :
           /\ providers' = [a \in Account |-> IF a \in restored THEN instances + 1 ELSE 0]
           /\ auth' = [a \in Account |->
                         IF a \in restored THEN "ready"
                         ELSE IF a \in Rows THEN state[a] ELSE "absent"]
    BY <1>1
  <1>3. PICK state \in [Rows \ restored -> {"needs_auth", "error"}] :
           /\ providers' = [a \in Account |-> IF a \in restored THEN instances + 1 ELSE 0]
           /\ auth' = [a \in Account |->
                         IF a \in restored THEN "ready"
                         ELSE IF a \in Rows THEN state[a] ELSE "absent"]
    BY <1>2
  <1> DEFINE refused == [a \in Account |-> IF a \in Rows \ restored THEN state[a] ELSE "error"]
  <1>4. refused \in [Account -> {"needs_auth", "error"}]
    OBVIOUS
  <1>5. \A a \in Account : a \in Rows /\ a \notin restored => refused[a] = state[a]
    OBVIOUS
  <1> HIDE DEF refused
  <1>6. auth' = [a \in Account |->
                  IF a \in restored THEN "ready"
                  ELSE IF a \in Rows THEN refused[a] ELSE "absent"]
    BY <1>3, <1>5
  <1> QED BY <1>3, <1>4, <1>6

LEMMA RestartLife ==
  ASSUME LifeInv, Restart
  PROVE  LifeInv'
  <1>1. /\ aborts' = aborts + 1 /\ instances' = instances + 1
        /\ removed' = {} /\ syncing' = {} /\ background' = [a \in Account |-> <<>>]
        /\ lock' = Nobody /\ task' = [c \in Client |-> Done]
        /\ UNCHANGED <<mail, secrets, files, used, deleted, requests, faults>>
    BY DEF Restart
  <1>2. PICK restored \in SUBSET Rows, refused \in [Account -> {"needs_auth", "error"}] :
          /\ providers' = [a \in Account |-> IF a \in restored THEN instances + 1 ELSE 0]
          /\ auth' = [a \in Account |->
                        IF a \in restored THEN "ready"
                        ELSE IF a \in Rows THEN refused[a] ELSE "absent"]
    BY RestartRows
  <1>3. instances' \in Nat /\ providers' \in [Account -> 0..instances']
    <2>1. instances \in Nat
      BY DEF LifeInv, TypeOK
    <2>2. instances + 1 \in 0..(instances + 1) /\ 0 \in 0..(instances + 1)
      BY <2>1
    <2> QED
      BY <1>1, <1>2, <2>1, <2>2
  <1>4. auth' \in [Account -> {"absent", "ready", "needs_auth", "error"}]
    BY <1>2
  <1>5. Rows' = Rows
    BY <1>2 DEF Rows
  <1>6. \A c \in Client : task'[c].pc = "idle"
    BY <1>1 DEF Done
  <1>7. TypeOK'
    <2>1. task' \in [Client -> TaskState]
      BY <1>1, DoneTyped
    <2>2. background' \in [Account -> Seq({"page", "close"})]
      BY <1>1
    <2>3. mail' \subseteq Rows'
      BY <1>1, <1>5, TablesTyped
    <2> QED
      BY <1>1, <1>3, <1>4, <2>1, <2>2, <2>3, TypeKept DEF LifeInv
  <1>8. TaskInv'
    BY <1>6 DEF TaskInv, Locking, Requesting, Adding, Removing, Reauthorizing, Passing
  <1>9. AddInv'
    <2>1. \A b \in Brokered : auth'[b] # "absent" <=> auth[b] # "absent"
      BY <1>5, OrderAssumption DEF Rows
    <2>2. OneAccountPerAddress'
      BY <2>1 DEF LifeInv, AddInv, OneAccountPerAddress, SameAddress
    <2>3. Rows' \subseteq used'
      BY <1>1, <1>5 DEF LifeInv, AddInv
    <2> QED
      BY <1>6, <2>2, <2>3 DEF AddInv, Adding
  <1>10. PassInv'
    <2>1. \A c \in Client, a \in Account : ~ SyncsNow(c, a)'
      BY <1>6 DEF SyncsNow
    <2>2. \A a \in Account : background'[a] = <<>> /\ Len(background'[a]) <= 1
      BY <1>1
    <2> QED
      BY <2>1, <2>2 DEF PassInv
  <1> QED
    BY <1>7, <1>8, <1>9, <1>10 DEF LifeInv

-----------------------------------------------------------------------------
(* The invariant                                                           *)

LEMMA LifeInit == Init => LifeInv
  <1> SUFFICES ASSUME NEW existing \in SUBSET Account,
                      \A a, b \in existing \cap Brokered : SameAddress(a, b) => a = b,
                      InitWith(existing)
               PROVE  LifeInv
    BY DEF Init
  <1>1. Rows = existing
    BY DEF InitWith, Rows
  <1>2. \A c \in Client : task[c].pc = "idle"
    BY DEF InitWith, Done
  <1>3. TypeOK
    <2>1. task \in [Client -> TaskState]
      BY DoneTyped DEF InitWith
    <2>2. auth \in [Account -> {"absent", "ready", "needs_auth", "error"}] /\ mail \subseteq Rows
      BY <1>1 DEF InitWith
    <2>3. providers \in [Account -> 0..instances] /\ background \in [Account -> Seq({"page", "close"})]
      BY DEF InitWith
    <2>4. secrets \subseteq Account \ Brokered /\ files \subseteq Account
      BY DEF InitWith
    <2>5. /\ removed \subseteq Account /\ syncing \subseteq Account
          /\ lock \in Client \cup {Nobody} /\ used \subseteq Account /\ deleted \subseteq used
          /\ instances \in Nat /\ requests \in Nat /\ faults \in Nat /\ aborts \in Nat
      BY DEF InitWith
    <2> QED
      BY <2>1, <2>2, <2>3, <2>4, <2>5 DEF TypeOK, TaskState, Rows
  <1>4. TaskInv
    BY <1>2 DEF TaskInv, Locking, Requesting, Adding, Removing, Reauthorizing, Passing
  <1>5. AddInv
    <2>1. \A b \in Brokered : auth[b] # "absent" => b \in existing \cap Brokered
      BY OrderAssumption DEF InitWith
    <2>2. OneAccountPerAddress
      BY <2>1 DEF OneAccountPerAddress
    <2>3. Rows \subseteq used
      BY <1>1 DEF InitWith
    <2> QED
      BY <1>2, <2>2, <2>3 DEF AddInv, Adding
  <1>6. PassInv
    <2>1. \A c \in Client, a \in Account : ~ SyncsNow(c, a)
      BY <1>2 DEF SyncsNow
    <2>2. \A a \in Account : background[a] = <<>> /\ Len(background[a]) <= 1
      BY DEF InitWith
    <2> QED
      BY <2>1, <2>2 DEF PassInv
  <1> QED
    BY <1>3, <1>4, <1>5, <1>6 DEF LifeInv

LEMMA LifeStutter ==
  ASSUME LifeInv, UNCHANGED vars
  PROVE  LifeInv'
  <1>1. UNCHANGED <<tableVars, memoryVars, lock, task, boundVars>>
    BY DEF vars
  <1> QED
    BY <1>1 DEF LifeInv, TypeOK, TaskInv, AddInv, PassInv, Rows, OneAccountPerAddress,
       SyncsNow, Visited, tableVars, memoryVars, boundVars

LEMMA LifeNext == LifeInv /\ [Next]_vars => LifeInv'
  <1> SUFFICES ASSUME LifeInv, [Next]_vars
               PROVE  LifeInv'
    OBVIOUS
  <1>1. ASSUME NEW c \in Client, Request(c)
        PROVE  LifeInv'
    BY <1>1, RequestAddLife, RequestRemoveLife, RequestReauthLife, RequestDownloadLife
       DEF Request
  <1>2. ASSUME NEW c \in Client, SyncAll(c) \/ SyncOne(c)
        PROVE  LifeInv'
    <2>1. CASE SyncAll(c)
      <3>1. Selected \in SUBSET Account
        BY DEF Selected
      <3> QED
        BY <2>1, <3>1, SyncsLife DEF SyncAll
    <2>2. CASE SyncOne(c)
      BY <2>2, SyncsLife DEF SyncOne
    <2> QED
      BY <1>2, <2>1, <2>2
  <1>3. ASSUME NEW c \in Client, Continue(c)
        PROVE  LifeInv'
    BY <1>3, CreateProviderLife, RegisterAccountLife, ActivateProviderLife, PurgeLife,
       DeleteSecretsLife, DeleteRowLife, ReauthorizeLife, FinishReauthLife,
       FinishDownloadLife, VisitAccountLife, EndSyncLife, StoreMailboxesLife,
       SyncInboxLife, ScheduleBackgroundLife, FailSyncLife DEF Continue
  <1>4. ASSUME NEW a \in Account, Pass(a)
        PROVE  LifeInv'
    BY <1>4, BackgroundPageLife, ClosePassLife DEF Pass
  <1> QED
    BY <1>1, <1>2, <1>3, <1>4, AbortLife, RestartLife, LifeStutter DEF Next

LEMMA LifeInvariant == Spec => []LifeInv
  BY LifeInit, LifeNext, PTL DEF Spec

\* The types hold of every state, whatever the accounts, frontends and faults:
\* an account's mail exists only with its row, brokered accounts store no
\* password, and a live provider is one that has been constructed.
THEOREM AccountTypeCorrect == Spec => []TypeOK
  <1>1. LifeInv => TypeOK
    BY DEF LifeInv
  <1> QED
    BY <1>1, LifeInvariant, PTL

\* accounts.add looks for an account of the same address and makes one under one
\* account_mutations guard: an online account is never set up twice.
THEOREM AddressOnce == Spec => []OneAccountPerAddress
  <1>1. LifeInv => OneAccountPerAddress
    BY DEF LifeInv, AddInv
  <1> QED
    BY <1>1, LifeInvariant, PTL

\* background_syncing keeps the passes over an account apart: those of
\* sync.start, of however many frontends, and those left to the background.
THEOREM PassesAlone == Spec => []OnePassPerAccount
  <1>1. LifeInv => OnePassPerAccount
    <2> SUFFICES ASSUME LifeInv, NEW a \in Account
                 PROVE  Cardinality({c \in Client : SyncsNow(c, a)}) + Len(background[a]) <= 1
      BY DEF OnePassPerAccount
    <2>1. Len(background[a]) \in Nat /\ Len(background[a]) <= 1
      BY TablesTyped DEF LifeInv, PassInv
    <2>2. CASE \A c \in Client : ~ SyncsNow(c, a)
      <3>1. {c \in Client : SyncsNow(c, a)} = {}
        BY <2>2
      <3>2. Cardinality({c \in Client : SyncsNow(c, a)}) = 0
        BY <3>1, FS_EmptySet
      <3> QED
        BY <2>1, <3>2
    <2>3. ASSUME NEW c \in Client, SyncsNow(c, a)
          PROVE  Cardinality({d \in Client : SyncsNow(d, a)}) + Len(background[a]) <= 1
      <3>1. background[a] = <<>> /\ \A d \in Client : SyncsNow(d, a) => d = c
        BY <2>3 DEF LifeInv, PassInv
      <3>2. {d \in Client : SyncsNow(d, a)} = {c}
        BY <2>3, <3>1
      <3>3. Cardinality({c}) = 1
        BY FS_Singleton
      <3>4. Len(background[a]) = 0
        BY <3>1
      <3>5. Cardinality({d \in Client : SyncsNow(d, a)}) = 1
        BY <3>2, <3>3, Zenon
      <3> QED
        BY <3>4, <3>5
    <2> QED
      BY <2>2, <2>3
  <1> QED
    BY <1>1, LifeInvariant, PTL

-----------------------------------------------------------------------------
(* What is gone stays gone                                                 *)

\* What a removal in progress has already undone, for a removal of another.
LEMMA GoneBy ==
  ASSUME GoneInv, NEW c \in Client, Others(c),
         \A a \in deleted' :
           a \notin Rows' /\ a \notin secrets' /\ a \notin files' /\ providers'[a] = 0,
         task'[c].pc \in Removing =>
           /\ providers'[task'[c].account] = 0
           /\ task'[c].account \in deleted' => task'[c].provider = 0,
         task'[c].pc \in {"secrets", "row"} => files' = {},
         task'[c].pc = "row" => task'[c].account \notin secrets',
         task'[c].pc \in Reauthorizing => task'[c].account \notin deleted',
         task'[c].pc = "download" => task'[c].provider # 0,
         \A d \in Client : d # c =>
           /\ task[d].pc \in Removing =>
                /\ providers'[task[d].account] = 0
                /\ task[d].account \in deleted' => task[d].provider = 0
           /\ task[d].pc \in {"secrets", "row"} => files' = {}
           /\ task[d].pc = "row" => task[d].account \notin secrets'
           /\ task[d].pc \in Reauthorizing => task[d].account \notin deleted'
  PROVE  GoneInv'
  <1>1. ASSUME NEW d \in Client
        PROVE  /\ task'[d].pc \in Removing =>
                    /\ providers'[task'[d].account] = 0
                    /\ task'[d].account \in deleted' => task'[d].provider = 0
               /\ task'[d].pc \in {"secrets", "row"} => files' = {}
               /\ task'[d].pc = "row" => task'[d].account \notin secrets'
               /\ task'[d].pc \in Reauthorizing => task'[d].account \notin deleted'
               /\ task'[d].pc = "download" => task'[d].provider # 0
    <2>1. CASE d = c
      BY <2>1
    <2>2. CASE d # c
      <3>1. task'[d] = task[d]
        BY <2>2 DEF Others
      <3>2. task[d].pc = "download" => task[d].provider # 0
        BY DEF GoneInv
      <3> QED
        BY <2>2, <3>1, <3>2
    <2> QED
      BY <2>1, <2>2
  <1> QED
    BY <1>1 DEF GoneInv

\* A step that has the lock, or finds it free: no other removal is in progress.
LEMMA LockedGone ==
  ASSUME LifeInv, GoneInv, NEW c \in Client, Others(c), lock \in {c, Nobody},
         deleted' = deleted,
         \A a \in deleted :
           a \notin Rows' /\ a \notin secrets' /\ a \notin files' /\ providers'[a] = 0,
         task'[c].pc \in Removing =>
           /\ providers'[task'[c].account] = 0
           /\ task'[c].account \in deleted => task'[c].provider = 0,
         task'[c].pc \in {"secrets", "row"} => files' = {},
         task'[c].pc = "row" => task'[c].account \notin secrets',
         task'[c].pc \notin Reauthorizing,
         task'[c].pc # "download"
  PROVE  GoneInv'
  <1>1. ASSUME NEW d \in Client, d # c
        PROVE  task[d].pc \notin Removing /\ task[d].pc \notin {"secrets", "row"}
    BY <1>1, ClientAssumption DEF LifeInv, TaskInv, Locking, Removing
  <1>2. \A d \in Client : task[d].pc \in Reauthorizing => task[d].account \notin deleted
    BY DEF GoneInv
  <1> QED
    BY <1>1, <1>2, GoneBy

\* A step that stores and deletes nothing.
LEMMA FreeGone ==
  ASSUME GoneInv, NEW c \in Client, Others(c), Rows' = Rows,
         UNCHANGED <<secrets, files, providers, deleted>>,
         task'[c].pc \notin Removing,
         task'[c].pc \in Reauthorizing => task'[c].account \notin deleted,
         task'[c].pc = "download" => task'[c].provider # 0
  PROVE  GoneInv'
  <1>1. task'[c].pc \notin {"secrets", "row"}
    BY DEF Removing
  <1>2. \A a \in deleted :
          a \notin Rows' /\ a \notin secrets' /\ a \notin files' /\ providers'[a] = 0
    BY DEF GoneInv
  <1>3. ASSUME NEW d \in Client
        PROVE  /\ task[d].pc \in Removing =>
                    /\ providers'[task[d].account] = 0
                    /\ task[d].account \in deleted' => task[d].provider = 0
               /\ task[d].pc \in {"secrets", "row"} => files' = {}
               /\ task[d].pc = "row" => task[d].account \notin secrets'
               /\ task[d].pc \in Reauthorizing => task[d].account \notin deleted'
    BY DEF GoneInv
  <1> QED
    BY <1>1, <1>2, <1>3, GoneBy

\* The same when the step ends the request or is one of a synchronisation.
LEMMA QuietGone ==
  ASSUME GoneInv, NEW c \in Client, Others(c), Rows' = Rows,
         UNCHANGED <<secrets, files, providers, deleted>>,
         task'[c].pc \in {"idle"} \cup Adding \cup Syncing
  PROVE  GoneInv'
  <1>1. task'[c].pc \notin Removing \cup Reauthorizing \cup {"download"}
    BY DEF Adding, Removing, Reauthorizing, Syncing, Passing
  <1> QED
    BY <1>1, FreeGone

-----------------------------------------------------------------------------
(* accounts.add                                                            *)

LEMMA RequestAddGone ==
  ASSUME LifeInv, GoneInv, NEW c \in Client, NEW a \in Account, RequestAdd(c, a)
  PROVE  GoneInv'
  <1>1. UNCHANGED <<tableVars, memoryVars, deleted>>
    BY DEF RequestAdd
  <1>2. Rows' = Rows
    BY <1>1 DEF Rows, tableVars
  <1>3. PICK t \in {Done, [pc |-> "create", account |-> a, provider |-> 0]} :
          task' = [task EXCEPT ![c] = t]
    BY DEF RequestAdd, Begins
  <1>4. Others(c) /\ task'[c] = t
    BY <1>3 DEF LifeInv, TypeOK, Others
  <1>5. task'[c].pc \in {"idle"} \cup Adding
    BY <1>3, <1>4 DEF Done, Adding
  <1> QED
    BY <1>1, <1>2, <1>4, <1>5, QuietGone DEF tableVars, memoryVars

\* An addition is about an account that is not gone, and has the lock.
LEMMA AddingHas ==
  ASSUME LifeInv, NEW c \in Client, task[c].pc \in Adding
  PROVE  /\ lock = c /\ task[c].account \in Account /\ task[c].account \notin deleted
  <1>1. task[c].pc \in Requesting /\ task[c].pc \in Locking
    BY DEF Requesting, Locking
  <1> QED
    BY <1>1, TaskTyped DEF LifeInv, TaskInv, AddInv

LEMMA AddingGone ==
  ASSUME LifeInv, GoneInv, NEW c \in Client, task[c].pc \in Adding, Others(c),
         task'[c].pc \in {"idle"} \cup Adding, deleted' = deleted, files' = files,
         Rows' \subseteq Rows \cup {task[c].account},
         secrets' \subseteq secrets \cup {task[c].account},
         \A a \in Account : a # task[c].account => providers'[a] = providers[a]
  PROVE  GoneInv'
  <1>1. deleted \subseteq Account
    BY DEF LifeInv, TypeOK
  <1>2. \A a \in deleted :
          a \notin Rows' /\ a \notin secrets' /\ a \notin files' /\ providers'[a] = 0
    BY <1>1, AddingHas DEF GoneInv
  <1>3. task'[c].pc \notin Removing \cup Reauthorizing \cup {"download", "secrets", "row"}
    BY DEF Adding, Removing, Reauthorizing
  <1> QED
    BY <1>2, <1>3, AddingHas, LockedGone

LEMMA CreateProviderGone ==
  ASSUME LifeInv, GoneInv, NEW c \in Client, CreateProvider(c)
  PROVE  GoneInv'
  <1>1. /\ task[c].pc \in Adding /\ Rows' = Rows
        /\ secrets' \subseteq secrets \cup {task[c].account}
        /\ UNCHANGED <<providers, files, deleted>>
    BY DEF CreateProvider, Adding, Rows, memoryVars
  <1>2. Others(c) /\ task'[c].pc \in {"idle"} \cup Adding
    BY DEF CreateProvider, EndsUnlocking, Ends, Done, LifeInv, TypeOK, Others, Adding
  <1> QED
    BY <1>1, <1>2, AddingGone

LEMMA RegisterAccountGone ==
  ASSUME LifeInv, GoneInv, NEW c \in Client, RegisterAccount(c)
  PROVE  GoneInv'
  <1>1. /\ task[c].pc \in Adding /\ task[c].pc \in Requesting /\ "registered" \in Requesting
        /\ UNCHANGED <<secrets, providers, files, deleted>>
    BY DEF RegisterAccount, Requesting, Locking, Adding
  <1>2. Rows' \subseteq Rows \cup {task[c].account}
    BY DEF RegisterAccount, Rows, LifeInv, TypeOK
  <1>3. CASE Goes(c, "registered")
    <2>1. Others(c) /\ task'[c].pc \in {"idle"} \cup Adding
      BY <1>1, <1>3, GoesTyped DEF LifeInv, Others, Adding
    <2> QED
      BY <1>1, <1>2, <2>1, AddingGone
  <1>4. CASE EndsUnlocking(c)
    <2>1. Others(c) /\ task'[c].pc \in {"idle"} \cup Adding
      BY <1>4, EndsTyped, DoneTyped DEF LifeInv, EndsUnlocking
    <2> QED
      BY <1>1, <1>2, <2>1, AddingGone
  <1> QED
    BY <1>3, <1>4 DEF RegisterAccount

LEMMA ActivateProviderGone ==
  ASSUME LifeInv, GoneInv, NEW c \in Client, ActivateProvider(c)
  PROVE  GoneInv'
  <1>1. /\ task[c].pc \in Adding /\ Rows' = Rows
        /\ UNCHANGED <<secrets, files, deleted>>
    BY DEF ActivateProvider, Adding, Rows, tableVars, boundVars
  <1>2. \A a \in Account : a # task[c].account => providers'[a] = providers[a]
    BY DEF ActivateProvider, LifeInv, TypeOK
  <1>3. Others(c) /\ task'[c].pc \in {"idle"} \cup Adding
    BY EndsTyped, DoneTyped DEF ActivateProvider, LifeInv, EndsUnlocking
  <1> QED
    BY <1>1, <1>2, <1>3, AddingGone

-----------------------------------------------------------------------------
(* accounts.remove                                                         *)

LEMMA RequestRemoveGone ==
  ASSUME LifeInv, GoneInv, NEW c \in Client, NEW a \in Account, RequestRemove(c, a)
  PROVE  GoneInv'
  <1> DEFINE t == [pc |-> "purge", account |-> a, provider |-> providers[a]]
  <1>1. /\ lock = Nobody /\ providers' = [providers EXCEPT ![a] = 0]
        /\ task' = [task EXCEPT ![c] = t]
        /\ UNCHANGED <<tableVars, deleted>>
    BY DEF RequestRemove, Begins
  <1>2. t.pc = "purge" /\ t.account = a /\ t.provider = providers[a]
    OBVIOUS
  <1> HIDE DEF t
  <1>3. Others(c) /\ task'[c] = t
    BY <1>1 DEF LifeInv, TypeOK, Others
  <1>4. \A b \in Account : providers'[b] = IF b = a THEN 0 ELSE providers[b]
    BY <1>1 DEF LifeInv, TypeOK
  <1>5. Rows' = Rows /\ deleted \subseteq Account
    BY <1>1 DEF Rows, tableVars, LifeInv, TypeOK
  <1>6. \A b \in deleted :
          b \notin Rows' /\ b \notin secrets' /\ b \notin files' /\ providers'[b] = 0
    BY <1>1, <1>4, <1>5 DEF GoneInv, tableVars
  <1>7. a \in deleted => t.provider = 0
    BY <1>2 DEF GoneInv
  <1>8. t.pc \notin Reauthorizing \cup {"download", "secrets", "row"}
    BY <1>2 DEF Reauthorizing
  <1> QED
    BY <1>1, <1>2, <1>3, <1>4, <1>6, <1>7, <1>8, LockedGone

\* What a removal knows of its account.
LEMMA RemovingHas ==
  ASSUME LifeInv, GoneInv, NEW c \in Client, task[c].pc \in Removing
  PROVE  /\ lock = c /\ task[c].account \in Account
         /\ providers[task[c].account] = 0
         /\ task[c].account \in deleted => task[c].provider = 0
         /\ deleted \subseteq Account
  <1>1. task[c].pc \in Requesting /\ task[c].pc \in Locking
    BY DEF Requesting, Locking
  <1> QED
    BY <1>1, TaskTyped DEF LifeInv, TaskInv, TypeOK, GoneInv

\* An account that is gone has no provider to be given back.
LEMMA RollBackGone ==
  ASSUME LifeInv, GoneInv, NEW c \in Client, task[c].pc \in Removing, RollBack(c),
         Rows' = Rows, secrets' \subseteq secrets, files' \subseteq files, deleted' = deleted
  PROVE  GoneInv'
  <1>1. \A b \in Account :
          providers'[b] = IF b = task[c].account /\ task[c].provider # 0
                          THEN task[c].provider ELSE providers[b]
    BY DEF RollBack, LifeInv, TypeOK
  <1>2. \A b \in deleted :
          b \notin Rows' /\ b \notin secrets' /\ b \notin files' /\ providers'[b] = 0
    BY <1>1, RemovingHas DEF GoneInv
  <1>3. Others(c) /\ task'[c] = Done
    BY RollBackTyped
  <1>4. task'[c].pc \notin Removing \cup Reauthorizing \cup {"download", "secrets", "row"}
    BY <1>3 DEF Done, Removing, Reauthorizing
  <1> QED
    BY <1>2, <1>3, <1>4, RemovingHas, LockedGone

LEMMA PurgeGone ==
  ASSUME LifeInv, GoneInv, NEW c \in Client, Purge(c)
  PROVE  GoneInv'
  <1>1. /\ task[c].pc \in Removing /\ "secrets" \in Removing /\ Rows' = Rows
        /\ UNCHANGED <<secrets, deleted>>
    BY DEF Purge, Removing, Rows
  <1>2. CASE files' = {} /\ Proceed(c, "secrets")
    <2>1. \A b \in deleted :
            b \notin Rows' /\ b \notin secrets' /\ b \notin files' /\ providers'[b] = 0
      BY <1>1, <1>2 DEF GoneInv, Proceed
    <2>2. /\ Others(c) /\ task'[c].pc = "secrets" /\ task'[c].account = task[c].account
          /\ task'[c].provider = task[c].provider /\ UNCHANGED providers
      BY <1>1, <1>2, ProceedTyped
    <2>3. task'[c].pc \notin Reauthorizing
      BY <2>2 DEF Reauthorizing
    <2> QED
      BY <1>1, <1>2, <2>1, <2>2, <2>3, RemovingHas, LockedGone
  <1>3. CASE files' \in SUBSET files /\ Fails /\ RollBack(c)
    BY <1>1, <1>3, RollBackGone
  <1> QED
    BY <1>2, <1>3 DEF Purge

LEMMA DeleteSecretsGone ==
  ASSUME LifeInv, GoneInv, NEW c \in Client, DeleteSecrets(c)
  PROVE  GoneInv'
  <1>1. /\ task[c].pc \in Removing /\ "row" \in Removing /\ Rows' = Rows
        /\ task[c].pc = "secrets"
        /\ UNCHANGED <<files, deleted>>
    BY DEF DeleteSecrets, Removing, Rows
  <1>2. CASE secrets' = secrets \ {task[c].account} /\ Proceed(c, "row")
    <2>1. /\ Others(c) /\ task'[c].pc = "row" /\ task'[c].account = task[c].account
          /\ task'[c].provider = task[c].provider /\ UNCHANGED providers
      BY <1>1, <1>2, ProceedTyped
    <2>2. \A b \in deleted :
            b \notin Rows' /\ b \notin secrets' /\ b \notin files' /\ providers'[b] = 0
      BY <1>1, <1>2, <2>1 DEF GoneInv
    <2>3. files' = {}
      BY <1>1 DEF GoneInv
    <2>4. task'[c].pc \notin Reauthorizing
      BY <2>1 DEF Reauthorizing
    <2>5. task'[c].account \notin secrets'
      BY <1>2, <2>1
    <2> QED
      BY <1>1, <2>1, <2>2, <2>3, <2>4, <2>5, RemovingHas, LockedGone
  <1>3. CASE UNCHANGED secrets /\ RollBack(c)
    BY <1>1, <1>3, RollBackGone
  <1> QED
    BY <1>2, <1>3 DEF DeleteSecrets

\* The row goes last, and nobody is reauthorising the account.
LEMMA DeleteRowGone ==
  ASSUME LifeInv, GoneInv, NoStrayReauth, NEW c \in Client, DeleteRow(c)
  PROVE  GoneInv'
  <1> DEFINE a == task[c].account
  <1>1. /\ task[c].pc = "row" /\ task[c].pc \in Removing
        /\ UNCHANGED <<secrets, files>>
    BY DEF DeleteRow, Removing
  <1>2. /\ lock = c /\ a \in Account /\ providers[a] = 0 /\ deleted \subseteq Account
        /\ files = {} /\ a \notin secrets
    BY <1>1, RemovingHas DEF GoneInv
  <1>3. CASE /\ auth' = [auth EXCEPT ![a] = "absent"]
             /\ deleted' = deleted \cup {a}
             /\ EndsUnlocking(c)
             /\ UNCHANGED <<removed, providers, faults>>
    <2>1. Others(c) /\ task'[c] = Done
      BY <1>3, EndsTyped DEF LifeInv, EndsUnlocking
    <2>2. Rows' = Rows \ {a}
      BY <1>2, <1>3 DEF LifeInv, TypeOK, Rows
    <2>3. \A b \in deleted' :
            b \notin Rows' /\ b \notin secrets' /\ b \notin files' /\ providers'[b] = 0
      BY <1>1, <1>2, <1>3, <2>2 DEF GoneInv
    <2>4. task'[c].pc \notin Removing \cup Reauthorizing \cup {"download", "secrets", "row"}
      BY <2>1 DEF Done, Removing, Reauthorizing
    <2>5. ASSUME NEW d \in Client, d # c
          PROVE  task[d].pc \notin Removing /\ task[d].pc \notin {"secrets", "row"}
      BY <1>2, <2>5, ClientAssumption DEF LifeInv, TaskInv, Locking, Removing
    <2>6. ASSUME NEW d \in Client, task[d].pc \in Reauthorizing
          PROVE  task[d].account \notin deleted'
      <3>1. task[d].account # a
        BY <1>1, <2>6 DEF NoStrayReauth, Reauthorizing, Removing
      <3> QED
        BY <1>3, <2>6, <3>1 DEF GoneInv
    <2> QED
      BY <2>1, <2>3, <2>4, <2>5, <2>6, GoneBy
  <1>4. CASE RollBack(c) /\ UNCHANGED <<auth, mail, deleted>>
    <2>1. Rows' = Rows
      BY <1>4 DEF Rows
    <2> QED
      BY <1>1, <1>4, <2>1, RollBackGone
  <1> QED
    BY <1>3, <1>4 DEF DeleteRow

-----------------------------------------------------------------------------
(* accounts.reauth and attachment.download                                 *)

LEMMA BeginsGone ==
  ASSUME LifeInv, GoneInv, NEW c \in Client, NEW a, NEW pc \in {"reauth", "download"},
         NEW provider,
         Begins(c, [pc |-> pc, account |-> a, provider |-> provider]),
         pc = "reauth" => a \notin deleted,
         pc = "download" => provider # 0,
         UNCHANGED <<tableVars, memoryVars, deleted>>
  PROVE  GoneInv'
  <1> DEFINE t == [pc |-> pc, account |-> a, provider |-> provider]
  <1>1. task' = [task EXCEPT ![c] = t] /\ t.pc = pc /\ t.account = a /\ t.provider = provider
    BY DEF Begins
  <1> HIDE DEF t
  <1>2. Others(c) /\ task'[c] = t
    BY <1>1 DEF LifeInv, TypeOK, Others
  <1>3. Rows' = Rows
    BY DEF Rows, tableVars
  <1>4. t.pc \notin Removing /\ (t.pc \in Reauthorizing => pc = "reauth")
    BY <1>1 DEF Removing, Reauthorizing
  <1> QED
    BY <1>1, <1>2, <1>3, <1>4, FreeGone DEF tableVars, memoryVars

LEMMA RequestReauthGone ==
  ASSUME LifeInv, GoneInv, NEW c \in Client, NEW a \in Account, RequestReauth(c, a)
  PROVE  GoneInv'
  <1>1. a \notin deleted
    BY DEF RequestReauth, GoneInv, Rows
  <1> QED
    BY <1>1, BeginsGone DEF RequestReauth

LEMMA RequestDownloadGone ==
  ASSUME LifeInv, GoneInv, NEW c \in Client, NEW a \in Account, RequestDownload(c, a)
  PROVE  GoneInv'
  BY BeginsGone DEF RequestDownload

LEMMA ReauthorizeGone ==
  ASSUME LifeInv, GoneInv, NoStrayReauth, NEW c \in Client, Reauthorize(c)
  PROVE  GoneInv'
  <1> DEFINE a == task[c].account
  <1>1. /\ task[c].pc = "reauth" /\ task[c].pc \in Reauthorizing
        /\ task[c].pc \in Requesting /\ "reauthorized" \in Requesting
        /\ UNCHANGED <<mail, secrets, files, deleted>>
    BY DEF Reauthorize, Reauthorizing, Requesting
  <1>2. a \in Account /\ a \notin deleted /\ deleted \subseteq Account
    BY <1>1, TaskTyped DEF LifeInv, TypeOK, GoneInv
  <1>3. CASE /\ providers' = [providers EXCEPT ![a] = instances + 1]
             /\ Goes(c, "reauthorized")
             /\ UNCHANGED auth
    <2>1. /\ Others(c) /\ task'[c].pc = "reauthorized" /\ task'[c].account = a
      BY <1>1, <1>3, GoesTyped DEF LifeInv, Others
    <2>2. \A b \in Account : b # a => providers'[b] = providers[b]
      BY <1>3 DEF LifeInv, TypeOK
    <2>3. Rows' = Rows
      BY <1>3 DEF Rows
    <2>4. \A b \in deleted' :
            b \notin Rows' /\ b \notin secrets' /\ b \notin files' /\ providers'[b] = 0
      BY <1>1, <1>2, <2>2, <2>3 DEF GoneInv
    <2>5. task'[c].pc \notin Removing \cup {"download", "secrets", "row"}
      BY <2>1 DEF Removing
    <2>6. ASSUME NEW d \in Client, d # c
          PROVE  /\ task[d].pc \in Removing =>
                      /\ providers'[task[d].account] = 0
                      /\ task[d].account \in deleted' => task[d].provider = 0
                 /\ task[d].pc \in {"secrets", "row"} => files' = {}
                 /\ task[d].pc = "row" => task[d].account \notin secrets'
                 /\ task[d].pc \in Reauthorizing => task[d].account \notin deleted'
      <3>1. ASSUME task[d].pc \in Removing
            PROVE  /\ providers'[task[d].account] = 0
                   /\ task[d].account \in deleted' => task[d].provider = 0
        <4>1. task[d].account # a
          BY <1>1, <3>1 DEF NoStrayReauth, Removing
        <4> QED
          BY <1>1, <3>1, <4>1, <2>2, RemovingHas
      <3> QED
        BY <1>1, <3>1 DEF GoneInv
    <2> QED
      BY <1>1, <1>2, <2>1, <2>4, <2>5, <2>6, GoneBy
  <1>4. CASE /\ \E state \in {"needs_auth", "error"} : SetAuthState(a, state)
             /\ Ends(c)
             /\ UNCHANGED providers
    <2>1. Others(c) /\ task'[c].pc \in {"idle"} \cup Adding
      BY <1>4, EndsTyped, DoneTyped DEF LifeInv
    <2>2. Rows' = Rows
      BY <1>1, <1>2, <1>4, SetAuthTyped DEF LifeInv
    <2> QED
      BY <1>1, <1>4, <2>1, <2>2, QuietGone
  <1> QED
    BY <1>3, <1>4 DEF Reauthorize

LEMMA FinishReauthGone ==
  ASSUME LifeInv, GoneInv, NEW c \in Client, FinishReauth(c)
  PROVE  GoneInv'
  <1>1. /\ task[c].pc = "reauthorized" /\ SetAuthState(task[c].account, "ready") /\ Ends(c)
        /\ UNCHANGED <<mail, secrets, files, providers, deleted>>
    BY DEF FinishReauth, memoryVars, boundVars
  <1>2. task[c].account \in Account
    BY <1>1, TaskTyped DEF LifeInv, Requesting, Reauthorizing
  <1>3. Others(c) /\ task'[c].pc \in {"idle"} \cup Adding
    BY <1>1, EndsTyped, DoneTyped DEF LifeInv
  <1>4. Rows' = Rows
    BY <1>1, <1>2, SetAuthTyped DEF LifeInv
  <1> QED
    BY <1>1, <1>3, <1>4, QuietGone

\* A file is stored only for an account with a provider, and while no removal is
\* past the cache.
LEMMA FinishDownloadGone ==
  ASSUME LifeInv, GoneInv, NEW c \in Client, FinishDownload(c)
  PROVE  GoneInv'
  <1>1. /\ task[c].pc = "download" /\ lock = Nobody /\ Ends(c)
        /\ UNCHANGED <<auth, secrets, providers, deleted>>
    BY DEF FinishDownload, memoryVars
  <1>2. Others(c) /\ task'[c] = Done
    BY <1>1, EndsTyped DEF LifeInv
  <1>3. task'[c].pc \notin Removing \cup Reauthorizing \cup {"download", "secrets", "row"}
    BY <1>2 DEF Done, Removing, Reauthorizing
  <1>4. Rows' = Rows
    BY <1>1 DEF Rows
  <1>5. task[c].provider # 0
    BY <1>1 DEF GoneInv
  <1>6. CASE files' = files
    <2>1. \A b \in deleted :
            b \notin Rows' /\ b \notin secrets' /\ b \notin files' /\ providers'[b] = 0
      BY <1>1, <1>4, <1>6 DEF GoneInv
    <2> QED
      BY <1>1, <1>2, <1>3, <2>1, LockedGone
  <1>7. CASE StillActive(c) /\ files' = files \cup {task[c].account}
    <2>1. task[c].account \notin deleted
      BY <1>5, <1>7 DEF StillActive, GoneInv
    <2>2. \A b \in deleted :
            b \notin Rows' /\ b \notin secrets' /\ b \notin files' /\ providers'[b] = 0
      BY <1>1, <1>4, <1>7, <2>1 DEF GoneInv
    <2> QED
      BY <1>1, <1>2, <1>3, <2>2, LockedGone
  <1> QED
    BY <1>6, <1>7 DEF FinishDownload

-----------------------------------------------------------------------------
(* Synchronisations, disconnects and restarts                              *)

LEMMA SyncGone ==
  ASSUME LifeInv, GoneInv, NEW c \in Client,
         \/ \E pc \in Syncing : task[c].pc \in Syncing /\ Goes(c, pc)
         \/ task[c].pc \in Syncing /\ Leaves(c)
         \/ Ends(c)
         \/ \E todo \in SUBSET Account : Syncs(c, todo),
         Rows' = Rows, UNCHANGED <<secrets, files, providers, deleted>>
  PROVE  GoneInv'
  <1>1. Others(c) /\ task'[c].pc \in {"idle"} \cup Adding \cup Syncing
    <2>1. ASSUME NEW pc \in Syncing, task[c].pc \in Syncing, Goes(c, pc)
          PROVE  Others(c) /\ task'[c].pc \in Syncing
      BY <2>1, GoesTyped DEF LifeInv, Others
    <2>2. CASE task[c].pc \in Syncing /\ Leaves(c)
      BY <2>2, LeavesTyped
    <2>3. CASE Ends(c)
      BY <2>3, EndsTyped, DoneTyped DEF LifeInv
    <2>4. ASSUME NEW todo \in SUBSET Account, Syncs(c, todo)
          PROVE  Others(c) /\ task'[c].pc \in Syncing
      BY <2>4 DEF Syncs, LifeInv, TypeOK, Others, Syncing
    <2> QED
      BY <2>1, <2>2, <2>3, <2>4
  <1> QED
    BY <1>1, QuietGone

LEMMA SynchronisationGone ==
  ASSUME LifeInv, GoneInv, NEW c \in Client,
         \/ SyncAll(c) \/ SyncOne(c) \/ VisitAccount(c) \/ EndSync(c) \/ StoreMailboxes(c)
         \/ SyncInbox(c) \/ ScheduleBackground(c) \/ FailSync(c)
  PROVE  GoneInv'
  <1>1. CASE SyncAll(c) \/ SyncOne(c)
    <2>1. PICK todo \in SUBSET Account : Syncs(c, todo)
      BY <1>1 DEF SyncAll, SyncOne, Selected
    <2>2. Rows' = Rows /\ UNCHANGED <<secrets, files, providers, deleted>>
      BY <2>1 DEF Syncs, Rows, tableVars, memoryVars, boundVars
    <2> QED
      BY <2>1, <2>2, SyncGone
  <1>2. CASE VisitAccount(c)
    <2>1. /\ Rows' = Rows /\ UNCHANGED <<secrets, files, providers, deleted>>
          /\ task[c].pc \in Syncing /\ "list" \in Syncing
      BY <1>2 DEF VisitAccount, Rows, tableVars, boundVars, Syncing, Passing
    <2> QED
      BY <1>2, <2>1, SyncGone DEF VisitAccount
  <1>3. CASE EndSync(c)
    <2>1. Rows' = Rows /\ UNCHANGED <<secrets, files, providers, deleted>>
      BY <1>3 DEF EndSync, Rows, tableVars, memoryVars, boundVars
    <2> QED
      BY <1>3, <2>1, SyncGone DEF EndSync
  <1>4. CASE StoreMailboxes(c)
    <2>1. /\ Rows' = Rows /\ UNCHANGED <<secrets, files, providers, deleted>>
          /\ task[c].pc \in Syncing /\ "inbox" \in Syncing
      BY <1>4 DEF StoreMailboxes, Rows, boundVars, Syncing, Passing
    <2> QED
      BY <1>4, <2>1, SyncGone DEF StoreMailboxes
  <1>5. CASE SyncInbox(c)
    <2>1. /\ Rows' = Rows /\ UNCHANGED <<secrets, files, providers, deleted>>
          /\ task[c].pc \in Syncing /\ "schedule" \in Syncing
      BY <1>5 DEF SyncInbox, Rows, tableVars, boundVars, Syncing, Passing
    <2> QED
      BY <1>5, <2>1, SyncGone DEF SyncInbox
  <1>6. CASE ScheduleBackground(c)
    <2>1. /\ Rows' = Rows /\ UNCHANGED <<secrets, files, providers, deleted>>
          /\ task[c].pc \in Syncing
      BY <1>6 DEF ScheduleBackground, Rows, tableVars, boundVars, Syncing, Passing
    <2> QED
      BY <1>6, <2>1, SyncGone DEF ScheduleBackground
  <1>7. CASE FailSync(c)
    <2>1. Visited(c) \in Account
      BY <1>7, VisitedTyped DEF FailSync, LifeInv, Passing
    <2>2. Rows' = Rows /\ UNCHANGED <<secrets, files, providers, deleted>>
      BY <1>7, <2>1, PersistTyped DEF FailSync, LifeInv
    <2> QED
      BY <1>7, <2>2, SyncGone DEF FailSync
  <1> QED
    BY <1>1, <1>2, <1>3, <1>4, <1>5, <1>6, <1>7

LEMMA AbortGone ==
  ASSUME LifeInv, GoneInv, NEW c \in Client, Abort(c)
  PROVE  GoneInv'
  <1>1. Ends(c) /\ Rows' = Rows /\ UNCHANGED <<secrets, files, providers, deleted>>
    BY DEF Abort, Rows, tableVars, memoryVars
  <1> QED
    BY <1>1, SyncGone

\* No request is about the four places.
LEMMA UntouchedGone ==
  ASSUME GoneInv, Rows' = Rows, UNCHANGED <<secrets, files, providers, deleted, task>>
  PROVE  GoneInv'
  BY DEF GoneInv

LEMMA PassGone ==
  ASSUME LifeInv, GoneInv, NEW a \in Account, Pass(a)
  PROVE  GoneInv'
  <1>1. PICK i \in DOMAIN background[a] : BackgroundPage(a, i) \/ ClosePass(a, i)
    BY DEF Pass
  <1>2. UNCHANGED <<mail, secrets, files, providers, deleted, task>>
    BY <1>1 DEF BackgroundPage, ClosePass, boundVars
  <1>3. UNCHANGED auth \/ PersistFailure(a) \/ SetAuthState(a, "ready")
    BY <1>1 DEF BackgroundPage, ClosePass
  <1>4. Rows' = Rows
    <2>1. CASE UNCHANGED auth
      BY <2>1 DEF Rows
    <2>2. CASE PersistFailure(a)
      BY <1>2, <2>2, PersistTyped DEF LifeInv
    <2>3. CASE SetAuthState(a, "ready")
      BY <1>2, <2>3, SetAuthTyped DEF LifeInv
    <2> QED
      BY <1>3, <2>1, <2>2, <2>3
  <1> QED
    BY <1>2, <1>4, UntouchedGone

\* Only an account with a row gets a provider.
LEMMA RestartGone ==
  ASSUME LifeInv, GoneInv, Restart
  PROVE  GoneInv'
  <1>1. task' = [c \in Client |-> Done] /\ UNCHANGED <<secrets, files, deleted>>
    BY DEF Restart
  <1>2. PICK restored \in SUBSET Rows, refused \in [Account -> {"needs_auth", "error"}] :
          /\ providers' = [a \in Account |-> IF a \in restored THEN instances + 1 ELSE 0]
          /\ auth' = [a \in Account |->
                        IF a \in restored THEN "ready"
                        ELSE IF a \in Rows THEN refused[a] ELSE "absent"]
    BY RestartRows
  <1>3. Rows' = Rows
    BY <1>2 DEF Rows
  <1>4. deleted \subseteq Account
    BY DEF LifeInv, TypeOK
  <1>5. \A a \in deleted' :
          a \notin Rows' /\ a \notin secrets' /\ a \notin files' /\ providers'[a] = 0
    BY <1>1, <1>2, <1>3, <1>4 DEF GoneInv
  <1>6. \A c \in Client :
          /\ task'[c].pc \notin Removing \cup Reauthorizing
          /\ task'[c].pc \notin {"secrets", "row", "download"}
    BY <1>1 DEF Done, Removing, Reauthorizing
  <1> QED
    BY <1>5, <1>6 DEF GoneInv

LEMMA GoneInit == Init => GoneInv
  <1> SUFFICES ASSUME NEW existing \in SUBSET Account, InitWith(existing)
               PROVE  GoneInv
    BY DEF Init
  <1>1. deleted = {} /\ \A c \in Client : task[c].pc = "idle"
    BY DEF InitWith, Done
  <1> QED
    BY <1>1 DEF GoneInv, Removing, Reauthorizing

LEMMA GoneNext == LifeInv /\ GoneInv /\ NoStrayReauth /\ [Next]_vars => GoneInv'
  <1> SUFFICES ASSUME LifeInv, GoneInv, NoStrayReauth, [Next]_vars
               PROVE  GoneInv'
    OBVIOUS
  <1>1. ASSUME NEW c \in Client, Request(c)
        PROVE  GoneInv'
    BY <1>1, RequestAddGone, RequestRemoveGone, RequestReauthGone, RequestDownloadGone
       DEF Request
  <1>2. ASSUME NEW c \in Client, SyncAll(c) \/ SyncOne(c)
        PROVE  GoneInv'
    BY <1>2, SynchronisationGone
  <1>3. ASSUME NEW c \in Client, Continue(c)
        PROVE  GoneInv'
    BY <1>3, CreateProviderGone, RegisterAccountGone, ActivateProviderGone, PurgeGone,
       DeleteSecretsGone, DeleteRowGone, ReauthorizeGone, FinishReauthGone,
       FinishDownloadGone, SynchronisationGone DEF Continue
  <1>4. CASE UNCHANGED vars
    <2>1. Rows' = Rows /\ UNCHANGED <<secrets, files, providers, deleted, task>>
      BY <1>4 DEF vars, tableVars, memoryVars, boundVars, Rows
    <2> QED
      BY <2>1, UntouchedGone
  <1> QED
    BY <1>1, <1>2, <1>3, <1>4, AbortGone, PassGone, RestartGone DEF Next

\* Once accounts.remove has carried out a removal, none of the four places holds
\* anything of the account again, whatever downloads, synchronisations, other
\* removals, disconnects and restarts go on, as long as no accounts.reauth of an
\* account races its removal.
THEOREM RemovalStays == Spec => RemovalIsFinal
  <1>1. LifeInv /\ GoneInv => NothingLeft
    BY DEF LifeInv, TypeOK, GoneInv, Rows, NothingLeft
  <1> QED
    BY <1>1, LifeInvariant, GoneInit, GoneNext, PTL DEF Spec, RemovalIsFinal

-----------------------------------------------------------------------------
(* The lock comes back                                                     *)

\* account_mutations is held only between two steps of an accounts.add or an
\* accounts.remove that has yet to give it back.
LockUsed == lock # Nobody => lock \in Client /\ task[lock].pc \in Locking

\* One request moves on: it keeps, takes or gives back the lock, or has none.
LEMMA LockStep ==
  ASSUME LockUsed, NEW c \in Client, Others(c),
         \/ lock' = Nobody
         \/ lock' \in {lock, c} /\ task'[c].pc \in Locking
         \/ lock' = lock /\ task[c].pc \notin Locking
  PROVE  LockUsed'
  BY DEF LockUsed, Others

LEMMA RequestLock ==
  ASSUME LifeInv, LockUsed, NEW c \in Client, Request(c)
  PROVE  LockUsed'
  <1>0. task = [d \in Client |-> task[d]]
    BY DEF LifeInv, TypeOK
  <1>1. ASSUME NEW t, Begins(c, t)
        PROVE  Others(c) /\ task'[c] = t /\ task[c].pc \notin Locking
    BY <1>0, <1>1 DEF Begins, Others, Locking, Adding, Removing
  <1>2. ASSUME NEW a \in Account, RequestAdd(c, a)
        PROVE  LockUsed'
    <2>1. \/ Begins(c, Done) /\ lock' = lock
          \/ Begins(c, [pc |-> "create", account |-> a, provider |-> 0]) /\ lock' = c
      BY <1>2 DEF RequestAdd
    <2> QED
      BY <1>1, <2>1, LockStep DEF Locking, Adding
  <1>3. ASSUME NEW a \in Account, RequestRemove(c, a)
        PROVE  LockUsed'
    <2>1. Begins(c, [pc |-> "purge", account |-> a, provider |-> providers[a]]) /\ lock' = c
      BY <1>3 DEF RequestRemove
    <2> QED
      BY <1>1, <2>1, LockStep DEF Locking, Removing
  <1>4. ASSUME NEW a \in Account, RequestReauth(c, a) \/ RequestDownload(c, a)
        PROVE  LockUsed'
    BY <1>1, <1>4, LockStep DEF RequestReauth, RequestDownload
  <1> QED
    BY <1>2, <1>3, <1>4 DEF Request

LEMMA ContinueLock ==
  ASSUME LifeInv, LockUsed, NEW c \in Client,
         Continue(c) \/ SyncAll(c) \/ SyncOne(c) \/ Abort(c)
  PROVE  LockUsed'
  <1>0. task = [d \in Client |-> task[d]] /\ TypeOK
    BY DEF LifeInv, TypeOK
  <1>1. ASSUME EndsUnlocking(c)
        PROVE  LockUsed'
    BY <1>1 DEF EndsUnlocking, LockUsed
  <1>2. ASSUME CreateProvider(c)
        PROVE  LockUsed'
    <2>1. CASE /\ task' = [task EXCEPT ![c] =
                  [pc |-> "created", account |-> @.account, provider |-> instances + 1]]
               /\ lock' = lock
      BY <1>0, <2>1, LockStep DEF Others, Locking, Adding
    <2> QED
      BY <1>1, <1>2, <2>1 DEF CreateProvider
  <1>3. ASSUME RegisterAccount(c)
        PROVE  LockUsed'
    <2>1. CASE Goes(c, "registered") /\ lock' = lock
      <3>1. task[c].pc \in Requesting /\ "registered" \in Requesting /\ "registered" \in Locking
        BY <1>3 DEF RegisterAccount, Requesting, Locking, Adding
      <3> QED
        BY <1>0, <2>1, <3>1, GoesTyped, LockStep DEF Others
    <2> QED
      BY <1>1, <1>3, <2>1 DEF RegisterAccount
  <1>4. ASSUME NEW pc \in Removing, task[c].pc \in Removing, Proceed(c, pc)
        PROVE  LockUsed'
    <2>1. Others(c) /\ task'[c].pc = pc /\ lock' = lock
      BY <1>4, ProceedTyped
    <2> QED
      BY <1>4, <2>1, LockStep DEF Locking
  <1>5. ASSUME ActivateProvider(c) \/ DeleteRow(c)
        PROVE  LockUsed'
    BY <1>1, <1>5 DEF ActivateProvider, DeleteRow, RollBack
  <1>6. ASSUME Purge(c) \/ DeleteSecrets(c)
        PROVE  LockUsed'
    <2>1. task[c].pc \in Removing /\ "secrets" \in Removing /\ "row" \in Removing
      BY <1>6 DEF Purge, DeleteSecrets, Removing
    <2> QED
      BY <1>1, <1>4, <1>6, <2>1 DEF Purge, DeleteSecrets, RollBack
  <1>7. ASSUME lock' = lock, task[c].pc \notin Locking, Others(c)
        PROVE  LockUsed'
    BY <1>7, LockStep
  <1>8. ASSUME NEW t, task' = [task EXCEPT ![c] = t]
        PROVE  Others(c)
    BY <1>0, <1>8 DEF Others
  <1>9. ASSUME Reauthorize(c) \/ FinishReauth(c) \/ FinishDownload(c)
        PROVE  LockUsed'
    <2>1. lock' = lock /\ task[c].pc \in {"reauth", "reauthorized", "download"}
      BY <1>9 DEF Reauthorize, FinishReauth, FinishDownload
    <2>2. Others(c)
      BY <1>8, <1>9 DEF Reauthorize, FinishReauth, FinishDownload, Goes, Ends
    <2> QED
      BY <1>7, <2>1, <2>2 DEF Locking, Adding, Removing
  <1>10. ASSUME \/ VisitAccount(c) \/ EndSync(c) \/ StoreMailboxes(c) \/ SyncInbox(c)
                \/ ScheduleBackground(c) \/ FailSync(c) \/ SyncAll(c) \/ SyncOne(c)
         PROVE  LockUsed'
    <2>1. lock' = lock /\ task[c].pc \in {"idle", "visit", "list", "inbox", "schedule"}
      BY <1>10 DEF VisitAccount, EndSync, StoreMailboxes, SyncInbox, ScheduleBackground,
         FailSync, SyncAll, SyncOne, Syncs
    <2>2. Others(c)
      BY <1>8, <1>10 DEF VisitAccount, EndSync, StoreMailboxes, SyncInbox,
         ScheduleBackground, FailSync, SyncAll, SyncOne, Syncs, Goes, Ends, Leaves
    <2> QED
      BY <1>7, <2>1, <2>2 DEF Locking, Adding, Removing
  <1>11. ASSUME Abort(c)
         PROVE  LockUsed'
    <2>1. lock' = (IF lock = c THEN Nobody ELSE lock) /\ Others(c)
      BY <1>8, <1>11 DEF Abort, Ends
    <2> QED
      BY <2>1 DEF LockUsed, Others
  <1> QED
    BY <1>2, <1>3, <1>5, <1>6, <1>9, <1>10, <1>11 DEF Continue

\* account_mutations is never left locked: whoever has it is at a step of an
\* addition or a removal that gives it back, whatever fails, disconnects or
\* restarts in between.
THEOREM LockComesBack == Spec => []LockUsed
  <1>1. Init => LockUsed
    BY DEF Init, InitWith, LockUsed
  <1>2. LifeInv /\ LockUsed /\ [Next]_vars => LockUsed'
    <2> SUFFICES ASSUME LifeInv, LockUsed, [Next]_vars
                 PROVE  LockUsed'
      OBVIOUS
    <2>1. CASE UNCHANGED <<lock, task>>
      BY <2>1 DEF LockUsed
    <2>2. CASE Restart
      BY <2>2 DEF Restart, LockUsed
    <2>3. ASSUME NEW a \in Account, Pass(a)
          PROVE  LockUsed'
      BY <2>1, <2>3 DEF Pass, BackgroundPage, ClosePass
    <2> QED
      BY <2>1, <2>2, <2>3, RequestLock, ContinueLock DEF Next, vars
  <1> QED
    BY <1>1, <1>2, LifeInvariant, PTL DEF Spec

-----------------------------------------------------------------------------
(* Why an account is marked as syncing                                     *)

Worked(a) == background[a] # <<>> \/ \E c \in Client : SyncsNow(c, a)

\* As long as no frontend disconnects in the middle of a synchronisation, an
\* account is marked only while a pass works on it.
MarkMeansPass == aborts = 0 => \A a \in syncing : Worked(a)

\* The passes that go on are still at work.
LEMMA MarkKept ==
  ASSUME MarkMeansPass, aborts' = aborts, NEW c \in Client, Others(c),
         \A a \in syncing' :
            \/ a \in syncing /\ background'[a] = background[a]
                 /\ (SyncsNow(c, a) => SyncsNow(c, a)')
            \/ background'[a] # <<>>
            \/ SyncsNow(c, a)'
  PROVE  MarkMeansPass'
  <1>1. ASSUME NEW a, NEW d \in Client, d # c, SyncsNow(d, a)
        PROVE  SyncsNow(d, a)'
    BY <1>1 DEF SyncsNow, Visited, Others
  <1>2. ASSUME NEW a \in syncing', aborts' = 0
        PROVE  Worked(a)'
    <2>1. CASE a \in syncing /\ background'[a] = background[a]
                 /\ (SyncsNow(c, a) => SyncsNow(c, a)')
      <3>1. Worked(a)
        BY <1>2, <2>1 DEF MarkMeansPass
      <3>2. CASE background[a] # <<>>
        BY <2>1, <3>2 DEF Worked
      <3>3. CASE \E d \in Client : SyncsNow(d, a)
        <4>1. PICK d \in Client : SyncsNow(d, a)
          BY <3>3
        <4>2. SyncsNow(d, a)'
          BY <1>1, <2>1, <4>1
        <4> QED
          BY <4>2 DEF Worked
      <3> QED
        BY <3>1, <3>2, <3>3 DEF Worked
    <2>2. CASE background'[a] # <<>>
      BY <2>2 DEF Worked
    <2>3. CASE SyncsNow(c, a)'
      BY <2>3 DEF Worked
    <2> QED
      BY <1>2, <2>1, <2>2, <2>3
  <1> QED
    BY <1>2 DEF MarkMeansPass

\* A request that is no synchronisation, or one that marks and visits nothing.
LEMMA MarkUntouched ==
  ASSUME MarkMeansPass, NEW c \in Client, Others(c), task[c].pc \notin Passing,
         UNCHANGED <<syncing, background, aborts>>
  PROVE  MarkMeansPass'
  <1>1. \A a : ~ SyncsNow(c, a)
    BY DEF SyncsNow, Passing
  <1> QED
    BY <1>1, MarkKept

\* A pass is given up with its mark.
LEMMA MarkDropped ==
  ASSUME MarkMeansPass, NEW c \in Client, Others(c), syncing' = syncing \ {Visited(c)},
         UNCHANGED <<background, aborts>>
  PROVE  MarkMeansPass'
  <1>1. \A a \in syncing' : a \in syncing /\ ~ SyncsNow(c, a)
    BY DEF SyncsNow
  <1> QED
    BY <1>1, MarkKept

\* A pass goes on to its next stage.
LEMMA MarkCarried ==
  ASSUME LifeInv, MarkMeansPass, NEW c \in Client, task[c].pc \in Syncing,
         NEW pc \in Passing, Goes(c, pc), syncing' \subseteq syncing \cup {Visited(c)},
         UNCHANGED <<background, aborts>>
  PROVE  MarkMeansPass'
  <1>1. /\ Others(c) /\ task'[c].pc = pc /\ task'[c].todo = task[c].todo
    BY GoesTyped DEF LifeInv, Others, Syncing
  <1>2. SyncsNow(c, Visited(c))'
    BY <1>1 DEF SyncsNow, Visited, Passing
  <1>3. ASSUME NEW a, SyncsNow(c, a)
        PROVE  SyncsNow(c, a)'
    BY <1>1, <1>3 DEF SyncsNow, Visited, Passing
  <1>4. ASSUME NEW a \in syncing'
        PROVE  a \in syncing \/ SyncsNow(c, a)'
    <2>1. a \in syncing \/ a = Visited(c)
      BY <1>4
    <2>2. CASE a = Visited(c)
      BY <2>2, <1>1 DEF SyncsNow, Visited, Passing
    <2> QED
      BY <2>1, <2>2
  <1> QED
    BY <1>1, <1>3, <1>4, MarkKept

LEMMA SyncMark ==
  ASSUME LifeInv, MarkMeansPass, NEW c \in Client,
         \/ VisitAccount(c) \/ StoreMailboxes(c) \/ SyncInbox(c) \/ ScheduleBackground(c)
         \/ FailSync(c)
  PROVE  MarkMeansPass'
  <1>0. task[c].pc \in Syncing /\ aborts' = aborts
    BY DEF VisitAccount, StoreMailboxes, SyncInbox, ScheduleBackground, FailSync,
       Syncing, Passing, boundVars
  <1>1. ASSUME Leaves(c) \/ Ends(c)
        PROVE  Others(c)
    BY <1>0, <1>1, LeavesTyped, EndsTyped DEF LifeInv
  <1>2. ASSUME VisitAccount(c)
        PROVE  MarkMeansPass'
    <2>1. task[c].pc \notin Passing /\ background' = background /\ "list" \in Passing
      BY <1>2 DEF VisitAccount, Passing
    <2>2. CASE Leaves(c) /\ UNCHANGED syncing
      BY <1>0, <1>1, <2>1, <2>2, MarkUntouched
    <2>3. CASE syncing' = syncing \cup {Visited(c)} /\ Goes(c, "list")
      BY <1>0, <2>1, <2>3, MarkCarried
    <2> QED
      BY <1>2, <2>2, <2>3 DEF VisitAccount
  <1>3. ASSUME StoreMailboxes(c) \/ SyncInbox(c) \/ FailSync(c)
        PROVE  MarkMeansPass'
    <2>1. background' = background /\ "inbox" \in Passing /\ "schedule" \in Passing
      BY <1>3 DEF StoreMailboxes, SyncInbox, FailSync, Passing
    <2>2. CASE syncing' = syncing \ {Visited(c)} /\ (Leaves(c) \/ Ends(c))
      BY <1>0, <1>1, <2>1, <2>2, MarkDropped
    <2>3. CASE (Goes(c, "inbox") \/ Goes(c, "schedule")) /\ UNCHANGED syncing
      BY <1>0, <2>1, <2>3, MarkCarried
    <2> QED
      BY <1>3, <2>2, <2>3 DEF StoreMailboxes, SyncInbox, FailSync
  <1>4. ASSUME ScheduleBackground(c)
        PROVE  MarkMeansPass'
    <2>1. Leaves(c) /\ Others(c)
      BY <1>1, <1>4 DEF ScheduleBackground
    <2>2. CASE syncing' = syncing \ {Visited(c)} /\ UNCHANGED background
      BY <1>0, <2>1, <2>2, MarkDropped
    <2>3. CASE /\ background' = [background EXCEPT ![Visited(c)] = Append(@, "page")]
               /\ UNCHANGED syncing
      <3>1. background \in [Account -> Seq({"page", "close"})] /\ syncing \subseteq Account
        BY TablesTyped
      <3>2. ASSUME NEW a \in syncing'
            PROVE  \/ /\ a \in syncing /\ background'[a] = background[a]
                      /\ SyncsNow(c, a) => SyncsNow(c, a)'
                   \/ background'[a] # <<>>
        <4>1. CASE a = Visited(c)
          <5>1. /\ background'[a] = Append(background[a], "page")
                /\ background[a] \in Seq({"page", "close"})
            BY <2>3, <3>1, <3>2, <4>1
          <5>2. Len(background'[a]) = Len(background[a]) + 1 /\ Len(background[a]) \in Nat
            BY <5>1
          <5> QED
            BY <5>2
        <4>2. CASE a # Visited(c)
          <5>1. a \in syncing /\ background'[a] = background[a]
            BY <2>3, <3>1, <3>2, <4>2
          <5>2. ~ SyncsNow(c, a)
            BY <4>2 DEF SyncsNow
          <5> QED
            BY <5>1, <5>2
        <4> QED
          BY <4>1, <4>2
      <3> QED
        BY <1>0, <2>1, <3>2, MarkKept
    <2> QED
      BY <1>4, <2>2, <2>3 DEF ScheduleBackground
  <1> QED
    BY <1>2, <1>3, <1>4

\* A background pass ends with its mark.
LEMMA PassMark ==
  ASSUME LifeInv, MarkMeansPass, NEW a \in Account, Pass(a)
  PROVE  MarkMeansPass'
  <1>1. PICK i \in DOMAIN background[a] : BackgroundPage(a, i) \/ ClosePass(a, i)
    BY DEF Pass
  <1>2. task' = task /\ aborts' = aborts
    BY <1>1 DEF BackgroundPage, ClosePass, boundVars
  <1>3. /\ background \in [Account -> Seq({"page", "close"})] /\ syncing \subseteq Account
        /\ background[a] \in Seq({"page", "close"}) /\ Len(background[a]) = 1
    BY TablesTyped, OneStage
  <1>4. /\ \A b \in syncing' : b \in syncing /\ (b # a => background'[b] = background[b])
        /\ a \in syncing' => background'[a] # <<>>
    <2>1. CASE Finish(a, i)
      BY <1>3, <2>1 DEF Finish
    <2>2. CASE background' = [background EXCEPT ![a][i] = "close"] /\ UNCHANGED syncing
      <3>1. background'[a] = [background[a] EXCEPT ![i] = "close"]
        BY <1>3, <2>2
      <3>2. Len(background'[a]) = 1
        BY <1>3, <3>1
      <3>3. Len(<<>>) = 0
        OBVIOUS
      <3>4. ASSUME background'[a] = <<>>
            PROVE  FALSE
        <4>1. Len(background'[a]) = Len(<<>>)
          BY <3>4, Zenon
        <4>2. Len(background'[a]) = 0
          BY <3>3, <4>1, Zenon
        <4>3. 1 = 0
          BY <3>2, <4>2, Zenon
        <4> QED
          BY <4>3
      <3> QED
        BY <1>3, <2>2, <3>4, Zenon
    <2> QED
      BY <1>1, <2>1, <2>2 DEF BackgroundPage, ClosePass
  <1>5. ASSUME NEW d, NEW b, SyncsNow(d, b)
        PROVE  SyncsNow(d, b)'
    BY <1>2, <1>5 DEF SyncsNow, Visited
  <1>6. ASSUME NEW b \in syncing', aborts' = 0
        PROVE  Worked(b)'
    <2>1. CASE b = a
      BY <1>4, <1>6, <2>1 DEF Worked
    <2>2. CASE b # a
      <3>1. Worked(b) /\ background'[b] = background[b]
        BY <1>2, <1>4, <1>6, <2>2 DEF MarkMeansPass
      <3>2. CASE background[b] # <<>>
        BY <3>1, <3>2 DEF Worked
      <3>3. CASE \E d \in Client : SyncsNow(d, b)
        BY <1>5, <3>3 DEF Worked
      <3> QED
        BY <3>1, <3>2, <3>3 DEF Worked
    <2> QED
      BY <2>1, <2>2
  <1> QED
    BY <1>6 DEF MarkMeansPass

\* The mark of background_syncing is given back by every way out of a pass, a
\* failure, a removal and the hand-over to the background included.  A frontend
\* that disconnects leaves it (sync_abandoned): the theorem is about runs in which
\* none does.
THEOREM MarkGivenBack == Spec => []MarkMeansPass
  <1>1. Init => MarkMeansPass
    BY DEF Init, InitWith, MarkMeansPass
  <1>2. LifeInv /\ MarkMeansPass /\ [Next]_vars => MarkMeansPass'
    <2> SUFFICES ASSUME LifeInv, MarkMeansPass, [Next]_vars
                 PROVE  MarkMeansPass'
      OBVIOUS
    <2>0. task = [d \in Client |-> task[d]] /\ aborts \in Nat
      BY DEF LifeInv, TypeOK
    <2>1. ASSUME NEW c \in Client, NEW t, task' = [task EXCEPT ![c] = t]
          PROVE  Others(c)
      BY <2>0, <2>1 DEF Others
    <2>2. ASSUME NEW c \in Client, Request(c) \/ SyncAll(c) \/ SyncOne(c)
          PROVE  MarkMeansPass'
      <3>1. task[c].pc \notin Passing /\ UNCHANGED <<syncing, background, aborts>>
        BY <2>2 DEF Request, RequestAdd, RequestRemove, RequestReauth, RequestDownload,
           Begins, SyncAll, SyncOne, Syncs, memoryVars, boundVars, Passing
      <3>2. Others(c)
        BY <2>1, <2>2 DEF Request, RequestAdd, RequestRemove, RequestReauth,
           RequestDownload, Begins, SyncAll, SyncOne, Syncs
      <3> QED
        BY <3>1, <3>2, MarkUntouched
    <2>3. ASSUME NEW c \in Client,
                 \/ CreateProvider(c) \/ RegisterAccount(c) \/ ActivateProvider(c)
                 \/ Purge(c) \/ DeleteSecrets(c) \/ DeleteRow(c) \/ Reauthorize(c)
                 \/ FinishReauth(c) \/ FinishDownload(c) \/ EndSync(c)
          PROVE  MarkMeansPass'
      <3>1. task[c].pc \notin Passing /\ UNCHANGED <<syncing, background, aborts>>
        BY <2>3 DEF CreateProvider, RegisterAccount, ActivateProvider, Purge, DeleteSecrets,
           DeleteRow, Reauthorize, FinishReauth, FinishDownload, EndSync, memoryVars,
           boundVars, Passing
      <3>2. Others(c)
        BY <2>1, <2>3 DEF CreateProvider, RegisterAccount, ActivateProvider, Purge,
           DeleteSecrets, DeleteRow, Reauthorize, FinishReauth, FinishDownload, EndSync,
           RollBack, Proceed, EndsUnlocking, Ends, Goes
      <3> QED
        BY <3>1, <3>2, MarkUntouched
    <2>4. ASSUME aborts' = aborts + 1
          PROVE  MarkMeansPass'
      BY <2>0, <2>4 DEF MarkMeansPass
    <2>5. CASE UNCHANGED vars
      BY <2>5 DEF vars, memoryVars, boundVars, MarkMeansPass, Worked, SyncsNow, Visited
    <2>6. ASSUME NEW c \in Client, Continue(c)
          PROVE  MarkMeansPass'
      BY <2>3, <2>6, SyncMark DEF Continue
    <2>7. ASSUME NEW c \in Client, Abort(c) \/ Restart
          PROVE  aborts' = aborts + 1
      BY <2>7 DEF Abort, Restart
    <2>8. Restart => aborts' = aborts + 1
      BY DEF Restart
    <2> QED
      BY <2>2, <2>4, <2>5, <2>6, <2>7, <2>8, PassMark DEF Next
  <1> QED
    BY <1>1, <1>2, LifeInvariant, PTL DEF Spec


-----------------------------------------------------------------------------
(* A removal that fails leaves the account as it was                       *)

\* The last step of an addition, and a removal, move a provider.
Carrying == {"registered"} \cup Removing

Moving(a) == \E c \in Client : task[c].pc \in Carrying /\ task[c].account = a

\* As long as no frontend disconnects in the middle of a request, every account
\* that has a row can be used: it has a provider and is not shown as removed,
\* unless it is being added or removed.
RowsUsable == aborts = 0 => \A a \in Rows : Active(a) \/ Moving(a)

\* What makes this inductive: who moves a provider has one in hand, and what is
\* marked as removed is gone or on its way.
InHand ==
    \A c \in Client :
        /\ task[c].pc \in {"created", "registered"} => task[c].provider # 0
        /\ task[c].pc \in Removing /\ task[c].account \in Rows => task[c].provider # 0

MarkedGone ==
    \A a \in removed :
        a \in deleted \/ \E c \in Client : task[c].pc \in Removing /\ task[c].account = a

UsableInv ==
    aborts = 0 =>
      /\ \A a \in Rows : Active(a) \/ Moving(a)
      /\ InHand
      /\ MarkedGone

\* A request that moves no provider keeps every account usable that was.
LEMMA QuietUsable ==
  ASSUME LifeInv, UsableInv, NEW c \in Client, Others(c),
         task[c].pc \notin Carrying, task'[c].pc \notin Carrying,
         task'[c].pc = "created" => task'[c].provider # 0,
         Rows' = Rows, removed' \subseteq removed, deleted' = deleted, aborts' = aborts,
         \A a \in Account : providers[a] # 0 => providers'[a] # 0
  PROVE  UsableInv'
  <1> SUFFICES ASSUME aborts = 0
               PROVE  /\ \A a \in Rows' : (Active(a) \/ Moving(a))'
                      /\ InHand'
                      /\ MarkedGone'
    BY DEF UsableInv
  <1>1. /\ \A a \in Rows : Active(a) \/ Moving(a)
        /\ InHand /\ MarkedGone
    BY DEF UsableInv
  <1>2. \A d \in Client : task[d].pc \in Carrying => d # c /\ task'[d] = task[d]
    BY DEF Others
  <1>3. ASSUME NEW a \in Rows'
        PROVE  (Active(a) \/ Moving(a))'
    <2>1. a \in Account /\ auth[a] # "absent" /\ auth'[a] # "absent"
      BY <1>3 DEF Rows
    <2>2. CASE Active(a)
      BY <2>1, <2>2 DEF Active
    <2>3. CASE Moving(a)
      BY <1>2, <2>3 DEF Moving
    <2> QED
      BY <1>1, <1>3, <2>2, <2>3
  <1>4. InHand'
    <2>1. ASSUME NEW d \in Client
          PROVE  /\ task'[d].pc \in {"created", "registered"} => task'[d].provider # 0
                 /\ task'[d].pc \in Removing /\ task'[d].account \in Rows => task'[d].provider # 0
      <3>1. CASE d = c
        BY <3>1 DEF Carrying
      <3>2. CASE d # c
        BY <1>1, <3>2 DEF InHand, Others
      <3> QED
        BY <3>1, <3>2
    <2> QED
      BY <2>1 DEF InHand
  <1>5. MarkedGone'
    BY <1>1, <1>2 DEF MarkedGone, Carrying
  <1> QED
    BY <1>3, <1>4, <1>5

\* The lock is with the one who moves a provider.
LEMMA CarriesAlone ==
  ASSUME LifeInv, NEW c \in Client, task[c].pc \in Carrying
  PROVE  lock = c /\ task[c].account \in Account /\ task[c].provider \in Nat
  <1>1. task[c].pc \in Locking /\ task[c].pc \in Requesting
    BY DEF Carrying, Locking, Requesting, Adding
  <1> QED
    BY <1>1, TaskTyped DEF LifeInv, TaskInv

\* A new account is usable, or still being added, and the others are untouched.
LEMMA RegisterUsable ==
  ASSUME LifeInv, UsableInv, NEW c \in Client, RegisterAccount(c)
  PROVE  UsableInv'
  <1> DEFINE a == task[c].account
  <1>1. /\ task[c].pc = "created" /\ removed' = removed \ {a}
        /\ UNCHANGED <<mail, secrets, files, providers, syncing, background, used, deleted,
                       instances, requests, aborts>>
    BY DEF RegisterAccount
  <1>2. /\ task[c].pc \in Requesting /\ task[c].pc \in Adding /\ task[c].pc \notin Carrying
        /\ "registered" \in Requesting /\ "registered" \in Carrying /\ "registered" \notin Removing
    BY <1>1 DEF Requesting, Locking, Adding, Carrying, Removing
  <1>3. CASE auth' = [auth EXCEPT ![a] = "ready"] /\ Goes(c, "registered")
    <2>1. /\ Others(c) /\ task'[c].pc = "registered" /\ task'[c].account = a
          /\ task'[c].provider = task[c].provider
      BY <1>2, <1>3, GoesTyped DEF LifeInv, Others
    <2>2. a \in Account /\ lock = c
      BY <1>2, AddingHas
    <2>3. \A b \in Account : b # a => auth'[b] = auth[b]
      BY <1>3, <2>2, TablesTyped
    <2> SUFFICES ASSUME aborts = 0
                 PROVE  /\ \A b \in Rows' : (Active(b) \/ Moving(b))'
                        /\ InHand'
                        /\ MarkedGone'
      BY <1>1 DEF UsableInv
    <2>4. /\ \A b \in Rows : Active(b) \/ Moving(b)
          /\ InHand /\ MarkedGone
      BY DEF UsableInv
    <2>5. \A d \in Client : task[d].pc \in Carrying => d # c /\ task'[d] = task[d]
      BY <1>2, <2>1 DEF Others
    <2>6. ASSUME NEW b \in Rows'
          PROVE  (Active(b) \/ Moving(b))'
      <3>1. CASE b = a
        BY <1>2, <2>1, <3>1 DEF Moving
      <3>2. CASE b # a
        <4>1. b \in Account /\ auth'[b] # "absent" /\ auth'[b] = auth[b] /\ b \in Rows
          BY <2>3, <2>6, <3>2 DEF Rows
        <4>2. Moving(b) => Moving(b)'
          BY <2>5 DEF Moving
        <4>3. Active(b) => Active(b)'
          BY <1>1, <4>1 DEF Active
        <4> QED
          BY <2>4, <4>1, <4>2, <4>3
      <3> QED
        BY <3>1, <3>2
    <2>7. InHand'
      <3>1. ASSUME NEW d \in Client
            PROVE  /\ task'[d].pc \in {"created", "registered"} => task'[d].provider # 0
                   /\ task'[d].pc \notin Removing
        <4>1. CASE d = c
          BY <1>1, <1>2, <2>1, <2>4, <4>1 DEF InHand
        <4>2. CASE d # c
          <5>1. task'[d] = task[d]
            BY <2>1, <4>2 DEF Others
          <5>2. task[d].pc \notin Removing
            BY <2>2, <4>2, CarriesAlone DEF Carrying
          <5> QED
            BY <2>4, <5>1, <5>2 DEF InHand
        <4> QED
          BY <4>1, <4>2
      <3> QED
        BY <3>1 DEF InHand
    <2>8. MarkedGone'
      BY <1>1, <2>4, <2>5 DEF MarkedGone, Carrying
    <2> QED
      BY <2>6, <2>7, <2>8
  <1>4. CASE EndsUnlocking(c) /\ UNCHANGED auth
    <2>1. Others(c) /\ task'[c] = Done
      BY <1>4, EndsTyped DEF LifeInv, EndsUnlocking
    <2>2. task'[c].pc \notin Carrying \cup {"created"}
      BY <2>1 DEF Done, Carrying, Removing
    <2>3. Rows' = Rows
      BY <1>4 DEF Rows
    <2>4. \A b \in Account : providers[b] # 0 => providers'[b] # 0
      BY <1>1
    <2> QED
      BY <1>1, <1>2, <2>1, <2>2, <2>3, <2>4, QuietUsable
  <1> QED
    BY <1>3, <1>4 DEF RegisterAccount


\* Who holds the lock is alone in moving a provider.
LEMMA AloneCarries ==
  ASSUME LifeInv, NEW c \in Client, lock \in {c, Nobody}
  PROVE  /\ \A d \in Client : task[d].pc \in Carrying => d = c /\ lock = c
         /\ \A a : Moving(a) => task[c].pc \in Carrying /\ task[c].account = a
  BY CarriesAlone, ClientAssumption DEF Moving

\* A move ends: its account has a provider and is not marked, or has no row.
LEMMA MoveEnds ==
  ASSUME LifeInv, UsableInv, NEW c \in Client, Others(c), task'[c] = Done,
         task[c].pc \in Carrying, aborts' = aborts, deleted \subseteq deleted',
         Rows' \subseteq Rows, removed' \subseteq removed,
         \A b \in Account : b # task[c].account => providers'[b] = providers[b],
         task[c].account \in Rows' =>
           task[c].account \notin removed' /\ providers'[task[c].account] # 0,
         task[c].account \in removed' => task[c].account \in deleted'
  PROVE  UsableInv'
  <1> DEFINE a == task[c].account
  <1> SUFFICES ASSUME aborts = 0
               PROVE  /\ \A b \in Rows' : (Active(b) \/ Moving(b))'
                      /\ InHand'
                      /\ MarkedGone'
    BY DEF UsableInv
  <1>1. /\ \A b \in Rows : Active(b) \/ Moving(b)
        /\ InHand /\ MarkedGone
    BY DEF UsableInv
  <1>2. lock = c
    BY CarriesAlone
  <1>3. \A d \in Client : task[d].pc \in Carrying => d = c
    BY <1>2, AloneCarries
  <1>4. ASSUME NEW b \in Rows'
        PROVE  Active(b)'
    <2>1. b \in Account /\ auth'[b] # "absent" /\ b \in Rows
      BY <1>4 DEF Rows
    <2>2. CASE b = a
      BY <2>1, <2>2 DEF Active
    <2>3. CASE b # a
      <3>1. Active(b)
        BY <1>1, <1>2, <2>1, <2>3, AloneCarries
      <3> QED
        BY <2>1, <2>3, <3>1 DEF Active
    <2> QED
      BY <2>2, <2>3
  <1>5. ASSUME NEW d \in Client
        PROVE  /\ task'[d].pc \in {"created", "registered"} => task'[d].provider # 0
               /\ task'[d].pc \notin Removing
    <2>1. CASE d = c
      BY <2>1 DEF Done, Removing
    <2>2. CASE d # c
      BY <1>1, <1>3, <2>2 DEF InHand, Others, Carrying
    <2> QED
      BY <2>1, <2>2
  <1>6. InHand'
    BY <1>5 DEF InHand
  <1>7. MarkedGone'
    <2>1. ASSUME NEW b \in removed'
          PROVE  b \in deleted'
      <3>1. CASE b = a
        BY <2>1, <3>1
      <3>2. CASE b # a
        BY <1>1, <1>3, <2>1, <3>2 DEF MarkedGone, Carrying
      <3> QED
        BY <3>1, <3>2
    <2> QED
      BY <2>1 DEF MarkedGone
  <1> QED
    BY <1>4, <1>6, <1>7

\* An account that is activated cannot be marked as removed: nothing has removed
\* it since its row was stored.
LEMMA ActivateUsable ==
  ASSUME LifeInv, UsableInv, NEW c \in Client, ActivateProvider(c)
  PROVE  UsableInv'
  <1> DEFINE a == task[c].account
  <1>1. /\ task[c].pc = "registered" /\ EndsUnlocking(c)
        /\ providers' = [providers EXCEPT ![a] = task[c].provider]
        /\ UNCHANGED <<tableVars, removed, syncing, background, boundVars>>
    BY DEF ActivateProvider
  <1>2. task[c].pc \in Carrying /\ task[c].pc \in Adding /\ task[c].pc \notin Removing
    BY <1>1 DEF Carrying, Adding, Removing
  <1>3. a \in Account /\ a \notin deleted /\ lock = c
    BY <1>2, AddingHas
  <1>4. Others(c) /\ task'[c] = Done
    BY <1>1, EndsTyped DEF LifeInv, EndsUnlocking
  <1>5. Rows' = Rows
    BY <1>1 DEF Rows, tableVars
  <1>6. /\ providers'[a] = task[c].provider
        /\ \A b \in Account : b # a => providers'[b] = providers[b]
    BY <1>1, <1>3 DEF LifeInv, TypeOK
  <1>7. CASE aborts = 0
    <2>1. task[c].provider # 0 /\ MarkedGone
      BY <1>1, <1>7 DEF UsableInv, InHand
    <2>2. a \notin removed
      BY <1>2, <1>3, <2>1, AloneCarries DEF MarkedGone, Carrying
    <2> QED
      BY <1>1, <1>2, <1>4, <1>5, <1>6, <2>1, <2>2, MoveEnds DEF boundVars
  <1>8. CASE aborts # 0
    BY <1>1, <1>8 DEF UsableInv, boundVars
  <1> QED
    BY <1>7, <1>8

\* A removal takes the provider of the account into its hand.
LEMMA RemoveUsable ==
  ASSUME LifeInv, UsableInv, NEW c \in Client, NEW a \in Account, RequestRemove(c, a)
  PROVE  UsableInv'
  <1> DEFINE t == [pc |-> "purge", account |-> a, provider |-> providers[a]]
  <1>1. /\ lock = Nobody /\ removed' = removed \cup {a}
        /\ providers' = [providers EXCEPT ![a] = 0]
        /\ task' = [task EXCEPT ![c] = t]
        /\ UNCHANGED <<tableVars, deleted, aborts>>
    BY DEF RequestRemove, Begins
  <1>2. /\ t.pc = "purge" /\ t.account = a /\ t.provider = providers[a]
        /\ t.pc \in Removing /\ t.pc \in Carrying /\ t.pc \notin {"created", "registered"}
    BY DEF Removing, Carrying
  <1> HIDE DEF t
  <1>3. Others(c) /\ task'[c] = t
    BY <1>1 DEF Others, LifeInv, TypeOK
  <1>4. Rows' = Rows
    BY <1>1 DEF Rows, tableVars
  <1>5. \A d \in Client : task[d].pc \notin Carrying
    BY <1>1, AloneCarries, ClientAssumption
  <1>6. \A b \in Account : b # a => providers'[b] = providers[b]
    BY <1>1 DEF LifeInv, TypeOK
  <1> SUFFICES ASSUME aborts = 0
               PROVE  /\ \A b \in Rows' : (Active(b) \/ Moving(b))'
                      /\ InHand'
                      /\ MarkedGone'
    BY <1>1 DEF UsableInv
  <1>7. /\ \A b \in Rows : Active(b)
        /\ InHand
        /\ \A b \in removed : b \in deleted
    <2>1. MarkedGone /\ InHand /\ \A b \in Rows : Active(b) \/ Moving(b)
      BY DEF UsableInv
    <2> QED
      BY <1>5, <2>1 DEF MarkedGone, Moving, Carrying
  <1>8. ASSUME NEW b \in Rows'
        PROVE  (Active(b) \/ Moving(b))'
    <2>1. b \in Account /\ auth'[b] # "absent" /\ b \in Rows
      BY <1>4, <1>8 DEF Rows
    <2>2. CASE b = a
      BY <1>2, <1>3, <2>2 DEF Moving
    <2>3. CASE b # a
      BY <1>1, <1>6, <1>7, <2>1, <2>3 DEF Active
    <2> QED
      BY <2>2, <2>3
  <1>9. InHand'
    <2>1. a \in Rows => providers[a] # 0
      BY <1>7 DEF Active
    <2>2. ASSUME NEW d \in Client
          PROVE  /\ task'[d].pc \in {"created", "registered"} => task'[d].provider # 0
                 /\ task'[d].pc \in Removing /\ task'[d].account \in Rows => task'[d].provider # 0
      <3>1. CASE d = c
        BY <1>2, <1>3, <2>1, <3>1
      <3>2. CASE d # c
        BY <1>3, <1>7, <3>2 DEF InHand, Others
      <3> QED
        BY <3>1, <3>2
    <2> QED
      BY <1>4, <2>2 DEF InHand
  <1>10. MarkedGone'
    <2>1. ASSUME NEW b \in removed'
          PROVE  b \in deleted' \/ \E d \in Client : task'[d].pc \in Removing /\ task'[d].account = b
      BY <1>1, <1>2, <1>3, <1>7, <2>1
    <2> QED
      BY <2>1 DEF MarkedGone
  <1> QED
    BY <1>8, <1>9, <1>10


\* A removal goes on with the same account and the same provider.
LEMMA ProceedUsable ==
  ASSUME LifeInv, UsableInv, NEW c \in Client, task[c].pc \in Removing,
         NEW pc \in Removing, Proceed(c, pc), Rows' = Rows, deleted' = deleted,
         aborts' = aborts
  PROVE  UsableInv'
  <1>1. /\ Others(c) /\ task'[c].pc = pc /\ task'[c].account = task[c].account
        /\ task'[c].provider = task[c].provider
        /\ UNCHANGED <<removed, providers>>
    BY ProceedTyped
  <1>2. pc \notin {"created", "registered"} /\ task[c].pc \notin {"created", "registered"}
    BY DEF Removing
  <1>3. \A d \in Client :
          /\ task'[d].account = task[d].account /\ task'[d].provider = task[d].provider
          /\ task'[d].pc \in Removing <=> task[d].pc \in Removing
          /\ task'[d].pc \in {"created", "registered"} => task[d].pc \in {"created", "registered"}
          /\ task[d].pc \in Carrying => task'[d].pc \in Carrying
    <2>1. ASSUME NEW d \in Client
          PROVE  /\ d = c => task'[d].account = task[d].account /\ task'[d].provider = task[d].provider
                          /\ task'[d].pc \in Removing /\ task[d].pc \in Removing
                          /\ task'[d].pc \notin {"created", "registered"}
                 /\ d # c => task'[d] = task[d]
      BY <1>1, <1>2 DEF Others
    <2> QED
      BY <2>1 DEF Carrying
  <1> SUFFICES ASSUME aborts = 0
               PROVE  /\ \A b \in Rows' : (Active(b) \/ Moving(b))'
                      /\ InHand'
                      /\ MarkedGone'
    BY DEF UsableInv
  <1>4. /\ \A b \in Rows : Active(b) \/ Moving(b)
        /\ InHand /\ MarkedGone
    BY DEF UsableInv
  <1>5. ASSUME NEW b \in Rows'
        PROVE  (Active(b) \/ Moving(b))'
    <2>1. b \in Account /\ auth'[b] # "absent" /\ b \in Rows
      BY <1>5 DEF Rows
    <2>2. Active(b) => Active(b)'
      BY <1>1, <2>1 DEF Active
    <2>3. Moving(b) => Moving(b)'
      BY <1>3 DEF Moving
    <2> QED
      BY <1>4, <2>1, <2>2, <2>3
  <1>6. InHand'
    BY <1>3, <1>4 DEF InHand
  <1>7. MarkedGone'
    BY <1>1, <1>3, <1>4 DEF MarkedGone
  <1> QED
    BY <1>5, <1>6, <1>7

\* The undoing of a removal gives the provider back.
LEMMA RollBackUsable ==
  ASSUME LifeInv, UsableInv, NEW c \in Client, task[c].pc \in Removing, RollBack(c),
         Rows' = Rows, deleted' = deleted, aborts' = aborts
  PROVE  UsableInv'
  <1> DEFINE a == task[c].account
  <1>1. Others(c) /\ task'[c] = Done
    BY RollBackTyped
  <1>2. task[c].pc \in Carrying
    BY DEF Carrying
  <1>3. a \in Account /\ task[c].provider \in Nat
    BY <1>2, CarriesAlone
  <1>4. /\ removed' = removed \ {a}
        /\ \A b \in Account : b # a => providers'[b] = providers[b]
        /\ task[c].provider # 0 => providers'[a] = task[c].provider
    BY <1>3 DEF RollBack, LifeInv, TypeOK
  <1>5. CASE aborts = 0
    <2>1. a \in Rows => task[c].provider # 0
      BY <1>5 DEF UsableInv, InHand
    <2> QED
      BY <1>1, <1>2, <1>4, <2>1, MoveEnds
  <1>6. CASE aborts # 0
    BY <1>6 DEF UsableInv
  <1> QED
    BY <1>5, <1>6

LEMMA RemovalUsable ==
  ASSUME LifeInv, UsableInv, NEW c \in Client, Purge(c) \/ DeleteSecrets(c) \/ DeleteRow(c)
  PROVE  UsableInv'
  <1>1. task[c].pc \in Removing /\ aborts' = aborts /\ "secrets" \in Removing /\ "row" \in Removing
    BY DEF Purge, DeleteSecrets, DeleteRow, Removing
  <1>2. CASE Purge(c) \/ DeleteSecrets(c)
    <2>1. Rows' = Rows /\ deleted' = deleted
      BY <1>2 DEF Purge, DeleteSecrets, Rows
    <2>2. (\E pc \in Removing : Proceed(c, pc)) \/ RollBack(c)
      BY <1>1, <1>2 DEF Purge, DeleteSecrets
    <2> QED
      BY <1>1, <2>1, <2>2, ProceedUsable, RollBackUsable
  <1>3. CASE DeleteRow(c)
    <2> DEFINE a == task[c].account
    <2>1. CASE /\ auth' = [auth EXCEPT ![a] = "absent"] /\ deleted' = deleted \cup {a}
               /\ EndsUnlocking(c) /\ UNCHANGED <<removed, providers>>
      <3>1. task[c].pc \in Carrying
        BY <1>1 DEF Carrying
      <3>2. a \in Account
        BY <3>1, CarriesAlone
      <3>3. Rows' \subseteq Rows /\ a \notin Rows'
        BY <2>1, <3>2, TablesTyped DEF Rows
      <3>4. Others(c) /\ task'[c] = Done
        BY <2>1, EndsTyped DEF LifeInv, EndsUnlocking
      <3> QED
        BY <1>1, <2>1, <3>1, <3>3, <3>4, MoveEnds
    <2>2. CASE RollBack(c) /\ UNCHANGED <<auth, deleted>>
      <3>1. Rows' = Rows
        BY <2>2 DEF Rows
      <3> QED
        BY <1>1, <2>2, <3>1, RollBackUsable
    <2> QED
      BY <1>3, <2>1, <2>2 DEF DeleteRow
  <1> QED
    BY <1>2, <1>3

\* accounts.add has constructed the provider it will activate.
LEMMA CreateUsable ==
  ASSUME LifeInv, UsableInv, NEW c \in Client, CreateProvider(c)
  PROVE  UsableInv'
  <1>1. /\ task[c].pc = "create" /\ UNCHANGED <<auth, memoryVars, deleted, aborts>>
    BY DEF CreateProvider
  <1>2. task[c].pc \notin Carrying
    BY <1>1 DEF Carrying, Removing
  <1>3. Rows' = Rows
    BY <1>1 DEF Rows
  <1>4. /\ Others(c) /\ task'[c].pc \notin Carrying
        /\ task'[c].pc = "created" => task'[c].provider # 0
    <2>1. instances \in Nat /\ task = [d \in Client |-> task[d]]
      BY DEF LifeInv, TypeOK
    <2>2. CASE task' = [task EXCEPT ![c] =
                 [pc |-> "created", account |-> @.account, provider |-> instances + 1]]
      <3>1. Others(c) /\ task'[c].pc = "created" /\ task'[c].provider = instances + 1
        BY <2>1, <2>2 DEF Others
      <3> QED
        BY <2>1, <3>1 DEF Carrying, Removing
    <2>3. CASE EndsUnlocking(c)
      BY <2>3, EndsTyped DEF LifeInv, EndsUnlocking, Done, Carrying, Removing
    <2> QED
      BY <2>2, <2>3 DEF CreateProvider
  <1> QED
    BY <1>1, <1>2, <1>3, <1>4, QuietUsable DEF memoryVars

LEMMA ReauthUsable ==
  ASSUME LifeInv, UsableInv, NEW c \in Client, Reauthorize(c) \/ FinishReauth(c)
  PROVE  UsableInv'
  <1> DEFINE a == task[c].account
  <1>1. /\ task[c].pc \in Reauthorizing
        /\ UNCHANGED <<mail, removed, deleted, aborts>>
    BY DEF Reauthorize, FinishReauth, memoryVars, boundVars, Reauthorizing
  <1>2. /\ task[c].pc \in Requesting /\ "reauthorized" \in Requesting
        /\ task[c].pc \notin Carrying /\ "reauthorized" \notin Carrying \cup {"created"}
    BY <1>1 DEF Requesting, Reauthorizing, Carrying, Removing
  <1>3. a \in Account /\ instances \in Nat /\ providers \in [Account -> 0..instances]
    BY <1>2, TaskTyped DEF LifeInv, TypeOK
  <1>4. Rows' = Rows
    <2>1. ASSUME NEW state \in {"ready", "needs_auth", "error"}, SetAuthState(a, state)
          PROVE  Rows' = Rows
      BY <1>1, <1>3, <2>1, SetAuthTyped DEF LifeInv
    <2>2. CASE auth' = auth
      BY <2>2 DEF Rows
    <2> QED
      BY <2>1, <2>2 DEF Reauthorize, FinishReauth
  <1>5. Others(c) /\ task'[c].pc \notin Carrying \cup {"created"}
    <2>1. CASE Goes(c, "reauthorized")
      BY <1>2, <2>1, GoesTyped DEF LifeInv, Others
    <2>2. CASE Ends(c)
      BY <2>2, EndsTyped DEF LifeInv, Done, Carrying, Removing
    <2> QED
      BY <2>1, <2>2 DEF Reauthorize, FinishReauth
  <1>6. \A b \in Account : providers[b] # 0 => providers'[b] # 0
    <2>1. CASE providers' = [providers EXCEPT ![a] = instances + 1]
      BY <1>3, <2>1
    <2>2. CASE providers' = providers
      BY <2>2
    <2> QED
      BY <2>1, <2>2 DEF Reauthorize, FinishReauth, memoryVars
  <1> QED
    BY <1>1, <1>2, <1>4, <1>5, <1>6, QuietUsable


\* accounts.add begins, a frontend turns to another request, or a pass makes its
\* next step.
LEMMA BesideUsable ==
  ASSUME LifeInv, UsableInv, NEW c \in Client,
         \/ \E a \in Account : RequestAdd(c, a) \/ RequestReauth(c, a) \/ RequestDownload(c, a)
         \/ SyncAll(c) \/ SyncOne(c) \/ FinishDownload(c) \/ VisitAccount(c) \/ EndSync(c)
         \/ StoreMailboxes(c) \/ SyncInbox(c) \/ ScheduleBackground(c) \/ FailSync(c)
  PROVE  UsableInv'
  <1>0. task = [d \in Client |-> task[d]] /\ TypeOK
    BY DEF LifeInv, TypeOK
  <1>1. UNCHANGED <<providers, removed, deleted, aborts>>
    BY DEF RequestAdd, RequestReauth, RequestDownload, Begins, SyncAll, SyncOne, Syncs,
       FinishDownload, VisitAccount, EndSync, StoreMailboxes, SyncInbox, ScheduleBackground,
       FailSync, memoryVars, boundVars
  <1>2. task[c].pc \in {"idle", "download"} \cup Syncing
    BY DEF RequestAdd, RequestReauth, RequestDownload, Begins, SyncAll, SyncOne, Syncs,
       FinishDownload, VisitAccount, EndSync, StoreMailboxes, SyncInbox, ScheduleBackground,
       FailSync, Syncing, Passing
  <1>3. Rows' = Rows
    <2>1. CASE FailSync(c)
      <3>1. task[c].pc \in Passing /\ mail' = mail /\ PersistFailure(Visited(c))
        BY <2>1 DEF FailSync, Passing
      <3> QED
        BY <3>1, VisitedTyped, PersistTyped DEF LifeInv
    <2>2. CASE ~FailSync(c)
      <3>1. auth' = auth
        BY <2>2 DEF RequestAdd, RequestReauth, RequestDownload, SyncAll, SyncOne, Syncs,
           FinishDownload, VisitAccount, EndSync, StoreMailboxes, SyncInbox,
           ScheduleBackground, tableVars
      <3> QED
        BY <3>1 DEF Rows
    <2> QED
      BY <2>1, <2>2
  <1>4. \/ Ends(c)
        \/ \E a \in Account, p \in Nat, pc \in {"create", "reauth", "download"} :
             task' = [task EXCEPT ![c] = [pc |-> pc, account |-> a, provider |-> p]]
        \/ \E s \in SUBSET Account : task' = [task EXCEPT ![c] = [pc |-> "visit", todo |-> s]]
        \/ task[c].pc \in Syncing /\ \E pc \in Passing : Goes(c, pc)
        \/ task[c].pc \in Syncing /\ Leaves(c)
    <2>1. ASSUME NEW a \in Account, RequestAdd(c, a) \/ RequestReauth(c, a)
          PROVE  \/ Ends(c)
                 \/ \E pc \in {"create", "reauth"} :
                      task' = [task EXCEPT ![c] = [pc |-> pc, account |-> a, provider |-> 0]]
      BY <2>1 DEF RequestAdd, RequestReauth, Begins, Ends
    <2>2. ASSUME NEW a \in Account, RequestDownload(c, a)
          PROVE  task' = [task EXCEPT ![c] =
                   [pc |-> "download", account |-> a, provider |-> providers[a]]]
      BY <2>2 DEF RequestDownload, Begins
    <2>3. \A a \in Account : providers[a] \in Nat
      <3>1. instances \in Nat /\ providers \in [Account -> 0..instances]
        BY DEF LifeInv, TypeOK
      <3> QED
        BY <3>1
    <2>4. ASSUME SyncAll(c) \/ SyncOne(c)
          PROVE  \E s \in SUBSET Account : task' = [task EXCEPT ![c] = [pc |-> "visit", todo |-> s]]
      <3>1. Selected \in SUBSET Account
        BY DEF Selected
      <3>2. \A a \in Account : {a} \in SUBSET Account
        OBVIOUS
      <3> QED
        BY <2>4, <3>1, <3>2 DEF SyncAll, SyncOne, Syncs
    <2>5. ASSUME \/ FinishDownload(c) \/ VisitAccount(c) \/ EndSync(c)
                 \/ StoreMailboxes(c) \/ SyncInbox(c) \/ ScheduleBackground(c) \/ FailSync(c)
          PROVE  \/ Ends(c)
                 \/ task[c].pc \in Syncing /\ \E pc \in Passing : Goes(c, pc)
                 \/ task[c].pc \in Syncing /\ Leaves(c)
      BY <2>5 DEF FinishDownload, VisitAccount, EndSync, StoreMailboxes, SyncInbox,
         ScheduleBackground, FailSync, Passing, Syncing
    <2> QED
      BY <2>1, <2>2, <2>3, <2>4, <2>5
  <1>5. Others(c) /\ task'[c].pc \in {"idle", "create", "reauth", "download"} \cup Syncing
    <2>1. CASE Ends(c)
      BY <1>0, <2>1, EndsTyped DEF Done
    <2>2. ASSUME NEW t, task' = [task EXCEPT ![c] = t]
          PROVE  Others(c) /\ task'[c] = t
      BY <1>0, <2>2 DEF Others
    <2>3. ASSUME NEW a \in Account, NEW p \in Nat, NEW pc \in {"create", "reauth", "download"},
                 task' = [task EXCEPT ![c] = [pc |-> pc, account |-> a, provider |-> p]]
          PROVE  Others(c) /\ task'[c].pc = pc
      BY <2>2, <2>3
    <2>4. ASSUME NEW s \in SUBSET Account,
                 task' = [task EXCEPT ![c] = [pc |-> "visit", todo |-> s]]
          PROVE  Others(c) /\ task'[c].pc = "visit"
      BY <2>2, <2>4
    <2>5. ASSUME task[c].pc \in Syncing, NEW pc \in Passing, Goes(c, pc)
          PROVE  Others(c) /\ task'[c].pc \in Syncing
      BY <1>0, <2>5, GoesTyped DEF Others, Syncing
    <2>6. ASSUME task[c].pc \in Syncing, Leaves(c)
          PROVE  Others(c) /\ task'[c].pc \in Syncing
      BY <2>6, LeavesTyped
    <2>7. "visit" \in Syncing
      BY DEF Syncing
    <2> DEFINE begun == Others(c)
                 /\ task'[c].pc \in {"idle", "create", "reauth", "download"} \cup Syncing
    <2>8. Ends(c) => begun
      BY <2>1
    <2>9. ASSUME NEW a \in Account, NEW p \in Nat, NEW pc \in {"create", "reauth", "download"},
                 task' = [task EXCEPT ![c] = [pc |-> pc, account |-> a, provider |-> p]]
          PROVE  begun
      BY <2>3, <2>9
    <2>10. ASSUME NEW s \in SUBSET Account,
                  task' = [task EXCEPT ![c] = [pc |-> "visit", todo |-> s]]
           PROVE  begun
      BY <2>4, <2>7, <2>10
    <2>11. ASSUME task[c].pc \in Syncing, NEW pc \in Passing, Goes(c, pc)
           PROVE  begun
      BY <2>5, <2>11
    <2>12. task[c].pc \in Syncing /\ Leaves(c) => begun
      BY <2>6
    <2> HIDE DEF begun
    <2>13. begun
      BY Zenon, <1>4, <2>8, <2>9, <2>10, <2>11, <2>12
    <2> QED
      BY <2>13 DEF begun
  <1> QED
    BY <1>1, <1>2, <1>3, <1>5, QuietUsable DEF Carrying, Removing, Syncing, Passing


\* A background pass, whose request is over, moves no provider either.
LEMMA PassUsable ==
  ASSUME LifeInv, UsableInv, NEW a \in Account, Pass(a)
  PROVE  UsableInv'
  <1>1. UNCHANGED <<mail, providers, removed, task, deleted, aborts>>
    BY DEF Pass, BackgroundPage, ClosePass, boundVars
  <1>2. Rows' = Rows
    <2>1. ASSUME PersistFailure(a)
          PROVE  Rows' = Rows
      BY <1>1, <2>1, PersistTyped DEF LifeInv
    <2>2. ASSUME SetAuthState(a, "ready")
          PROVE  Rows' = Rows
      BY <1>1, <2>2, SetAuthTyped DEF LifeInv
    <2>3. CASE auth' = auth
      BY <2>3 DEF Rows
    <2> QED
      BY <2>1, <2>2, <2>3 DEF Pass, BackgroundPage, ClosePass
  <1>3. \A b \in Rows' : b \in Rows /\ (Active(b) => Active(b)')
    BY <1>1, <1>2 DEF Rows, Active
  <1>4. \A b : Moving(b) => Moving(b)'
    BY <1>1 DEF Moving
  <1>5. (InHand => InHand') /\ (MarkedGone => MarkedGone')
    BY <1>1, <1>2 DEF InHand, MarkedGone
  <1> QED
    BY <1>1, <1>3, <1>4, <1>5 DEF UsableInv

LEMMA UsableNext == LifeInv /\ UsableInv /\ [Next]_vars => UsableInv'
  <1> SUFFICES ASSUME LifeInv, UsableInv, [Next]_vars
               PROVE  UsableInv'
    OBVIOUS
  <1>1. ASSUME NEW c \in Client, Request(c)
        PROVE  UsableInv'
    BY <1>1, RemoveUsable, BesideUsable DEF Request
  <1>2. ASSUME NEW c \in Client, Continue(c) \/ SyncAll(c) \/ SyncOne(c)
        PROVE  UsableInv'
    BY <1>2, CreateUsable, RegisterUsable, ActivateUsable, RemovalUsable, ReauthUsable,
       BesideUsable DEF Continue
  <1>3. ASSUME aborts' = aborts + 1
        PROVE  UsableInv'
    BY <1>3 DEF LifeInv, TypeOK, UsableInv
  <1>4. (\A c \in Client : Abort(c) => aborts' = aborts + 1) /\ (Restart => aborts' = aborts + 1)
    BY DEF Abort, Restart
  <1>5. CASE UNCHANGED vars
    <2>1. UNCHANGED <<auth, providers, removed, task, deleted, aborts>>
      BY <1>5 DEF vars, tableVars, memoryVars, boundVars
    <2>2. Rows' = Rows
      BY <2>1 DEF Rows
    <2>3. \A b \in Rows' : b \in Rows /\ (Active(b) => Active(b)')
      BY <2>1, <2>2 DEF Rows, Active
    <2>4. \A b : Moving(b) => Moving(b)'
      BY <2>1 DEF Moving
    <2>5. (InHand => InHand') /\ (MarkedGone => MarkedGone')
      BY <2>1, <2>2 DEF InHand, MarkedGone
    <2> QED
      BY <2>1, <2>3, <2>4, <2>5 DEF UsableInv
  <1> QED
    BY <1>1, <1>2, <1>3, <1>4, <1>5, PassUsable DEF Next

\* accounts.remove takes the provider out and marks the account before it deletes
\* anything; when the cache, the secrets or the row refuse, the account is usable
\* again as it was, whatever is reauthorised or synchronised meanwhile.  A frontend
\* that disconnects in between keeps it from being undone, and a restart may find a
\* provider it cannot restore: the theorem is about runs without either.
THEOREM RemovalUndone == Spec => []RowsUsable
  <1>1. Init => UsableInv
    <2> SUFFICES ASSUME NEW existing \in SUBSET Account, InitWith(existing)
                 PROVE  UsableInv
      BY DEF Init
    <2>1. Rows = existing
      BY DEF Rows, InitWith
    <2>2. \A a \in Rows : Active(a)
      BY <2>1 DEF Active, Rows, InitWith
    <2>3. \A c \in Client : task[c].pc = "idle"
      BY DEF InitWith, Done
    <2>4. InHand /\ MarkedGone
      BY <2>3 DEF InHand, MarkedGone, InitWith, Removing
    <2> QED
      BY <2>2, <2>4 DEF UsableInv
  <1>2. UsableInv => RowsUsable
    BY DEF UsableInv, RowsUsable
  <1> QED
    BY <1>1, <1>2, UsableNext, LifeInvariant, PTL DEF Spec

=============================================================================
