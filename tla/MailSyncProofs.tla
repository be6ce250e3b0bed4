--------------------------- MODULE MailSyncProofs ---------------------------
(***************************************************************************)
(* Proofs about MailSync, for every set of mailboxes, every visiting order, *)
(* every number of concurrent requests and every size of page and window.  *)
(***************************************************************************)
EXTENDS MailSyncFeed, FiniteSetTheorems, TLAPS

-----------------------------------------------------------------------------
(* Lemmas about the selections                                             *)

\* A page of the lowest UIDs has no gap: whatever is found below one of its
\* members is a member too (incremental_uid_page keeps the lowest of the hits).
LEMMA LowestIsInitial ==
    ASSUME NEW S \in SUBSET Nat, IsFiniteSet(S), NEW n \in Nat,
           NEW u \in Lowest(S, n), NEW v \in S, v <= u
    PROVE  v \in Lowest(S, n)
<1> DEFINE Below(x) == {w \in S : w < x}
<1>0. u \in S /\ Cardinality(Below(u)) < n
  BY DEF Lowest
<1>1. /\ Below(v) \subseteq Below(u)
      /\ Below(u) \subseteq S
      /\ Below(v) \subseteq S
  <2>1. u \in Nat /\ v \in Nat
    BY <1>0
  <2>2. ASSUME NEW w \in S, w < v
        PROVE  w < u
    <3>1. w \in Nat
      OBVIOUS
    <3> QED
      BY <2>1, <2>2, <3>1
  <2> QED
    BY <2>2
<1>2. /\ IsFiniteSet(Below(u))
      /\ IsFiniteSet(Below(v))
      /\ Cardinality(Below(v)) <= Cardinality(Below(u))
  BY <1>1, FS_Subset
<1>3. /\ Cardinality(Below(u)) \in Nat
      /\ Cardinality(Below(v)) \in Nat
  BY <1>2, FS_CardinalityType
<1>4. Cardinality(Below(v)) < n
  BY <1>0, <1>2, <1>3
<1> QED
  BY <1>4 DEF Lowest

\* What a function makes of a finite set is finite.
LEMMA ValuesFinite ==
    ASSUME NEW S, IsFiniteSet(S), NEW T, NEW f \in [S -> T],
           \A t \in T : \E x \in S : f[x] = t
    PROVE  IsFiniteSet(T)
<1>1. f \in Surjection(S, T)
  BY DEF Surjection
<1> QED
  BY <1>1, FS_Surjection

\* The UIDs of a finite mailbox form a finite set.
LEMMA UidsFinite ==
    ASSUME NEW mb, IsFiniteSet(box[mb])
    PROVE  IsFiniteSet(Uids(mb))
<1> DEFINE f == [e \in box[mb] |-> e.uid]
<1>1. /\ f \in [box[mb] -> Uids(mb)]
      /\ \A u \in Uids(mb) : \E e \in box[mb] : f[e] = u
  BY DEF Uids
<1> QED
  <2> HIDE DEF f
  <2> QED
    BY <1>1, ValuesFinite

\* A rebuilt mailbox gives every message a UID below the new UIDNEXT.
LEMMA RenumberedBelow ==
    ASSUME NEW mb, IsFiniteSet(box[mb]), box[mb] \subseteq Entry
    PROVE  /\ Renumbered(mb) \subseteq Entry
           /\ IsFiniteSet(Renumbered(mb))
           /\ Cardinality(box[mb]) \in Nat
           /\ \A e \in Renumbered(mb) : e.uid < Cardinality(box[mb]) + 1
<1> DEFINE Position(e) == Cardinality({f \in box[mb] : f.uid <= e.uid})
           Moved(e) == [e EXCEPT !.uid = Position(e)]
<1>1. Cardinality(box[mb]) \in Nat
  BY FS_CardinalityType
<1>2. ASSUME NEW e \in box[mb]
      PROVE  Position(e) \in Nat /\ Position(e) <= Cardinality(box[mb])
  <2>1. {f \in box[mb] : f.uid <= e.uid} \subseteq box[mb]
    OBVIOUS
  <2> QED
    BY <1>1, <2>1, FS_Subset, FS_CardinalityType
<1>3. Renumbered(mb) = {Moved(e) : e \in box[mb]}
  BY DEF Renumbered
<1>4. IsFiniteSet(Renumbered(mb))
  <2> HIDE DEF Moved
  <2> DEFINE f == [e \in box[mb] |-> Moved(e)]
  <2>1. /\ f \in [box[mb] -> Renumbered(mb)]
        /\ \A r \in Renumbered(mb) : \E e \in box[mb] : f[e] = r
    BY <1>3
  <2> QED
    <3> HIDE DEF f
    <3> QED
      BY <2>1, ValuesFinite
<1>5. ASSUME NEW e \in box[mb]
      PROVE  Moved(e) \in Entry /\ Moved(e).uid < Cardinality(box[mb]) + 1
  <2> HIDE DEF Position
  <2> QED
    BY <1>1, <1>2 DEF Entry
<1> QED
  <2> HIDE DEF Moved
  <2> QED
    BY <1>1, <1>3, <1>4, <1>5

-----------------------------------------------------------------------------
(* Types                                                                   *)

\* The position of a pass is a mailbox.
LEMMA HereIsMailbox ==
    ASSUME TypeOK
    PROVE  /\ sync \in SyncState
           /\ sync.at \in 1..Len(Order)
           /\ Here \in Mailbox
BY MailboxAssumption DEF TypeOK, SyncState, Here

\* The position a pass starts from, and the one after, are positions.
LEMMA IdleIsState ==
    /\ Idle(1) \in SyncState
    /\ \A at \in 1..Len(Order) : at < Len(Order) => Idle(at + 1) \in SyncState
<1>1. /\ DOMAIN Order = 1..Len(Order)
      /\ Len(Order) \in Nat
      /\ Len(Order) >= 1
  BY MailboxAssumption
<1>2. NoCursor \in Cursor
  BY DEF NoCursor, Cursor
<1>3. ASSUME NEW at \in 1..Len(Order)
      PROVE  Idle(at) \in SyncState
  BY <1>1, <1>2 DEF Idle, SyncState
<1> QED
  BY <1>1, <1>3

\* What other programs do to the mailboxes keeps every type.
LEMMA TypeServer ==
    ASSUME TypeOK, ServerNumbers, NEW mb \in Mailbox,
           Arrive(mb) \/ FlagElsewhere(mb) \/ ExpungeElsewhere(mb) \/ NewGeneration(mb)
    PROVE  TypeOK'
<1>1. CASE Arrive(mb)
  <2>1. [uid |-> nextUid[mb], msg |-> arrived + 1, seen |-> FALSE] \in Entry
    BY DEF TypeOK, Entry
  <2>2. box' \in [Mailbox -> SUBSET Entry]
    BY <1>1, <2>1 DEF TypeOK, Arrive
  <2>3. nextUid' \in [Mailbox -> Nat \ {0}]
    BY <1>1 DEF TypeOK, Arrive
  <2>4. arrived' \in Nat
    BY <1>1 DEF TypeOK, Arrive
  <2> QED
    BY <1>1, <2>2, <2>3, <2>4 DEF TypeOK, Arrive, cacheVars, taskVars, boundVars
<1>2. CASE FlagElsewhere(mb)
  <2>1. ASSUME NEW e \in box[mb]
        PROVE  [e EXCEPT !.seen = ~@] \in Entry
    <3>1. e \in Entry
      BY DEF TypeOK
    <3> QED
      BY <3>1, Zenon DEF Entry
  <2>2. box' \in [Mailbox -> SUBSET Entry]
    BY <1>2, <2>1 DEF TypeOK, FlagElsewhere
  <2> QED
    BY <1>2, <2>2 DEF TypeOK, FlagElsewhere, cacheVars, taskVars
<1>3. CASE ExpungeElsewhere(mb)
  BY <1>3 DEF TypeOK, ExpungeElsewhere, Entry, cacheVars, taskVars
<1>4. CASE NewGeneration(mb)
  <2>1. /\ Renumbered(mb) \subseteq Entry
        /\ Cardinality(box[mb]) \in Nat
    BY RenumberedBelow DEF TypeOK, ServerNumbers
  <2> QED
    BY <1>4, <2>1 DEF TypeOK, NewGeneration, cacheVars, taskVars, boundVars
<1> QED
  BY <1>1, <1>2, <1>3, <1>4

\* So does every step of run_background_sync.
LEMMA TypeSync ==
    ASSUME TypeOK, SyncStep \/ FailPass
    PROVE  TypeOK'
<1>0. /\ sync \in SyncState
      /\ Here \in Mailbox
      /\ sync.at \in 1..Len(Order)
  BY HereIsMailbox
<1> USE <1>0
<1>1. CASE BeginPage
  <2>1. {r.id : r \in NewestRows(Here)} \subseteq Id
    BY DEF TypeOK, NewestRows, RowsIn, Row
  <2>2. cursor[Here] \in Cursor
    BY DEF TypeOK
  <2>3. sync' \in SyncState
    BY <1>1, <2>1, <2>2 DEF BeginPage, SyncState
  <2> QED
    BY <1>1, <2>3 DEF TypeOK, BeginPage, serverVars, cacheVars, boundVars
<1>2. CASE SelectMailbox
  <2>1. generation[Here] \in Nat /\ nextUid[Here] - 1 \in Nat
    BY DEF TypeOK
  <2>2. sync' \in SyncState
    BY <1>2, <2>1 DEF SelectMailbox, SyncState
  <2> QED
    BY <1>2, <2>2 DEF TypeOK, SelectMailbox, serverVars, cacheVars, boundVars
<1>3. CASE SearchMailbox
  <2>1. Uids(Here) \subseteq Nat
    BY DEF TypeOK, Uids, Entry
  <2>2. /\ sync.cursor.last \in Nat
        /\ sync.through \in Nat
        /\ SearchCeiling \in Nat
    BY LimitAssumption DEF SyncState, Cursor, SearchCeiling
  <2>3. ASSUME SearchNothing
        PROVE  sync' \in SyncState
    BY <2>2, <2>3 DEF SearchNothing, SyncState
  <2>4. ASSUME SearchWindow
        PROVE  sync' \in SyncState
    <3>1. PICK found \in SUBSET Nat, high \in Nat :
            sync' = [sync EXCEPT !.pc = "searched", !.found = found, !.high = high]
      BY <2>1, <2>2, <2>4 DEF SearchWindow, Lowest
    <3> QED
      BY <3>1 DEF SyncState
  <2>5. ASSUME SearchRecent
        PROVE  sync' \in SyncState
    <3>1. PICK found \in SUBSET Nat, left \in SUBSET Nat :
            sync' = [sync EXCEPT !.pc = "searched", !.found = found,
                                 !.high = sync.through, !.left = left]
      BY <2>1, <2>5 DEF SearchRecent, Highest
    <3> QED
      BY <2>2, <3>1 DEF SyncState
  <2>6. sync' \in SyncState
    BY <1>3, <2>3, <2>4, <2>5 DEF SearchMailbox
  <2> QED
    BY <1>3, <2>6 DEF TypeOK, SearchMailbox, serverVars, cacheVars, boundVars
<1>4. CASE FetchEnvelopes
  BY <1>4 DEF TypeOK, FetchEnvelopes, SyncState, serverVars, cacheVars, boundVars
<1>5. CASE ConfirmGeneration
  BY <1>5, IdleIsState DEF TypeOK, ConfirmGeneration, SyncState, serverVars, cacheVars, boundVars
<1>6. CASE ApplyPage
  <2>1. /\ sync.page \subseteq Entry
        /\ sync.gen \in Nat
        /\ sync.high \in Nat
        /\ sync.left \subseteq Nat
    BY DEF SyncState
  <2>2. ASSUME NEW e \in sync.page
        PROVE  PageRow(e) \in Row
    <3>1. e.uid \in Nat /\ e.msg \in Nat /\ e.seen \in BOOLEAN
      BY <2>1 DEF Entry
    <3>2. IdOf(Here, sync.gen, e.uid) \in Id
      BY <2>1, <3>1 DEF IdOf, Id
    <3>3. (\E r \in Kept : r.id = IdOf(Here, sync.gen, e.uid) /\ r.loaded) \in BOOLEAN
      OBVIOUS
    <3> QED
      BY <3>1, <3>2, <3>3, Zenon DEF PageRow, Row
  <2>3. rows' \in SUBSET Row
    BY <1>6, <2>2 DEF TypeOK, ApplyPage, Upsert, Kept
  <2>4. cursor' \in [Mailbox -> Cursor]
    BY <1>6, <2>1 DEF TypeOK, ApplyPage, Cursor
  <2>5. skipped' \in [Mailbox -> SUBSET Nat]
    BY <1>6, <2>1 DEF TypeOK, ApplyPage
  <2>6. sync' \in SyncState
    BY <1>6, IdleIsState DEF ApplyPage
  <2> QED
    BY <1>6, <2>3, <2>4, <2>5, <2>6 DEF TypeOK, ApplyPage, serverVars, boundVars
<1>7. CASE RejectPage
  BY <1>7, IdleIsState DEF TypeOK, RejectPage, serverVars, cacheVars, boundVars
<1>8. CASE FailPass
  BY <1>8, IdleIsState DEF TypeOK, FailPass, serverVars, cacheVars
<1> QED
  BY <1>1, <1>2, <1>3, <1>4, <1>5, <1>6, <1>7, <1>8 DEF SyncStep

\* So does every step of a mail.action.
LEMMA TypeAct ==
    ASSUME TypeOK, NEW a \in Actor, QueueAction(a) \/ ActStep(a)
    PROVE  TypeOK'
<1>1. CASE QueueAction(a)
  BY <1>1 DEF TypeOK, QueueAction, ActState, Row, serverVars, cacheVars
<1>2. CASE ValidateAction(a)
  BY <1>2 DEF TypeOK, ValidateAction, ActState, serverVars, cacheVars, boundVars
<1>3. CASE ApplyAction(a)
  <2>1. /\ act[a] \in ActState
        /\ act[a].pc = "validated"
    BY <1>3 DEF TypeOK, ApplyAction
  <2>2. /\ act[a].id \in Id
        /\ act[a].change \in Change
    BY <2>1 DEF ActState
  <2>3. ASSUME NEW id \in Id, NEW change \in Change, ServerApplies(id, change)
        PROVE  box' \in [Mailbox -> SUBSET Entry] /\ nextUid' \in [Mailbox -> Nat \ {0}]
    <3>1. ASSUME NEW seen \in BOOLEAN, StoreFlag(id, seen)
          PROVE  box' \in [Mailbox -> SUBSET Entry] /\ nextUid' \in [Mailbox -> Nat \ {0}]
      <4>1. ASSUME NEW e \in Entry
            PROVE  [e EXCEPT !.seen = seen] \in Entry
        BY Zenon DEF Entry
      <4> QED
        BY <3>1, <4>1 DEF TypeOK, StoreFlag, Id
    <3>2. ASSUME NEW dest \in Mailbox, MoveUid(id, dest)
          PROVE  box' \in [Mailbox -> SUBSET Entry] /\ nextUid' \in [Mailbox -> Nat \ {0}]
      <4>1. ASSUME NEW e \in Entry
            PROVE  [e EXCEPT !.uid = nextUid[dest]] \in Entry
        BY DEF TypeOK, Entry
      <4> QED
        BY <3>2, <4>1 DEF TypeOK, MoveUid, Id
    <3> QED
      BY <2>3, <3>1, <3>2, MailboxAssumption DEF ServerApplies, Change
  <2>4. box' \in [Mailbox -> SUBSET Entry] /\ nextUid' \in [Mailbox -> Nat \ {0}]
    BY <1>3, <2>2, <2>3 DEF TypeOK, ApplyAction
  <2>5. act' \in [Actor -> ActState]
    BY <1>3, <2>1, <2>2 DEF TypeOK, ApplyAction, ActState
  <2> QED
    BY <1>3, <2>4, <2>5 DEF TypeOK, ApplyAction, cacheVars
<1>4. CASE FinishAction(a)
  <2>1. act' \in [Actor -> ActState]
    BY <1>4 DEF TypeOK, FinishAction, ActState, Done
  <2>2. Mirrored(act[a].id, act[a].change) \in SUBSET Row
    BY <1>4 DEF TypeOK, FinishAction, ActState, Mirrored, Row, Change
  <2>3. rows' \in SUBSET Row
    BY <1>4, <2>2 DEF TypeOK, FinishAction
  <2> QED
    BY <1>4, <2>1, <2>3 DEF TypeOK, FinishAction, serverVars, boundVars
<1> QED
  BY <1>1, <1>2, <1>3, <1>4 DEF ActStep

\* So does every step of a mail.get.
LEMMA TypeGet ==
    ASSUME TypeOK, NEW g \in Reader, OpenMessage(g) \/ GetStep(g)
    PROVE  TypeOK'
<1>1. CASE OpenMessage(g)
  BY <1>1 DEF TypeOK, OpenMessage, GetState, Row, serverVars, cacheVars
<1>2. CASE FetchMessage(g)
  BY <1>2 DEF TypeOK, FetchMessage, GetState, Done, Id, serverVars, cacheVars, boundVars
<1>3. CASE StoreMessage(g)
  <2>1. /\ get[g] \in GetState
        /\ get[g].pc = "fetched"
    BY <1>3 DEF TypeOK, StoreMessage
  <2>2. /\ get[g].id \in Id
        /\ get[g].entry \in Entry
    BY <2>1 DEF GetState
  <2>3. [id |-> get[g].id, mailbox |-> get[g].id.home, msg |-> get[g].entry.msg,
         seen |-> get[g].entry.seen, loaded |-> TRUE] \in Row
    <3>1. /\ get[g].id.home \in Mailbox
          /\ get[g].entry.msg \in Nat
          /\ get[g].entry.seen \in BOOLEAN
      BY <2>2 DEF Id, Entry
    <3> QED
      BY <2>2, <3>1, Zenon DEF Row
  <2>4. rows' \in SUBSET Row
    BY <1>3, <2>3 DEF TypeOK, StoreMessage, Upsert
  <2>5. get' \in [Reader -> GetState]
    BY <1>3 DEF TypeOK, StoreMessage, GetState, Done
  <2> QED
    BY <1>3, <2>4, <2>5 DEF TypeOK, StoreMessage, serverVars, boundVars
<1> QED
  BY <1>1, <1>2, <1>3 DEF GetStep

\* A restart empties memory and leaves the tables alone.
LEMMA TypeCrash ==
    ASSUME TypeOK, Crash
    PROVE  TypeOK'
BY IdleIsState DEF TypeOK, Crash, ActState, GetState, Done, serverVars, cacheVars

-----------------------------------------------------------------------------
(* What a step of the server may do to the numbers the daemon holds        *)

\* A mailbox gets a new generation, or keeps its UIDs and adds some from UIDNEXT.
ServerMoves ==
    \A mb \in Mailbox :
        \/ generation'[mb] > generation[mb]
        \/ /\ generation'[mb] = generation[mb]
           /\ nextUid'[mb] >= nextUid[mb]
           /\ \A e \in box'[mb] :
                \/ e.uid >= nextUid[mb]
                \/ \E f \in box[mb] : f.uid = e.uid

\* The changes other programs make on the server.
LEMMA ServerStepMoves ==
    ASSUME TypeOK, ServerNumbers, NEW mb \in Mailbox,
           Arrive(mb) \/ FlagElsewhere(mb) \/ ExpungeElsewhere(mb) \/ NewGeneration(mb)
    PROVE  ServerNumbers' /\ ServerMoves
<1> USE DEF TypeOK
<1>1. CASE Arrive(mb)
  <2> DEFINE new == [uid |-> nextUid[mb], msg |-> arrived + 1, seen |-> FALSE]
  <2>1. /\ box'[mb] = box[mb] \cup {new}
        /\ \A other \in Mailbox \ {mb} : box'[other] = box[other]
        /\ nextUid'[mb] = nextUid[mb] + 1
        /\ \A other \in Mailbox \ {mb} : nextUid'[other] = nextUid[other]
        /\ generation' = generation
    BY <1>1 DEF Arrive
  <2>2. new.uid = nextUid[mb]
    OBVIOUS
  <2> HIDE DEF new
  <2>3. IsFiniteSet(box'[mb])
    BY <2>1, FS_AddElement DEF ServerNumbers
  <2>4. ServerNumbers'
    <3> SUFFICES ASSUME NEW other \in Mailbox
                 PROVE  /\ IsFiniteSet(box'[other])
                        /\ \A f \in box'[other] : f.uid < nextUid'[other]
      BY DEF ServerNumbers
    <3>1. CASE other = mb
      <4>1. nextUid[mb] \in Nat
        OBVIOUS
      <4>2. ASSUME NEW f \in box[mb]
            PROVE  f.uid < nextUid[mb] + 1
        <5>1. f.uid \in Nat
          BY DEF Entry
        <5> QED
          BY <4>1, <5>1 DEF ServerNumbers
      <4>3. \A f \in box'[mb] : f.uid < nextUid[mb] + 1
        <5>1. nextUid[mb] < nextUid[mb] + 1
          BY <4>1
        <5> QED
          BY <2>1, <2>2, <4>2, <5>1
      <4> QED
        BY <2>1, <2>3, <3>1, <4>3
    <3>2. CASE other # mb
      BY <2>1, <3>2 DEF ServerNumbers
    <3> QED
      BY <3>1, <3>2
  <2>5. ServerMoves
    <3>1. \A other \in Mailbox : nextUid[other] \in Nat
      OBVIOUS
    <3> QED
      BY <2>1, <2>2, <3>1 DEF ServerMoves
  <2> QED
    BY <2>4, <2>5
<1>2. CASE FlagElsewhere(mb)
  <2>1. PICK e \in box[mb] : box' = [box EXCEPT ![mb] = (@ \ {e}) \cup {[e EXCEPT !.seen = ~@]}]
    BY <1>2 DEF FlagElsewhere
  <2>2. [e EXCEPT !.seen = ~@].uid = e.uid
    BY <2>1 DEF Entry
  <2>3. IsFiniteSet(box'[mb])
    BY <2>1, FS_AddElement, FS_RemoveElement DEF ServerNumbers
  <2>4. \A f \in box'[mb] : f \in box[mb] \/ f.uid = e.uid
    BY <2>1, <2>2
  <2>5. \A other \in Mailbox \ {mb} : box'[other] = box[other]
    BY <2>1
  <2>6. nextUid' = nextUid /\ generation' = generation
    BY <1>2 DEF FlagElsewhere
  <2> QED
    BY <2>3, <2>4, <2>5, <2>6 DEF ServerNumbers, ServerMoves, Entry
<1>3. CASE ExpungeElsewhere(mb)
  <2>1. /\ IsFiniteSet(box'[mb])
        /\ box'[mb] \subseteq box[mb]
        /\ \A other \in Mailbox \ {mb} : box'[other] = box[other]
        /\ nextUid' = nextUid /\ generation' = generation
    BY <1>3, FS_RemoveElement DEF ExpungeElsewhere, ServerNumbers
  <2> QED
    BY <2>1 DEF ServerNumbers, ServerMoves, Entry
<1>4. CASE NewGeneration(mb)
  <2>1. /\ IsFiniteSet(Renumbered(mb))
        /\ \A e \in Renumbered(mb) : e.uid < Cardinality(box[mb]) + 1
    BY RenumberedBelow DEF ServerNumbers
  <2>2. /\ box'[mb] = Renumbered(mb)
        /\ nextUid'[mb] = Cardinality(box[mb]) + 1
        /\ generation'[mb] = generation[mb] + 1
        /\ \A other \in Mailbox \ {mb} :
             /\ box'[other] = box[other]
             /\ nextUid'[other] = nextUid[other]
             /\ generation'[other] = generation[other]
    BY <1>4 DEF NewGeneration
  <2> QED
    BY <2>1, <2>2 DEF ServerNumbers, ServerMoves, Entry
<1> QED
  BY <1>1, <1>2, <1>3, <1>4

\* STORE changes no UID.
LEMMA StoreMoves ==
    ASSUME TypeOK, ServerNumbers, NEW id \in Id, NEW seen \in BOOLEAN,
           StoreFlag(id, seen), UNCHANGED generation
    PROVE  ServerNumbers' /\ ServerMoves
<1> DEFINE mb == id.home
           flagged(e) == IF e.uid = id.uid THEN [e EXCEPT !.seen = seen] ELSE e
<1>1. mb \in Mailbox
  BY DEF Id
<1>2. /\ box'[mb] = {flagged(e) : e \in box[mb]}
      /\ \A other \in Mailbox \ {mb} : box'[other] = box[other]
      /\ nextUid' = nextUid
  BY <1>1 DEF TypeOK, StoreFlag
<1>3. ASSUME NEW e \in box[mb]
      PROVE  flagged(e).uid = e.uid
  BY <1>1, <1>3 DEF TypeOK, Entry
<1> HIDE DEF flagged
<1>4. IsFiniteSet(box'[mb])
  <2> DEFINE f == [e \in box[mb] |-> flagged(e)]
  <2>1. /\ f \in [box[mb] -> box'[mb]]
        /\ \A r \in box'[mb] : \E e \in box[mb] : f[e] = r
    BY <1>2
  <2>2. IsFiniteSet(box[mb])
    BY <1>1 DEF ServerNumbers
  <2> QED
    <3> HIDE DEF f, mb
    <3> QED
      BY <2>1, <2>2, ValuesFinite
<1> QED
  <2>1. \A f \in box'[mb] : \E e \in box[mb] : f.uid = e.uid
    BY <1>2, <1>3
  <2>2. ServerNumbers'
    BY <1>1, <1>2, <1>4, <2>1 DEF ServerNumbers
  <2>3. ServerMoves
    BY <1>1, <1>2, <2>1 DEF TypeOK, ServerMoves
  <2> QED
    BY <2>2, <2>3

\* MOVE takes the UID out of its mailbox and a fresh one in the destination.
LEMMA MoveMoves ==
    ASSUME TypeOK, ServerNumbers, NEW id \in Id, NEW dest \in Mailbox,
           Issued(id.home, id.gen, id.uid), MoveUid(id, dest), UNCHANGED generation
    PROVE  /\ ServerNumbers' /\ ServerMoves
           /\ id.gen = generation[id.home] => \A e \in box'[id.home] : e.uid # id.uid
<1> DEFINE mb == id.home
<1>1. mb \in Mailbox
  BY DEF Id
<1>2. CASE id.uid \notin Uids(mb) /\ UNCHANGED <<box, nextUid>>
  BY <1>1, <1>2 DEF TypeOK, ServerNumbers, ServerMoves, Uids
<1>3. CASE ~(id.uid \notin Uids(mb) /\ UNCHANGED <<box, nextUid>>)
  <2>1. PICK e \in box[mb] :
          /\ e.uid = id.uid
          /\ box' = [m \in Mailbox |->
                        (IF m = mb THEN {f \in box[m] : f.uid # id.uid} ELSE box[m])
                          \cup IF m = dest THEN {[e EXCEPT !.uid = nextUid[dest]]} ELSE {}]
          /\ nextUid' = [nextUid EXCEPT ![dest] = @ + 1]
    BY <1>3 DEF MoveUid
  <2> DEFINE moved == [e EXCEPT !.uid = nextUid[dest]]
             rest == {f \in box[mb] : f.uid # id.uid}
  <2>2. moved.uid = nextUid[dest]
    BY <1>1 DEF TypeOK, Entry
  <2>a. \A other \in Mailbox : /\ nextUid[other] \in Nat
                               /\ \A f \in box[other] : f.uid \in Nat /\ f.uid < nextUid[other]
    BY DEF TypeOK, ServerNumbers, Entry
  <2> HIDE DEF moved, rest
  <2>3. /\ box'[mb] = IF mb = dest THEN rest \cup {moved} ELSE rest
        /\ dest # mb => box'[dest] = box[dest] \cup {moved}
        /\ \A other \in Mailbox \ {mb, dest} : box'[other] = box[other]
    <3>1. box' = [m \in Mailbox |-> (IF m = mb THEN rest ELSE box[m])
                                     \cup IF m = dest THEN {moved} ELSE {}]
      BY <2>1 DEF rest, moved
    <3> QED
      BY <1>1, <3>1
  <2>9. /\ rest \subseteq box[mb]
        /\ \A f \in rest : f.uid # id.uid
    BY DEF rest
  <2>8. /\ nextUid'[dest] = nextUid[dest] + 1
        /\ \A other \in Mailbox \ {dest} : nextUid'[other] = nextUid[other]
    BY <2>1 DEF TypeOK
  <2>4. IsFiniteSet(rest) /\ IsFiniteSet(rest \cup {moved}) /\ IsFiniteSet(box[dest] \cup {moved})
    <3>1. IsFiniteSet(box[mb]) /\ IsFiniteSet(box[dest])
      BY <1>1 DEF ServerNumbers
    <3>2. IsFiniteSet(rest)
      BY <2>9, <3>1, FS_Subset
    <3> QED
      BY <3>1, <3>2, FS_AddElement
  <2>5. ServerNumbers'
    <3> SUFFICES ASSUME NEW other \in Mailbox
                 PROVE  /\ IsFiniteSet(box'[other])
                        /\ \A f \in box'[other] : f.uid < nextUid'[other]
      BY DEF ServerNumbers
    <3>1. CASE other = dest
      <4>1. box'[dest] \subseteq box[dest] \cup {moved}
        BY <1>1, <2>3, <2>9
      <4>2. IsFiniteSet(box'[dest])
        BY <2>3, <2>4
      <4>3. \A f \in box'[dest] : f.uid < nextUid[dest] + 1
        BY <2>a, <2>2, <4>1
      <4> QED
        BY <2>8, <3>1, <4>2, <4>3
    <3>2. CASE other # dest
      BY <1>1, <2>3, <2>4, <2>8, <2>9, <3>2 DEF ServerNumbers
    <3> QED
      BY <3>1, <3>2
  <2>6. ServerMoves
    BY <1>1, <2>2, <2>3, <2>8, <2>9 DEF TypeOK, ServerMoves
  <2>7. mb = dest /\ id.gen = generation[mb] => nextUid[dest] # id.uid
    BY <1>1 DEF TypeOK, Issued, Id
  <2> QED
    BY <2>2, <2>3, <2>5, <2>6, <2>7, <2>9
<1> QED
  BY <1>2, <1>3

-----------------------------------------------------------------------------
(* The inductive invariant                                                 *)

\* A new database and an idle daemon satisfy the inductive invariant.
LEMMA InitIInv == Init => IInv
<1> SUFFICES ASSUME Init PROVE IInv
  OBVIOUS
<1>1. TypeOK
  BY IdleIsState DEF Init, TypeOK, NoCursor, Cursor, ActState, GetState, Done
<1>2. ServerNumbers
  BY FS_EmptySet DEF Init, ServerNumbers
<1>3. IdsIssued
  BY DEF Init, IdsIssued, Idle, Done
<1>4. CursorsIssued
  BY DEF Init, CursorsIssued, Issued, NoCursor
<1>5. PassStarted /\ PassSelected /\ PassSearched /\ PassFetched
  BY DEF Init, PassStarted, PassSelected, PassSearched, PassFetched, Idle
<1>6. MovesTookEffect
  BY DEF Init, MovesTookEffect, Done
<1>7. CursorCovers
  BY DEF Init, CursorCovers
<1> QED
  BY <1>1, <1>2, <1>3, <1>4, <1>5, <1>6, <1>7 DEF IInv

\* The numbers are naturals, wherever they are kept.
LEMMA Numbers ==
    ASSUME TypeOK
    PROVE  /\ \A mb \in Mailbox : generation[mb] \in Nat /\ nextUid[mb] \in Nat
           /\ \A mb \in Mailbox : \A e \in box[mb] : e.uid \in Nat
           /\ \A mb \in Mailbox : cursor[mb].gen \in Nat /\ cursor[mb].last \in Nat
           /\ \A r \in rows : r.id \in Id
           /\ \A id \in sync.known : id \in Id
           /\ \A id \in Id : id.home \in Mailbox /\ id.gen \in Nat /\ id.uid \in Nat
           /\ sync.cursor.gen \in Nat /\ sync.cursor.last \in Nat
           /\ sync.gen \in Nat /\ sync.through \in Nat /\ sync.high \in Nat
           /\ \A u \in sync.found : u \in Nat
           /\ \A e \in sync.page : e \in Entry
           /\ \A a \in Actor : act[a].pc # "idle" => act[a].id \in Id
           /\ \A g \in Reader : get[g].pc # "idle" => get[g].id \in Id
<1>1. sync \in SyncState
  BY DEF TypeOK
<1>2. /\ sync.cursor.gen \in Nat /\ sync.cursor.last \in Nat
      /\ sync.gen \in Nat /\ sync.through \in Nat /\ sync.high \in Nat
      /\ \A u \in sync.found : u \in Nat
      /\ \A id \in sync.known : id \in Id
      /\ \A e \in sync.page : e \in Entry
  BY <1>1 DEF SyncState, Cursor
<1>3. \A a \in Actor : act[a].pc # "idle" => act[a].id \in Id
  BY DEF TypeOK, ActState
<1>4. \A g \in Reader : get[g].pc # "idle" => get[g].id \in Id
  BY DEF TypeOK, GetState
<1>5. /\ \A mb \in Mailbox : generation[mb] \in Nat /\ nextUid[mb] \in Nat
      /\ \A mb \in Mailbox : \A e \in box[mb] : e.uid \in Nat
      /\ \A mb \in Mailbox : cursor[mb].gen \in Nat /\ cursor[mb].last \in Nat
      /\ \A r \in rows : r.id \in Id
  BY DEF TypeOK, Entry, Cursor, Row
<1>6. \A id \in Id : id.home \in Mailbox /\ id.gen \in Nat /\ id.uid \in Nat
  BY DEF Id
<1> QED
  BY <1>2, <1>3, <1>4, <1>5, <1>6

\* What was issued stays issued.
LEMMA IssuedStays ==
    ASSUME TypeOK, TypeOK', ServerMoves
    PROVE  \A mb \in Mailbox, gen \in Nat, uid \in Nat :
               Issued(mb, gen, uid) =>
                   /\ gen <= generation'[mb]
                   /\ gen = generation'[mb] => /\ gen = generation[mb]
                                               /\ uid < nextUid'[mb]
                                               /\ uid < nextUid[mb]
<1>1. \A mb \in Mailbox : /\ generation[mb] \in Nat /\ generation'[mb] \in Nat
                          /\ nextUid[mb] \in Nat /\ nextUid'[mb] \in Nat
  BY DEF TypeOK
<1> QED
  BY <1>1 DEF Issued, ServerMoves

\* A UID issued before the step is on the server after it only if it was before.
LEMMA NothingReturns ==
    ASSUME TypeOK, TypeOK', ServerMoves
    PROVE  \A mb \in Mailbox, uid \in Nat :
               generation'[mb] = generation[mb] /\ uid < nextUid[mb] =>
                   \A e \in box'[mb] : e.uid = uid => \E f \in box[mb] : f.uid = uid
<1>1. \A mb \in Mailbox : /\ generation[mb] \in Nat /\ generation'[mb] \in Nat
                          /\ nextUid[mb] \in Nat
  BY DEF TypeOK
<1> QED
  BY <1>1 DEF ServerMoves

\* A step of the server, whoever asked for it, keeps what the daemon relies on.
LEMMA ServerStepKeeps ==
    ASSUME IInv, TypeOK', ServerMoves, UNCHANGED <<rows, cursor, skipped, sync, get>>,
           \A a \in Actor :
               act'[a].pc # "idle" => act[a].pc # "idle" /\ act'[a].id = act[a].id
    PROVE  /\ IdsIssued' /\ CursorsIssued' /\ CursorCovers'
           /\ PassStarted' /\ PassSelected' /\ PassSearched' /\ PassFetched'
<1>0. TypeOK /\ Here \in Mailbox /\ Here' = Here
  BY HereIsMailbox DEF IInv, Here
<1> DEFINE StillIssued(mb, gen, uid) ==
             /\ gen <= generation'[mb]
             /\ gen = generation'[mb] => uid < nextUid'[mb]
<1>1. \A mb \in Mailbox, gen \in Nat, uid \in Nat :
        Issued(mb, gen, uid) => StillIssued(mb, gen, uid)
  BY <1>0, IssuedStays
<1>2. IdsIssued'
  <2>1. \A r \in rows' : StillIssued(r.id.home, r.id.gen, r.id.uid)
    BY <1>0, <1>1, Numbers DEF IInv, IdsIssued
  <2>2. \A id \in sync'.known : StillIssued(id.home, id.gen, id.uid)
    BY <1>0, <1>1, Numbers DEF IInv, IdsIssued
  <2>3. \A a \in Actor :
          act'[a].pc # "idle" => StillIssued(act'[a].id.home, act'[a].id.gen, act'[a].id.uid)
    BY <1>0, <1>1, Numbers DEF IInv, IdsIssued
  <2>4. \A g \in Reader :
          get'[g].pc # "idle" => StillIssued(get'[g].id.home, get'[g].id.gen, get'[g].id.uid)
    BY <1>0, <1>1, Numbers DEF IInv, IdsIssued
  <2> QED
    BY <2>1, <2>2, <2>3, <2>4 DEF IdsIssued, Issued
<1>3. CursorsIssued'
  BY <1>0, <1>1, Numbers DEF IInv, CursorsIssued, Issued
<1>4. CursorCovers'
  <2> SUFFICES ASSUME NEW mb \in Mailbox, cursor[mb].gen = generation'[mb],
                      NEW e \in box'[mb],
                      e.uid <= cursor[mb].last, e.uid \notin skipped[mb]
               PROVE  \E r \in rows : r.id = IdOf(mb, generation'[mb], e.uid) /\ r.mailbox = mb
    BY DEF CursorCovers, Cached, IdOf
  <2>1. cursor[mb].gen = generation[mb] /\ cursor[mb].last < nextUid[mb]
    BY <1>0, IssuedStays, Numbers DEF IInv, CursorsIssued
  <2>2. e.uid \in Nat
    BY DEF TypeOK, Entry
  <2>3. e.uid < nextUid[mb]
    BY <1>0, <2>1, <2>2, Numbers
  <2>4. PICK f \in box[mb] : f.uid = e.uid
    BY <1>0, <2>1, <2>2, <2>3, NothingReturns
  <2> QED
    BY <2>1, <2>4 DEF IInv, CursorCovers, Cached, IdOf
<1>5. PassStarted'
  BY <1>0 DEF IInv, PassStarted, Here
<1>6. PassSelected'
  BY <1>0, <1>1, Numbers DEF IInv, PassSelected, Issued
<1>7. PassSearched'
  <2> SUFFICES ASSUME sync.pc \in {"searched", "fetched", "confirmed"}
               PROVE  PassSearched'
    BY DEF PassSearched
  <2>1. StillIssued(Here, sync.gen, sync.high)
    BY <1>0, <1>1, Numbers DEF IInv, PassSearched
  <2>2. \A u \in sync.found : StillIssued(Here, sync.gen, u)
    BY <1>0, <1>1, Numbers DEF IInv, PassSearched
  <2>3. ASSUME sync.gen = generation'[Here], NEW e \in box'[Here], e.uid <= sync.high
        PROVE  \/ e.uid \in sync.found
               \/ SameGeneration /\ e.uid <= sync.cursor.last
               \/ ~SameGeneration /\ e.uid \in sync.left
    <3>1. sync.gen = generation[Here] /\ sync.high < nextUid[Here]
      BY <1>0, <2>3, IssuedStays, Numbers DEF IInv, PassSearched
    <3>2. e.uid \in Nat
      BY <1>0 DEF TypeOK, Entry
    <3>3. e.uid < nextUid[Here]
      BY <1>0, <2>3, <3>1, <3>2, Numbers
    <3>4. PICK f \in box[Here] : f.uid = e.uid
      BY <1>0, <2>3, <3>1, <3>2, <3>3, NothingReturns
    <3> QED
      BY <2>3, <3>1, <3>4 DEF IInv, PassSearched
  <2>4. SameGeneration => sync.cursor.last <= sync.high
    BY DEF IInv, PassSearched
  <2> QED
    BY <1>0, <2>1, <2>2, <2>3, <2>4 DEF PassSearched, SameGeneration, Issued
<1>8. PassFetched'
  <2>0. Requested' = Requested
    BY <1>0 DEF Requested, Reconciled, SameGeneration
  <2> SUFFICES ASSUME sync.pc \in {"fetched", "confirmed"}, sync.gen = generation'[Here],
                      NEW e \in box'[Here], e.uid \in Requested
               PROVE  \E p \in sync.page : p.uid = e.uid
    BY <1>0, <2>0 DEF IInv, PassFetched
  <2>1. \/ e.uid \in sync.found
        \/ \E id \in sync.known : id.home = Here /\ id.gen = sync.gen /\ id.uid = e.uid
    BY DEF Requested, Reconciled
  <2>2. Issued(Here, sync.gen, e.uid)
    BY <2>1 DEF IInv, PassSearched, IdsIssued
  <2>3. e.uid \in Nat
    BY <1>0 DEF TypeOK, Entry
  <2>4. sync.gen = generation[Here] /\ e.uid < nextUid[Here]
    BY <1>0, <2>2, <2>3, IssuedStays, Numbers
  <2>5. PICK f \in box[Here] : f.uid = e.uid
    BY <1>0, <2>3, <2>4, NothingReturns
  <2> QED
    BY <2>4, <2>5 DEF IInv, PassFetched
<1> QED
  BY <1>2, <1>3, <1>4, <1>5, <1>6, <1>7, <1>8

\* A UID that was moved away does not come back.
LEMMA MovesStayTrue ==
    ASSUME TypeOK, TypeOK', ServerMoves, MovesTookEffect, IdsIssued
    PROVE  \A a \in Actor :
               /\ act[a].pc = "accepted"
               /\ act[a].change.kind # "mark_read"
               /\ act[a].id.gen = generation'[act[a].id.home]
               => \A e \in box'[act[a].id.home] : e.uid # act[a].id.uid
<1> SUFFICES ASSUME NEW a \in Actor,
                    act[a].pc = "accepted", act[a].change.kind # "mark_read",
                    act[a].id.gen = generation'[act[a].id.home],
                    NEW e \in box'[act[a].id.home], e.uid = act[a].id.uid
             PROVE  FALSE
  OBVIOUS
<1>1. act[a].id \in Id /\ act[a].id.home \in Mailbox /\ act[a].id.gen \in Nat /\ act[a].id.uid \in Nat
  BY Numbers
<1>2. Issued(act[a].id.home, act[a].id.gen, act[a].id.uid)
  BY DEF IdsIssued
<1>3. act[a].id.gen = generation[act[a].id.home] /\ act[a].id.uid < nextUid[act[a].id.home]
  BY <1>1, <1>2, IssuedStays
<1>4. /\ act[a].id.gen = generation'[act[a].id.home]
      /\ act[a].id.gen = generation[act[a].id.home]
      /\ act[a].id.uid < nextUid[act[a].id.home]
  BY <1>3
<1>5. \E f \in box[act[a].id.home] : f.uid = act[a].id.uid
  <2> DEFINE home == act[a].id.home
             uid == act[a].id.uid
  <2>1. home \in Mailbox /\ uid \in Nat /\ generation'[home] = generation[home]
        /\ uid < nextUid[home]
    BY <1>1, <1>4
  <2>2. e \in box'[home] /\ e.uid = uid
    OBVIOUS
  <2> HIDE DEF home, uid
  <2>3. \E f \in box[home] : f.uid = e.uid
    BY <2>1, <2>2, NothingReturns
  <2> QED
    BY <2>2, <2>3 DEF home, uid
<1> QED
  BY <1>3, <1>5 DEF MovesTookEffect

\* What other programs do to the mailboxes.
LEMMA ServerStep ==
    ASSUME IInv, NEW mb \in Mailbox,
           Arrive(mb) \/ FlagElsewhere(mb) \/ ExpungeElsewhere(mb) \/ NewGeneration(mb)
    PROVE  IInv'
<1>1. TypeOK /\ ServerNumbers
  BY DEF IInv
<1>2. TypeOK'
  BY <1>1, TypeServer
<1>3. ServerNumbers' /\ ServerMoves
  BY <1>1, ServerStepMoves
<1>4. UNCHANGED <<rows, cursor, skipped, sync, act, get>>
  BY DEF Arrive, FlagElsewhere, ExpungeElsewhere, NewGeneration, cacheVars, taskVars
<1>5. /\ IdsIssued' /\ CursorsIssued' /\ CursorCovers'
      /\ PassStarted' /\ PassSelected' /\ PassSearched' /\ PassFetched'
  BY <1>2, <1>3, <1>4, ServerStepKeeps
<1>6. MovesTookEffect'
  BY <1>1, <1>2, <1>3, <1>4, MovesStayTrue DEF IInv, MovesTookEffect
<1> QED
  BY <1>2, <1>3, <1>5, <1>6 DEF IInv

\* mail.action: only an accepted move says anything new, and the server made it.
LEMMA ActStepKeeps ==
    ASSUME IInv, NEW a \in Actor, QueueAction(a) \/ ActStep(a)
    PROVE  IInv'
<1>0. TypeOK /\ TypeOK'
  BY TypeAct DEF IInv
<1>1. CASE QueueAction(a) \/ ValidateAction(a)
  <2>1. UNCHANGED <<serverVars, cacheVars, sync, get>>
    BY <1>1 DEF QueueAction, ValidateAction
  <2>2. \A b \in Actor : b # a => act'[b] = act[b]
    BY <1>0, <1>1 DEF QueueAction, ValidateAction, TypeOK
  <2>3. act'[a].pc # "accepted"
    <3>1. CASE QueueAction(a)
      BY <1>0, <3>1 DEF QueueAction, TypeOK
    <3>2. CASE ValidateAction(a)
      <4>1. act[a] \in ActState /\ act[a].pc = "queued"
        BY <1>0, <3>2 DEF ValidateAction, TypeOK
      <4> QED
        BY <1>0, <3>2, <4>1 DEF ValidateAction, TypeOK, ActState
    <3> QED
      BY <1>1, <3>1, <3>2
  <2>4. \/ act'[a].id = act[a].id /\ act[a].pc # "idle"
        \/ \E r \in rows : act'[a].id = r.id
    BY <1>0, <1>1 DEF QueueAction, ValidateAction, TypeOK, ActState
  <2>5. IdsIssued'
    BY <2>1, <2>2, <2>4 DEF IInv, IdsIssued, Issued, serverVars, cacheVars
  <2>6. MovesTookEffect'
    BY <2>1, <2>2, <2>3 DEF IInv, MovesTookEffect, serverVars
  <2> QED
    BY <1>0, <2>1, <2>5, <2>6 DEF IInv, ServerNumbers, CursorsIssued, Issued, PassStarted,
       PassSelected, PassSearched, PassFetched, CursorCovers, Cached, Here, SameGeneration,
       Requested, Reconciled, serverVars, cacheVars
<1>2. CASE ApplyAction(a)
  <2> DEFINE id == act[a].id
             change == act[a].change
             made == act'[a].pc = "accepted" /\ change.kind # "mark_read"
  <2>1. /\ act[a].pc = "validated" /\ id \in Id /\ change \in Change
        /\ UNCHANGED <<generation, rows, cursor, skipped, sync, get>>
        /\ act'[a].pc # "idle" /\ act'[a].id = id /\ act'[a].change = change
        /\ \A b \in Actor : b # a => act'[b] = act[b]
    BY <1>0, <1>2 DEF ApplyAction, TypeOK, ActState, cacheVars
  <2>2. Issued(id.home, id.gen, id.uid)
    BY <2>1 DEF IInv, IdsIssued
  <2>3. \/ ServerApplies(id, change)
        \/ UNCHANGED <<box, nextUid>> /\ ~made
    BY <1>0, <1>2 DEF ApplyAction, TypeOK, ActState
  <2>4. /\ ServerNumbers' /\ ServerMoves
        /\ made /\ id.gen = generation[id.home] => \A e \in box'[id.home] : e.uid # id.uid
    <3>1. CASE UNCHANGED <<box, nextUid>> /\ ~made
      BY <1>0, <2>1, <3>1 DEF IInv, ServerNumbers, ServerMoves, TypeOK
    <3>2. ASSUME NEW seen \in BOOLEAN, StoreFlag(id, seen), change.kind = "mark_read"
          PROVE  ServerNumbers' /\ ServerMoves /\ ~made
      BY <1>0, <2>1, <3>2, StoreMoves DEF IInv
    <3>3. ASSUME NEW dest \in Mailbox, MoveUid(id, dest)
          PROVE  /\ ServerNumbers' /\ ServerMoves
                 /\ id.gen = generation[id.home] => \A e \in box'[id.home] : e.uid # id.uid
      BY <1>0, <2>1, <2>2, <3>3, MoveMoves DEF IInv
    <3> QED
      BY <2>1, <2>3, <3>1, <3>2, <3>3, MailboxAssumption DEF ServerApplies, Change
  <2>5. \A b \in Actor : act'[b].pc # "idle" => act[b].pc # "idle" /\ act'[b].id = act[b].id
    BY <2>1
  <2>6. /\ IdsIssued' /\ CursorsIssued' /\ CursorCovers'
        /\ PassStarted' /\ PassSelected' /\ PassSearched' /\ PassFetched'
    BY <1>0, <2>1, <2>4, <2>5, ServerStepKeeps
  <2>7. MovesTookEffect'
    <3> SUFFICES ASSUME NEW b \in Actor, act'[b].pc = "accepted",
                        act'[b].change.kind # "mark_read",
                        act'[b].id.gen = generation'[act'[b].id.home]
                 PROVE  \A e \in box'[act'[b].id.home] : e.uid # act'[b].id.uid
      BY DEF MovesTookEffect
    <3>1. CASE b = a
      BY <2>1, <2>4, <3>1
    <3>2. CASE b # a
      BY <1>0, <2>1, <2>4, <3>2, MovesStayTrue DEF IInv
    <3> QED
      BY <3>1, <3>2
  <2> QED
    BY <1>0, <2>4, <2>6, <2>7 DEF IInv
<1>3. CASE FinishAction(a)
  <2>1. /\ UNCHANGED <<serverVars, cursor, skipped, sync, get>>
        /\ act'[a].pc = "idle"
        /\ \A b \in Actor : b # a => act'[b] = act[b]
        /\ rows' = IF act[a].pc = "accepted" THEN Mirrored(act[a].id, act[a].change) ELSE rows
    BY <1>0, <1>3 DEF FinishAction, TypeOK, Done
  <2>2. \A r \in rows' : \E q \in rows : r.id = q.id
    <3>1. ASSUME NEW id, NEW change, NEW r \in Mirrored(id, change)
          PROVE  \E q \in rows : r.id = q.id
      <4>1. \/ r \in rows
            \/ \E q \in rows : r = [q EXCEPT !.seen = change.seen]
            \/ \E q \in rows : r = [q EXCEPT !.mailbox = change.dest]
        <5>1. CASE change.kind = "mark_read"
          BY <5>1 DEF Mirrored
        <5>2. CASE change.kind = "move"
          BY <5>2 DEF Mirrored
        <5>3. CASE change.kind # "mark_read" /\ change.kind # "move"
          BY <5>3 DEF Mirrored
        <5> QED
          BY <5>1, <5>2, <5>3
      <4>2. ASSUME NEW q \in rows, r = [q EXCEPT !.seen = change.seen]
            PROVE  r.id = q.id
        <5>1. q \in Row
          BY <1>0 DEF TypeOK
        <5> QED
          BY <4>2, <5>1 DEF Row
      <4>3. ASSUME NEW q \in rows, r = [q EXCEPT !.mailbox = change.dest]
            PROVE  r.id = q.id
        <5>1. q \in Row
          BY <1>0 DEF TypeOK
        <5> QED
          BY <4>3, <5>1 DEF Row
      <4> QED
        BY <4>1, <4>2, <4>3
    <3> QED
      BY <2>1, <3>1
  <2>3. IdsIssued'
    BY <2>1, <2>2 DEF IInv, IdsIssued, Issued, serverVars
  <2>4. MovesTookEffect'
    BY <2>1 DEF IInv, MovesTookEffect, serverVars
  <2>5. CursorCovers'
    <3> SUFFICES ASSUME NEW mb \in Mailbox, cursor[mb].gen = generation[mb],
                        NEW e \in box[mb], e.uid <= cursor[mb].last, e.uid \notin skipped[mb]
                 PROVE  \E r \in rows' : r.id = IdOf(mb, generation[mb], e.uid) /\ r.mailbox = mb
      BY <2>1 DEF CursorCovers, Cached, IdOf, serverVars
    <3>1. PICK r \in rows : r.id = IdOf(mb, generation[mb], e.uid) /\ r.mailbox = mb
      BY DEF IInv, CursorCovers, Cached
    <3>2. CASE act[a].pc # "accepted" \/ r.id # act[a].id
      BY <2>1, <3>1, <3>2 DEF Mirrored
    <3>3. CASE act[a].pc = "accepted" /\ r.id = act[a].id
      <4>1. act[a].change.kind = "mark_read"
        BY <3>1, <3>3 DEF IInv, MovesTookEffect, IdOf
      <4>2. [r EXCEPT !.seen = act[a].change.seen] \in rows'
        BY <2>1, <3>3, <4>1 DEF Mirrored
      <4>3. /\ [r EXCEPT !.seen = act[a].change.seen].id = r.id
            /\ [r EXCEPT !.seen = act[a].change.seen].mailbox = r.mailbox
        BY <1>0 DEF TypeOK, Row
      <4> QED
        BY <3>1, <4>2, <4>3
    <3> QED
      BY <3>2, <3>3
  <2> QED
    BY <1>0, <2>1, <2>3, <2>4, <2>5 DEF IInv, ServerNumbers, CursorsIssued, Issued, PassStarted,
       PassSelected, PassSearched, PassFetched, Here, SameGeneration, Requested, Reconciled,
       serverVars
<1> QED
  BY <1>1, <1>2, <1>3 DEF ActStep

\* mail.get: what it stores is listed where its id says.
LEMMA GetStepKeeps ==
    ASSUME IInv, NEW g \in Reader, OpenMessage(g) \/ GetStep(g)
    PROVE  IInv'
<1>0. TypeOK /\ TypeOK'
  BY TypeGet DEF IInv
<1>1. UNCHANGED <<serverVars, cursor, skipped, sync, act>>
  BY DEF OpenMessage, GetStep, FetchMessage, StoreMessage, cacheVars
<1>2. \A h \in Reader : h # g => get'[h] = get[h]
  BY <1>0 DEF OpenMessage, GetStep, FetchMessage, StoreMessage, TypeOK
<1> DEFINE new == [id |-> get[g].id, mailbox |-> get[g].id.home,
                   msg |-> get[g].entry.msg, seen |-> get[g].entry.seen, loaded |-> TRUE]
<1>3. \/ /\ rows' = rows
         /\ get'[g].pc # "idle" =>
              \/ get[g].pc # "idle" /\ get'[g].id = get[g].id
              \/ \E r \in rows : get'[g].id = r.id
      \/ /\ rows' = Upsert(rows, {new})
         /\ get[g].pc # "idle" /\ get'[g].pc = "idle"
  <2>1. CASE OpenMessage(g)
    <3>1. PICK r \in rows : get' = [get EXCEPT ![g] = [pc |-> "asked", id |-> r.id]]
      BY <2>1 DEF OpenMessage
    <3>2. get'[g].id = r.id
      BY <1>0, <3>1 DEF TypeOK
    <3> QED
      BY <2>1, <3>2 DEF OpenMessage, cacheVars
  <2>2. CASE FetchMessage(g)
    <3>1. get[g].pc = "asked"
      BY <2>2 DEF FetchMessage
    <3>2. \/ \E e : get'[g] = [pc |-> "fetched", id |-> get[g].id, entry |-> e]
          \/ get'[g] = Done
      BY <1>0, <2>2 DEF FetchMessage, TypeOK
    <3>3. rows' = rows
      BY <2>2 DEF FetchMessage, cacheVars
    <3>4. ASSUME NEW e, get'[g] = [pc |-> "fetched", id |-> get[g].id, entry |-> e]
          PROVE  get'[g].id = get[g].id
      BY <3>4
    <3>5. get'[g] = Done => get'[g].pc = "idle"
      BY DEF Done
    <3> QED
      BY <3>1, <3>2, <3>3, <3>4, <3>5
  <2>3. CASE StoreMessage(g)
    BY <1>0, <2>3 DEF StoreMessage, TypeOK, Done
  <2> QED
    BY <2>1, <2>2, <2>3 DEF GetStep
<1>6. new.id = get[g].id /\ new.mailbox = get[g].id.home
  OBVIOUS
<1> HIDE DEF new
<1>7. Upsert(rows, {new}) = {r \in rows : new.id # r.id} \cup {new}
  BY DEF Upsert
<1>4. IdsIssued'
  <2>1. \A r \in rows' : r \in rows \/ (get[g].pc # "idle" /\ r.id = get[g].id)
    <3>1. CASE rows' = rows
      BY <3>1
    <3>2. CASE rows' = Upsert(rows, {new}) /\ get[g].pc # "idle"
      <4>1. rows' = {r \in rows : new.id # r.id} \cup {new}
        BY <1>7, <3>2
      <4> QED
        BY <1>6, <3>2, <4>1
    <3> QED
      BY <1>3, <3>1, <3>2
  <2>2. UNCHANGED <<generation, nextUid, sync, act>>
    BY <1>1 DEF serverVars
  <2>3. \A r \in rows' : Issued(r.id.home, r.id.gen, r.id.uid)
    BY <2>1 DEF IInv, IdsIssued
  <2>4. \A h \in Reader :
          get'[h].pc # "idle" => Issued(get'[h].id.home, get'[h].id.gen, get'[h].id.uid)
    BY <1>2, <1>3 DEF IInv, IdsIssued
  <2> QED
    BY <2>2, <2>3, <2>4 DEF IInv, IdsIssued, Issued
<1>5. CursorCovers'
  <2> SUFFICES ASSUME NEW mb \in Mailbox, cursor[mb].gen = generation[mb],
                      NEW e \in box[mb], e.uid <= cursor[mb].last, e.uid \notin skipped[mb]
               PROVE  \E r \in rows' : r.id = IdOf(mb, generation[mb], e.uid) /\ r.mailbox = mb
    BY <1>1 DEF CursorCovers, Cached, IdOf, serverVars
  <2>1. PICK r \in rows : r.id = IdOf(mb, generation[mb], e.uid) /\ r.mailbox = mb
    BY DEF IInv, CursorCovers, Cached
  <2> QED
    <3>1. CASE rows' = rows
      BY <2>1, <3>1
    <3>2. CASE rows' = Upsert(rows, {new}) /\ r.id # new.id
      BY <1>7, <2>1, <3>2
    <3>3. CASE rows' = Upsert(rows, {new}) /\ r.id = new.id
      <4>1. new.mailbox = mb
        BY <1>6, <2>1, <3>3 DEF IdOf
      <4> QED
        BY <1>7, <2>1, <3>3, <4>1
    <3> QED
      BY <1>3, <3>1, <3>2, <3>3
<1> QED
  BY <1>0, <1>1, <1>4, <1>5 DEF IInv, ServerNumbers, CursorsIssued, Issued, PassStarted,
     PassSelected, PassSearched, PassFetched, MovesTookEffect, Here, SameGeneration,
     Requested, Reconciled, serverVars

\* A pass that ends without writing leaves nothing behind.
LEMMA PassEnds ==
    ASSUME IInv, TypeOK', UNCHANGED <<serverVars, cacheVars>>, sync' = Idle(1),
           \A a \in Actor : act'[a] = act[a] \/ act'[a].pc = "idle",
           \A g \in Reader : get'[g] = get[g] \/ get'[g].pc = "idle"
    PROVE  IInv'
BY DEF IInv, ServerNumbers, IdsIssued, CursorsIssued, Issued, PassStarted, PassSelected,
   PassSearched, PassFetched, MovesTookEffect, CursorCovers, Cached, Idle, serverVars, cacheVars

\* Every search says truly what it covers: below its high mark it found all
\* there was above the cursor, or left out what a bootstrap may.
LEMMA SearchCovers ==
    ASSUME IInv, sync.pc = "selected", SearchNothing \/ SearchWindow \/ SearchRecent
    PROVE  /\ SameGeneration => sync.cursor.last <= sync'.high
           /\ sync.gen = generation[Here] => sync'.high < nextUid[Here]
           /\ \A u \in sync'.found : u <= sync'.high
           /\ \A e \in box[Here] :
                e.uid <= sync'.high =>
                    \/ e.uid \in sync'.found
                    \/ SameGeneration /\ e.uid <= sync.cursor.last
                    \/ ~SameGeneration /\ e.uid \in sync'.left
<1>0. TypeOK /\ sync \in SyncState /\ Here \in Mailbox
  BY HereIsMailbox DEF IInv
<1>1. /\ sync.cursor.last \in Nat /\ sync.through \in Nat /\ nextUid[Here] \in Nat
      /\ \A e \in box[Here] : e.uid \in Nat
  BY <1>0, Numbers
<1>2. /\ sync.found = {}
      /\ sync.gen = generation[Here] => sync.through < nextUid[Here]
  BY DEF IInv, PassStarted, PassSelected, Issued
<1>3. CASE SearchNothing
  <2>1. /\ sync'.high = sync.cursor.last /\ sync'.found = {} /\ SameGeneration
        /\ sync.through <= sync.cursor.last
    BY <1>0, <1>2, <1>3 DEF SearchNothing, SyncState
  <2>2. sync.gen = generation[Here] => sync.cursor.last < nextUid[Here]
    BY <1>0, <2>1 DEF IInv, PassStarted, CursorsIssued, Issued, SameGeneration
  <2> QED
    BY <1>1, <2>1, <2>2
<1>4. CASE SearchWindow
  <2> DEFINE hits == {u \in Uids(Here) : sync.cursor.last < u /\ u <= SearchCeiling}
             found == Lowest(hits, PageLimit)
  <2>1. PICK high \in found \cup {SearchCeiling} :
          /\ IF found = hits THEN high = SearchCeiling
             ELSE high \in found /\ \A u \in found : u <= high
          /\ sync' = [sync EXCEPT !.pc = "searched", !.found = found, !.high = high]
          /\ SameGeneration /\ sync.through > sync.cursor.last
    BY <1>4 DEF SearchWindow
  <2>2. sync'.found = found /\ sync'.high = high
    BY <1>0, <2>1 DEF SyncState
  <2>3. Uids(Here) \subseteq Nat /\ hits \subseteq Uids(Here) /\ found \subseteq hits
    BY <1>1 DEF Uids, Lowest
  <2>4. IsFiniteSet(hits)
    <3>1. IsFiniteSet(box[Here])
      BY <1>0 DEF IInv, ServerNumbers
    <3>2. IsFiniteSet(Uids(Here))
      BY <3>1, UidsFinite
    <3> QED
      BY <2>3, <3>2, FS_Subset
  <2>5. /\ SearchCeiling \in Nat /\ SearchCeiling <= sync.through
        /\ sync.cursor.last <= SearchCeiling
    BY <1>1, <2>1, LimitAssumption DEF SearchCeiling
  <2>6. /\ high \in Nat /\ high <= SearchCeiling /\ sync.cursor.last <= high
        /\ \A u \in found : u <= high
    BY <1>1, <2>1, <2>3, <2>5
  <2>7. ASSUME NEW e \in box[Here], e.uid <= high, sync.cursor.last < e.uid
        PROVE  e.uid \in found
    <3>1. e.uid \in hits
      BY <1>1, <2>5, <2>6, <2>7 DEF Uids
    <3>2. CASE found # hits
      <4>1. high \in found
        BY <2>1, <3>2
      <4>2. hits \in SUBSET Nat /\ PageLimit \in Nat
        BY <2>3, LimitAssumption
      <4> QED
        <5> HIDE DEF hits
        <5> QED
          BY <2>4, <2>7, <3>1, <4>1, <4>2, LowestIsInitial
    <3> QED
      BY <3>1, <3>2
  <2> QED
    BY <1>1, <1>2, <2>1, <2>2, <2>5, <2>6, <2>7
<1>5. CASE SearchRecent
  <2> DEFINE hits == {u \in Uids(Here) : sync.through - BootstrapSpan < u /\ u <= sync.through}
             found == Highest(hits, PageLimit)
  <2>1. /\ ~SameGeneration
        /\ sync'.found = found /\ sync'.high = sync.through
        /\ sync'.left = {u \in Uids(Here) : u <= sync.through} \ found
    BY <1>0, <1>5 DEF SearchRecent, SyncState
  <2>2. \A u \in found : u <= sync.through
    BY DEF Highest
  <2>3. \A e \in box[Here] : e.uid \in Uids(Here)
    BY DEF Uids
  <2> HIDE DEF found, hits
  <2> QED
    BY <1>2, <2>1, <2>2, <2>3
<1> QED
  BY <1>3, <1>4, <1>5

\* The steps that only look: what they note about the server is true then, and
\* ServerStepKeeps says that it stays true.
LEMMA LookStepKeeps ==
    ASSUME IInv, BeginPage \/ SelectMailbox \/ SearchMailbox \/ FetchEnvelopes
    PROVE  IInv'
<1>0. /\ TypeOK /\ TypeOK' /\ sync \in SyncState
      /\ Here \in Mailbox
  BY TypeSync, HereIsMailbox DEF IInv, SyncStep
<1>1. /\ UNCHANGED <<serverVars, cacheVars, act, get>>
      /\ sync'.at = sync.at
      /\ Here' = Here
  <2>1. UNCHANGED <<serverVars, cacheVars, act, get>>
    BY DEF BeginPage, SelectMailbox, SearchMailbox, FetchEnvelopes
  <2>2. sync'.at = sync.at
    BY <1>0 DEF BeginPage, SelectMailbox, SearchMailbox, SearchNothing, SearchWindow, SearchRecent,
       FetchEnvelopes, SyncState
  <2> QED
    BY <2>1, <2>2 DEF Here
<1>2. ServerNumbers' /\ CursorsIssued' /\ MovesTookEffect' /\ CursorCovers'
  BY <1>1 DEF IInv, ServerNumbers, CursorsIssued, Issued, MovesTookEffect, CursorCovers, Cached,
     serverVars, cacheVars
<1>3. IdsIssued' /\ PassStarted' /\ PassSelected' /\ PassSearched' /\ PassFetched'
  <2>1. CASE BeginPage
    <3>1. /\ sync.pc = "idle" /\ sync'.pc = "begun"
          /\ sync'.cursor = cursor[Here]
          /\ sync'.known = {r.id : r \in NewestRows(Here)}
          /\ sync'.found = sync.found
      BY <1>0, <2>1 DEF BeginPage, SyncState
    <3>2. \A id \in sync'.known : Issued(id.home, id.gen, id.uid)
      BY <3>1 DEF IInv, IdsIssued, NewestRows, RowsIn
    <3>3. IdsIssued'
      BY <1>1, <3>2 DEF IInv, IdsIssued, Issued, serverVars, cacheVars
    <3> QED
      BY <1>1, <3>1, <3>3 DEF IInv, PassStarted, PassSelected, PassSearched, PassFetched, cacheVars
  <2>2. CASE SelectMailbox
    <3>1. /\ sync.pc = "begun" /\ sync'.pc = "selected"
          /\ sync'.gen = generation[Here]
          /\ sync'.through = nextUid[Here] - 1
          /\ sync'.found = sync.found /\ sync'.known = sync.known /\ sync'.cursor = sync.cursor
      BY <1>0, <2>2 DEF SelectMailbox, SyncState
    <3>2. IdsIssued'
      BY <1>1, <3>1 DEF IInv, IdsIssued, Issued, serverVars, cacheVars
    <3>3. sync.cursor.gen <= generation[Here]
      BY <1>0, <3>1 DEF IInv, PassStarted, CursorsIssued, Issued
    <3>4. PassSelected'
      BY <1>0, <1>1, <3>1, <3>3, Numbers DEF PassSelected, Issued, serverVars
    <3> QED
      BY <1>1, <3>1, <3>2, <3>4 DEF IInv, PassStarted, PassSearched, PassFetched, cacheVars
  <2>3. CASE SearchMailbox
    <3>1. /\ sync.pc = "selected" /\ sync'.pc = "searched"
          /\ sync'.gen = sync.gen /\ sync'.through = sync.through
          /\ sync'.known = sync.known /\ sync'.cursor = sync.cursor
      BY <1>0, <2>3 DEF SearchMailbox, SearchNothing, SearchWindow, SearchRecent, SyncState
    <3>2. IdsIssued' /\ PassStarted' /\ PassSelected' /\ PassFetched'
      BY <1>0, <1>1, <3>1 DEF IInv, IdsIssued, Issued, PassStarted, PassSelected, PassFetched,
         serverVars, cacheVars
    <3>3. PassSearched'
      <4>1. /\ SameGeneration' = SameGeneration
            /\ generation' = generation /\ nextUid' = nextUid /\ box' = box
        BY <1>1, <3>1 DEF SameGeneration, serverVars
      <4>2. /\ sync.gen <= generation[Here]
            /\ generation[Here] \in Nat /\ nextUid[Here] \in Nat
            /\ sync'.high \in Nat /\ \A u \in sync'.found : u \in Nat
        BY <1>0, <3>1, Numbers DEF IInv, PassSelected, Issued, TypeOK, SyncState
      <4>3. /\ SameGeneration => sync.cursor.last <= sync'.high
            /\ sync.gen = generation[Here] => sync'.high < nextUid[Here]
            /\ \A u \in sync'.found : u <= sync'.high
            /\ \A e \in box[Here] :
                 e.uid <= sync'.high =>
                     \/ e.uid \in sync'.found
                     \/ SameGeneration /\ e.uid <= sync.cursor.last
                     \/ ~SameGeneration /\ e.uid \in sync'.left
        BY <2>3, <3>1, SearchCovers DEF SearchMailbox
      <4>4. sync.gen = generation[Here] => \A u \in sync'.found : u < nextUid[Here]
        BY <4>2, <4>3
      <4> QED
        BY <1>1, <3>1, <4>1, <4>2, <4>3, <4>4 DEF PassSearched, Issued
    <3> QED
      BY <3>2, <3>3
  <2>4. CASE FetchEnvelopes
    <3>1. /\ sync.pc = "searched" /\ sync'.pc = "fetched"
          /\ sync'.page = {e \in box[Here] : e.uid \in Requested}
          /\ sync'.gen = sync.gen /\ sync'.through = sync.through /\ sync'.high = sync.high
          /\ sync'.found = sync.found /\ sync'.left = sync.left
          /\ sync'.known = sync.known /\ sync'.cursor = sync.cursor
      BY <1>0, <2>4 DEF FetchEnvelopes, SyncState
    <3>2. Requested' = Requested
      BY <1>1, <3>1 DEF Requested, Reconciled, SameGeneration
    <3>3. IdsIssued' /\ PassStarted' /\ PassSelected' /\ PassSearched'
      BY <1>0, <1>1, <3>1 DEF IInv, IdsIssued, Issued, PassStarted, PassSelected, PassSearched,
         SameGeneration, serverVars, cacheVars
    <3>4. PassFetched'
      BY <1>1, <3>1, <3>2 DEF PassFetched, serverVars
    <3> QED
      BY <3>3, <3>4
  <2> QED
    BY <2>1, <2>2, <2>3, <2>4
<1> QED
  BY <1>0, <1>2, <1>3 DEF IInv

\* An id names its mailbox, generation and UID (provider_native_id).
LEMMA IdOfFields ==
    \A mb, gen, uid : /\ IdOf(mb, gen, uid).home = mb
                     /\ IdOf(mb, gen, uid).gen = gen
                     /\ IdOf(mb, gen, uid).uid = uid
BY DEF IdOf

\* The transaction of a page writes rows and cursor together.
LEMMA ApplyPageKeeps ==
    ASSUME IInv, ApplyPage
    PROVE  IInv'
<1>0. /\ TypeOK /\ TypeOK' /\ sync \in SyncState
      /\ Here \in Mailbox
  BY TypeSync, HereIsMailbox DEF IInv, SyncStep
<1>1. /\ sync.pc = "confirmed"
      /\ UNCHANGED <<serverVars, act, get>>
      /\ rows' = Upsert(Kept, {PageRow(e) : e \in sync.page})
      /\ cursor' = [cursor EXCEPT ![Here] = [gen |-> sync.gen, last |-> sync.high]]
      /\ skipped' = [skipped EXCEPT ![Here] = IF SameGeneration THEN @ ELSE sync.left]
      /\ sync'.pc = "idle" /\ sync'.known = {} /\ sync'.found = {}
  BY DEF ApplyPage, Idle
<1>2. ASSUME NEW e \in sync.page
      PROVE  /\ PageRow(e).id = IdOf(Here, sync.gen, e.uid)
             /\ PageRow(e).mailbox = Here
             /\ PageRow(e) \in rows'
  BY <1>1 DEF PageRow, Upsert
<1>3. \A r \in rows' : r \in Kept \/ \E e \in sync.page : r = PageRow(e)
  BY <1>1 DEF Upsert
<1>4. \A r \in Kept : r \in rows' \/ \E e \in sync.page : r.id = PageRow(e).id
  BY <1>1 DEF Upsert
<1>5. IdsIssued'
  <2>1. ASSUME NEW e \in sync.page
        PROVE  Issued(Here, sync.gen, e.uid)
    <3>1. e.uid \in sync.found \/ \E id \in sync.known : id.home = Here /\ id.gen = sync.gen /\ id.uid = e.uid
      BY <1>1 DEF IInv, PassFetched, Requested, Reconciled
    <3> QED
      BY <1>1, <3>1 DEF IInv, PassSearched, IdsIssued
  <2>2. ASSUME NEW r \in rows'
        PROVE  Issued(r.id.home, r.id.gen, r.id.uid)
    <3>1. CASE r \in Kept
      BY <3>1 DEF IInv, IdsIssued, Kept
    <3>2. ASSUME NEW e \in sync.page, r = PageRow(e)
          PROVE  Issued(r.id.home, r.id.gen, r.id.uid)
      BY <1>2, <2>1, <3>2, IdOfFields
    <3> QED
      BY <1>3, <3>1, <3>2
  <2> QED
    BY <1>1, <2>2 DEF IInv, IdsIssued, Issued, serverVars
<1>6. CursorsIssued'
  <2>1. Issued(Here, sync.gen, sync.high)
    BY <1>1 DEF IInv, PassSearched
  <2>2. \A mb \in Mailbox : cursor'[mb] = IF mb = Here THEN [gen |-> sync.gen, last |-> sync.high]
                                          ELSE cursor[mb]
    BY <1>0, <1>1 DEF TypeOK
  <2> QED
    BY <1>1, <2>1, <2>2 DEF IInv, CursorsIssued, Issued, serverVars
<1>7. CursorCovers'
  <2>0. generation' = generation /\ box' = box
    BY <1>1 DEF serverVars
  <2> SUFFICES ASSUME NEW mb \in Mailbox, cursor'[mb].gen = generation[mb],
                      NEW e \in box[mb], e.uid <= cursor'[mb].last, e.uid \notin skipped'[mb]
               PROVE  \E r \in rows' : r.id = IdOf(mb, generation[mb], e.uid) /\ r.mailbox = mb
    BY <2>0 DEF CursorCovers, Cached, IdOf
  <2>1. CASE mb # Here
    <3>1. cursor'[mb] = cursor[mb] /\ skipped'[mb] = skipped[mb]
      BY <1>0, <1>1, <2>1 DEF TypeOK
    <3>2. PICK r \in rows : r.id = IdOf(mb, generation[mb], e.uid) /\ r.mailbox = mb
      BY <3>1 DEF IInv, CursorCovers, Cached
    <3>3. r \in Kept
      BY <2>1, <3>2 DEF Kept
    <3>4. \A p \in sync.page : r.id # PageRow(p).id
      BY <1>2, <2>1, <3>2, IdOfFields
    <3> QED
      BY <1>4, <3>2, <3>3, <3>4
  <2>2. CASE mb = Here
    <3>1. /\ sync.gen = generation[Here] /\ e.uid <= sync.high
          /\ e.uid \notin (IF SameGeneration THEN skipped[Here] ELSE sync.left)
      BY <1>0, <1>1, <2>2 DEF TypeOK
    <3>2. CASE \E p \in sync.page : p.uid = e.uid
      BY <1>2, <2>2, <3>1, <3>2
    <3>3. CASE \A p \in sync.page : p.uid # e.uid
      <4>1. e.uid \notin Requested
        BY <1>1, <2>2, <3>1, <3>3 DEF IInv, PassFetched
      <4>2. SameGeneration /\ e.uid <= sync.cursor.last
        BY <1>1, <2>2, <3>1, <4>1 DEF IInv, PassSearched, Requested
      <4>3. sync.cursor = cursor[Here]
        BY <1>1 DEF IInv, PassStarted
      <4>4. PICK r \in rows : r.id = IdOf(Here, generation[Here], e.uid) /\ r.mailbox = Here
        BY <1>0, <2>2, <3>1, <4>2, <4>3 DEF IInv, CursorCovers, Cached, SameGeneration
      <4>5. r.id \notin Removed
        BY <4>1, <4>4 DEF Removed, Requested, IdOf
      <4>6. r \in Kept
        BY <4>2, <4>4, <4>5 DEF Kept, Resets
      <4>7. \A p \in sync.page : r.id # PageRow(p).id
        BY <1>2, <3>3, <4>4, IdOfFields
      <4> QED
        BY <1>4, <2>2, <4>4, <4>6, <4>7
    <3> QED
      BY <3>2, <3>3
  <2> QED
    BY <2>1, <2>2
<1>8. PassStarted' /\ PassSelected' /\ PassSearched' /\ PassFetched'
  BY <1>1 DEF PassStarted, PassSelected, PassSearched, PassFetched
<1>9. ServerNumbers' /\ MovesTookEffect'
  BY <1>1 DEF IInv, ServerNumbers, MovesTookEffect, serverVars
<1> QED
  BY <1>0, <1>5, <1>6, <1>7, <1>8, <1>9 DEF IInv

\* The rest of a pass.
LEMMA EndStepKeeps ==
    ASSUME IInv, ConfirmGeneration \/ RejectPage \/ FailPass \/ Crash
    PROVE  IInv'
<1>0. TypeOK /\ TypeOK' /\ sync \in SyncState
  BY TypeSync, TypeCrash DEF IInv, SyncStep, TypeOK
<1>1. CASE ConfirmGeneration /\ generation[Here] = sync.gen
  <2>1. /\ sync.pc = "fetched" /\ sync' = [sync EXCEPT !.pc = "confirmed"]
        /\ UNCHANGED <<serverVars, cacheVars, act, get>>
    BY <1>1 DEF ConfirmGeneration
  <2>2. /\ sync'.pc = "confirmed" /\ sync'.at = sync.at /\ sync'.cursor = sync.cursor
        /\ sync'.known = sync.known /\ sync'.gen = sync.gen /\ sync'.through = sync.through
        /\ sync'.found = sync.found /\ sync'.high = sync.high /\ sync'.left = sync.left
        /\ sync'.page = sync.page
    BY <1>0, <2>1 DEF SyncState
  <2>3. Here' = Here /\ SameGeneration' = SameGeneration /\ Requested' = Requested
    BY <2>2 DEF Here, SameGeneration, Requested, Reconciled
  <2> QED
    BY <1>0, <2>1, <2>2, <2>3 DEF IInv, ServerNumbers, IdsIssued, CursorsIssued, Issued, PassStarted,
       PassSelected, PassSearched, PassFetched, MovesTookEffect, CursorCovers, Cached,
       serverVars, cacheVars
<1>2. CASE ConfirmGeneration /\ generation[Here] # sync.gen
  BY <1>0, <1>2, PassEnds DEF ConfirmGeneration
<1>3. CASE RejectPage
  BY <1>0, <1>3, PassEnds DEF RejectPage
<1>4. CASE FailPass
  BY <1>0, <1>4, PassEnds DEF FailPass
<1>5. CASE Crash
  BY <1>0, <1>5, PassEnds DEF Crash, Done
<1> QED
  BY <1>1, <1>2, <1>3, <1>4, <1>5

\* Every step keeps the inductive invariant, whoever takes it.
LEMMA NextKeepsIInv == IInv /\ [Next]_vars => IInv'
<1> SUFFICES ASSUME IInv, [Next]_vars PROVE IInv'
  OBVIOUS
<1>1. ASSUME NEW mb \in Mailbox,
             Arrive(mb) \/ FlagElsewhere(mb) \/ ExpungeElsewhere(mb) \/ NewGeneration(mb)
      PROVE  IInv'
  BY <1>1, ServerStep
<1>2. CASE SyncStep
  BY <1>2, LookStepKeeps, ApplyPageKeeps, EndStepKeeps DEF SyncStep
<1>3. CASE FailPass \/ Crash
  BY <1>3, EndStepKeeps
<1>4. ASSUME NEW a \in Actor, QueueAction(a) \/ ActStep(a)
      PROVE  IInv'
  BY <1>4, ActStepKeeps
<1>5. ASSUME NEW g \in Reader, OpenMessage(g) \/ GetStep(g)
      PROVE  IInv'
  BY <1>5, GetStepKeeps
<1>6. CASE UNCHANGED vars
  BY <1>6 DEF IInv, TypeOK, ServerNumbers, IdsIssued, CursorsIssued, Issued, PassStarted,
     PassSelected, PassSearched, PassFetched, MovesTookEffect, CursorCovers, Cached, Here,
     SameGeneration, Requested, Reconciled, vars, serverVars, cacheVars, taskVars, boundVars
<1> QED
  BY <1>1, <1>2, <1>3, <1>4, <1>5, <1>6 DEF Next

\* So every reachable state satisfies it.
LEMMA Invariance == Spec => []IInv
BY InitIInv, NextKeepsIInv, PTL DEF Spec

-----------------------------------------------------------------------------
(* Theorems                                                                *)

\* Every state the daemon and the server reach is well formed: no position,
\* cursor, UID or message id ever leaves its range.
THEOREM TypeCorrect == Spec => []TypeOK
<1>1. IInv => TypeOK
  BY DEF IInv
<1> QED
  BY <1>1, Invariance, PTL

\* No mail is skipped (apply_mailbox_sync_page): a message the server holds at
\* or below a current cursor is cached, whatever raced with the page.
THEOREM NoMailSkipped == Spec => []CursorCovers
<1>1. IInv => CursorCovers
  BY DEF IInv
<1> QED
  BY <1>1, Invariance, PTL

\* The cursor stays below UIDNEXT (uid_sync_plan): new mail is always above it.
THEOREM CursorStaysBehind == Spec => []CursorBehindServer
<1>1. IInv => CursorBehindServer
  BY DEF IInv, CursorsIssued, Issued, CursorBehindServer
<1> QED
  BY <1>1, Invariance, PTL

\* Only a page writes a cursor.
LEMMA OnlyPagesMoveCursors == Next => ApplyPage \/ UNCHANGED cursor
BY DEF Next, Arrive, FlagElsewhere, ExpungeElsewhere, NewGeneration, SyncStep, BeginPage,
   SelectMailbox, SearchMailbox, FetchEnvelopes, ConfirmGeneration, RejectPage, FailPass,
   QueueAction, ActStep, ValidateAction, ApplyAction, FinishAction, OpenMessage, GetStep,
   FetchMessage, StoreMessage, Crash, cacheVars

\* And it writes one, that of the mailbox it is about.
LEMMA PageCursor ==
    ASSUME TypeOK, ApplyPage
    PROVE  \A mb \in Mailbox :
               cursor'[mb] = IF mb = Here THEN [gen |-> sync.gen, last |-> sync.high]
                             ELSE cursor[mb]
BY DEF ApplyPage, TypeOK

\* Pages never move a cursor back, and never to an older generation.
THEOREM CursorNeverReturns == Spec => CursorMonotonic
<1> DEFINE Forward ==
             \A mb \in Mailbox :
                 /\ cursor[mb].gen <= cursor'[mb].gen
                 /\ cursor[mb].gen = cursor'[mb].gen => cursor[mb].last <= cursor'[mb].last
<1>1. IInv /\ [Next]_vars => [Forward]_vars
  <2> SUFFICES ASSUME IInv, Next PROVE Forward
    OBVIOUS
  <2>1. TypeOK /\ Here \in Mailbox
    BY HereIsMailbox DEF IInv
  <2>2. CASE ApplyPage
    <3>1. \A mb \in Mailbox : cursor'[mb] = IF mb = Here THEN [gen |-> sync.gen, last |-> sync.high]
                                            ELSE cursor[mb]
      BY <2>1, <2>2, PageCursor
    <3>2. /\ cursor[Here].gen <= sync.gen
          /\ cursor[Here].gen = sync.gen => cursor[Here].last <= sync.high
      BY <2>2 DEF IInv, ApplyPage, PassStarted, PassSelected, PassSearched, SameGeneration
    <3> QED
      BY <2>1, <3>1, <3>2, Numbers
  <2>3. CASE ~ApplyPage
    <3>1. cursor' = cursor
      BY <2>3, OnlyPagesMoveCursors
    <3> QED
      BY <2>1, <3>1, Numbers
  <2> QED
    BY <2>2, <2>3
<1> QED
  BY <1>1, Invariance, PTL DEF Spec, CursorMonotonic

\* After a UIDVALIDITY change the mailbox is replaced as a whole: with the new
\* generation's cursor, no row of an older generation is listed in it.
THEOREM ResetIsComplete == Spec => ResetReplacesMailbox
<1> DEFINE Replaced ==
             \A mb \in Mailbox :
                 cursor[mb].gen # 0 /\ cursor'[mb].gen # cursor[mb].gen =>
                     \A r \in rows' :
                         r.mailbox = mb => r.id.home = mb /\ r.id.gen = cursor'[mb].gen
<1>1. IInv /\ [Next]_vars => [Replaced]_vars
  <2> SUFFICES ASSUME IInv, Next, NEW mb \in Mailbox,
                      cursor[mb].gen # 0, cursor'[mb].gen # cursor[mb].gen,
                      NEW r \in rows', r.mailbox = mb
               PROVE  r.id.home = mb /\ r.id.gen = cursor'[mb].gen
    OBVIOUS
  <2>1. TypeOK /\ ApplyPage
    BY OnlyPagesMoveCursors DEF IInv
  <2>2. mb = Here /\ cursor'[mb].gen = sync.gen
    BY <2>1, PageCursor
  <2>3. Resets
    BY <2>1, <2>2 DEF IInv, ApplyPage, PassStarted, Resets, SameGeneration
  <2>4. r \notin Kept
    BY <2>2, <2>3 DEF Kept
  <2>5. PICK e \in sync.page : r = PageRow(e)
    BY <2>1, <2>4 DEF ApplyPage, Upsert
  <2> QED
    BY <2>2, <2>5 DEF PageRow, IdOf
<1> QED
  BY <1>1, Invariance, PTL DEF Spec, ResetReplacesMailbox

-----------------------------------------------------------------------------
(***************************************************************************)
(* MailSync implements the safety part of MailboxFeed: every step of the   *)
(* synchronisation, of a request, of the server or of a failure is a step  *)
(* of the feed or leaves it as it is.  The proof rests on the inductive    *)
(* invariant above.                                                        *)
(***************************************************************************)

(* What the feed holds and lists                                           *)

Lists(mb, u) ==
    \E r \in rows : /\ r.mailbox = mb /\ r.id.home = mb
                    /\ r.id.gen = generation[mb] /\ r.id.uid = u

LEMMA ListedIs == \A mb \in Mailbox : \A u : u \in ListedUids[mb] <=> Lists(mb, u)
  BY DEF ListedUids, Lists

LEMMA ListedIsNext == \A mb \in Mailbox : \A u : u \in ListedUids'[mb] <=> Lists(mb, u)'
  BY DEF ListedUids, Lists

\* Two lists that have the same UIDs of every mailbox are the same.
LEMMA ListedEqual ==
    ASSUME \A mb \in Mailbox : \A u : u \in ListedUids'[mb] <=> u \in ListedUids[mb]
    PROVE  ListedUids' = ListedUids
  <1>1. \A mb \in Mailbox : ListedUids'[mb] = ListedUids[mb]
    OBVIOUS
  <1> QED BY <1>1 DEF ListedUids

LEMMA HeldEqual ==
    ASSUME \A mb \in Mailbox : \A u : u \in Uids(mb)' <=> u \in Uids(mb)
    PROVE  HeldUids' = HeldUids
  <1>1. \A mb \in Mailbox : Uids(mb)' = Uids(mb)
    OBVIOUS
  <1> QED BY <1>1 DEF HeldUids

\* A step that leaves rows and generations as they are leaves the list.
LEMMA ListedSame == UNCHANGED <<rows, generation>> => UNCHANGED ListedUids
  BY DEF ListedUids

LEMMA HeldSame == UNCHANGED box => UNCHANGED HeldUids
  BY DEF HeldUids, Uids

\* A listed UID was given out by the server.
LEMMA ListedIssued ==
    ASSUME TypeOK, IdsIssued
    PROVE  \A mb \in Mailbox : \A u \in ListedUids[mb] : u \in Nat /\ u < nextUid[mb]
  BY ListedIs DEF Lists, TypeOK, Row, Id, IdsIssued, Issued

-----------------------------------------------------------------------------
(* The server                                                              *)

LEMMA ArriveDelivers ==
    ASSUME TypeOK, NEW mb \in Mailbox, Arrive(mb)
    PROVE  Feed!Deliver(mb)
  <1>1. /\ box' = [box EXCEPT ![mb] =
                     @ \cup {[uid |-> nextUid[mb], msg |-> arrived + 1, seen |-> FALSE]}]
        /\ nextUid' = [nextUid EXCEPT ![mb] = @ + 1]
        /\ UNCHANGED <<generation, rows, cursor, skipped>>
    BY DEF Arrive, cacheVars
  <1>2. \A m \in Mailbox :
          Uids(m)' = IF m = mb THEN Uids(mb) \cup {nextUid[mb]} ELSE Uids(m)
    <2> TAKE m \in Mailbox
    <2>1. CASE m = mb
      <3> DEFINE new == [uid |-> nextUid[mb], msg |-> arrived + 1, seen |-> FALSE]
      <3>1. box'[mb] = box[mb] \cup {new} /\ new.uid = nextUid[mb]
        BY <1>1 DEF TypeOK
      <3> HIDE DEF new
      <3>2. \A u : u \in Uids(mb)' <=> u \in Uids(mb) \/ u = nextUid[mb]
        BY <3>1 DEF Uids
      <3> QED BY <2>1, <3>2
    <2>2. CASE m # mb
      BY <1>1, <2>2 DEF TypeOK, Uids
    <2> QED BY <2>1, <2>2
  <1>3. HeldUids' = [HeldUids EXCEPT ![mb] = @ \cup {nextUid[mb]}]
    BY <1>2 DEF HeldUids
  <1> QED BY <1>1, <1>3, ListedSame DEF Feed!Deliver

\* A flag is no business of the feed.
LEMMA FlagStutters ==
    ASSUME TypeOK, NEW mb \in Mailbox, FlagElsewhere(mb)
    PROVE  UNCHANGED Feed!feedVars
  <1>1. PICK e \in box[mb] : box' = [box EXCEPT ![mb] = (@ \ {e}) \cup {[e EXCEPT !.seen = ~@]}]
    BY DEF FlagElsewhere
  <1>2. e \in Entry
    BY DEF TypeOK
  <1>3. [e EXCEPT !.seen = ~@].uid = e.uid
    BY <1>2 DEF Entry
  <1>4. ASSUME NEW m \in Mailbox PROVE \A u : u \in Uids(m)' <=> u \in Uids(m)
    <2>1. CASE m = mb
      <3> DEFINE flagged == [e EXCEPT !.seen = ~@]
      <3>1. box'[mb] = (box[mb] \ {e}) \cup {flagged} /\ flagged.uid = e.uid
        BY <1>1, <1>3 DEF TypeOK
      <3> HIDE DEF flagged
      <3> QED BY <2>1, <3>1 DEF Uids
    <2>2. CASE m # mb
      BY <1>1, <2>2 DEF TypeOK, Uids
    <2> QED BY <2>1, <2>2
  <1>5. UNCHANGED HeldUids
    BY <1>4, HeldEqual
  <1> QED BY <1>5, ListedSame DEF Feed!feedVars, FlagElsewhere, cacheVars

LEMMA ExpungeWithdraws ==
    ASSUME TypeOK, NEW mb \in Mailbox, ExpungeElsewhere(mb)
    PROVE  Feed!Withdraw(mb) \/ UNCHANGED Feed!feedVars
  <1>1. PICK e \in box[mb] : box' = [box EXCEPT ![mb] = @ \ {e}]
    BY DEF ExpungeElsewhere
  <1>2. UNCHANGED <<generation, nextUid, cursor, skipped, ListedUids>>
    BY ListedSame DEF ExpungeElsewhere, cacheVars
  <1>3. \A m \in Mailbox : m # mb => Uids(m)' = Uids(m)
    BY <1>1 DEF TypeOK, Uids
  <1>4. box'[mb] = box[mb] \ {e}
    BY <1>1 DEF TypeOK
  <1>5. CASE \E f \in box[mb] : f # e /\ f.uid = e.uid
    <2>1. \A u : u \in Uids(mb)' <=> u \in Uids(mb)
      BY <1>4, <1>5 DEF Uids
    <2>2. UNCHANGED HeldUids
      BY <1>3, <2>1, HeldEqual
    <2> QED BY <1>2, <2>2 DEF Feed!feedVars
  <1>6. CASE ~\E f \in box[mb] : f # e /\ f.uid = e.uid
    <2>1. \A u : u \in Uids(mb)' <=> u \in Uids(mb) \ {e.uid}
      BY <1>4, <1>6 DEF Uids
    <2>2. Uids(mb)' = Uids(mb) \ {e.uid} /\ e.uid \in Uids(mb)
      BY <2>1 DEF Uids
    <2>3. HeldUids' = [HeldUids EXCEPT ![mb] = @ \ {e.uid}]
      BY <1>3, <2>2 DEF HeldUids
    <2>4. e.uid \in HeldUids[mb]
      BY <2>2 DEF HeldUids
    <2> QED BY <1>2, <2>3, <2>4 DEF Feed!Withdraw
  <1> QED BY <1>5, <1>6

\* No id of the new generation was given out before, so that nothing is listed.
LEMMA GenerationRenumbers ==
    ASSUME IInv, IInv', NEW mb \in Mailbox, NewGeneration(mb)
    PROVE  Feed!Renumber(mb)
  <1> USE DEF IInv
  <1>1. /\ generation' = [generation EXCEPT ![mb] = @ + 1]
        /\ box' = [box EXCEPT ![mb] = Renumbered(mb)]
        /\ nextUid' = [nextUid EXCEPT ![mb] = Cardinality(box[mb]) + 1]
        /\ UNCHANGED <<rows, cursor, skipped>>
    BY DEF NewGeneration, cacheVars
  <1>2. \A u \in HeldUids'[mb] : u < nextUid'[mb]
    BY DEF HeldUids, Uids, ServerNumbers
  <1>3. \A u : u \notin ListedUids'[mb]
    <2>1. \A r \in rows : r.id.home = mb => r.id.gen <= generation[mb]
      BY DEF IdsIssued, Issued
    <2>2. generation'[mb] = generation[mb] + 1 /\ generation[mb] \in Nat
      BY <1>1 DEF TypeOK
    <2>3. \A r \in rows : r.id.gen \in Nat
      BY DEF TypeOK, Row, Id
    <2>4. \A r \in rows' : ~(r.id.home = mb /\ r.id.gen = generation'[mb])
      BY <1>1, <2>1, <2>2, <2>3
    <2> QED BY <2>4, ListedIsNext DEF Lists
  <1>4. ASSUME NEW m \in Mailbox \ {mb}
        PROVE  /\ nextUid'[m] = nextUid[m] /\ HeldUids'[m] = HeldUids[m]
               /\ ListedUids'[m] = ListedUids[m]
    <2>1. nextUid'[m] = nextUid[m] /\ box'[m] = box[m] /\ generation'[m] = generation[m]
      BY <1>1 DEF TypeOK
    <2>2. HeldUids'[m] = HeldUids[m]
      BY <2>1 DEF HeldUids, Uids
    <2>3. ListedUids'[m] = ListedUids[m]
      BY <1>1, <2>1 DEF ListedUids
    <2> QED BY <2>1, <2>2, <2>3
  <1>5. Feed!OnlyAt(mb)
    BY <1>1, <1>4 DEF Feed!OnlyAt
  <1> QED BY <1>1, <1>2, <1>3, <1>5 DEF Feed!Renumber

-----------------------------------------------------------------------------
(* The synchronisation                                                     *)

\* The rows a page leaves, and those it writes.
LEMMA PageRows ==
    ASSUME ApplyPage, NEW mb, mb = Here
    PROVE  /\ \A e \in sync.page : /\ PageRow(e) \in rows'
                                  /\ PageRow(e).mailbox = mb
                                  /\ PageRow(e).id.home = mb
                                  /\ PageRow(e).id.gen = sync.gen
                                  /\ PageRow(e).id.uid = e.uid
           /\ \A r \in rows' : r \in Kept \/ \E e \in sync.page : r = PageRow(e)
           /\ \A r \in Kept : r \in rows' \/ \E e \in sync.page : r.id = PageRow(e).id
  <1>1. rows' = Upsert(Kept, {PageRow(e) : e \in sync.page})
    BY DEF ApplyPage
  <1>2. \A e \in sync.page : PageRow(e).id = IdOf(mb, sync.gen, e.uid) /\ PageRow(e).mailbox = mb
    BY DEF PageRow
  <1>3. \A e \in sync.page : PageRow(e) \in rows'
    BY <1>1 DEF Upsert
  <1>4. \A r \in rows' : r \in Kept \/ \E e \in sync.page : r = PageRow(e)
    BY <1>1 DEF Upsert
  <1>5. \A r \in Kept : r \in rows' \/ \E e \in sync.page : r.id = PageRow(e).id
    BY <1>1 DEF Upsert
  <1> QED BY <1>2, <1>3, <1>4, <1>5, IdOfFields

\* A page concerns the mailbox it is of: other lists stay.
LEMMA PageElsewhere ==
    ASSUME IInv, ApplyPage, NEW mb \in Mailbox, mb = Here
    PROVE  Feed!OnlyAt(mb)
  <1>1. /\ cursor' = [cursor EXCEPT ![mb] = [gen |-> sync.gen, last |-> sync.high]]
        /\ skipped' = [skipped EXCEPT ![mb] = IF SameGeneration THEN @ ELSE sync.left]
        /\ UNCHANGED <<generation, nextUid, box>>
    BY DEF ApplyPage, serverVars
  <1>2. ASSUME NEW m \in Mailbox \ {mb} PROVE \A u : u \in ListedUids'[m] <=> u \in ListedUids[m]
    <2>1. ASSUME NEW u, Lists(m, u) PROVE Lists(m, u)'
      <3>1. PICK r \in rows : /\ r.mailbox = m /\ r.id.home = m
                              /\ r.id.gen = generation[m] /\ r.id.uid = u
        BY <2>1 DEF Lists
      <3>2. r \in Kept
        BY <3>1 DEF Kept
      <3>3. r \in rows'
        BY <3>1, <3>2, PageRows
      <3> QED BY <1>1, <3>1, <3>3 DEF Lists
    <2>2. ASSUME NEW u, Lists(m, u)' PROVE Lists(m, u)
      <3>1. PICK r \in rows' : /\ r.mailbox = m /\ r.id.home = m
                               /\ r.id.gen = generation[m] /\ r.id.uid = u
        BY <1>1, <2>2 DEF Lists
      <3>2. r \in Kept
        BY <3>1, PageRows
      <3> QED BY <3>1, <3>2 DEF Lists, Kept
    <2> QED BY <2>1, <2>2, ListedIs, ListedIsNext
  <1>3. \A m \in Mailbox \ {mb} : ListedUids'[m] = ListedUids[m]
    BY <1>2
  <1>4. \A m \in Mailbox \ {mb} : cursor'[m] = cursor[m] /\ skipped'[m] = skipped[m]
    BY <1>1 DEF IInv, TypeOK
  <1> QED BY <1>1, <1>3, <1>4, HeldSame DEF Feed!OnlyAt

\* A listed message the server holds stays listed, and one that was found is
\* listed from now on.
LEMMA PageListsHeld ==
    ASSUME IInv, ApplyPage, NEW mb \in Mailbox, mb = Here, sync.gen = generation[mb],
           NEW u \in HeldUids[mb],
           (SameGeneration /\ u \in ListedUids[mb]) \/ u \in sync.found
    PROVE  u \in ListedUids'[mb]
  <1>1. sync.pc = "confirmed" /\ UNCHANGED generation
    BY DEF ApplyPage, serverVars
  <1>2. PICK e \in box[mb] : e.uid = u
    BY DEF HeldUids, Uids
  <1>3. ASSUME NEW p \in sync.page, p.uid = u PROVE Lists(mb, u)'
    BY <1>1, <1>3, PageRows DEF Lists
  <1>4. CASE u \in Requested
    <2>1. \E p \in sync.page : p.uid = u
      BY <1>1, <1>2, <1>4 DEF IInv, PassFetched
    <2> QED BY <1>3, <2>1, ListedIsNext
  <1>5. CASE u \notin Requested
    <2>1. SameGeneration /\ Lists(mb, u)
      BY <1>5, ListedIs DEF Requested
    <2>2. PICK r \in rows : /\ r.mailbox = mb /\ r.id.home = mb
                            /\ r.id.gen = generation[mb] /\ r.id.uid = u
      BY <2>1 DEF Lists
    <2>3. r.id \notin Removed
      BY <1>5, <2>2 DEF Removed, Requested
    <2>4. r \in Kept
      BY <2>1, <2>2, <2>3 DEF Kept, Resets
    <2>5. r \in rows' \/ \E p \in sync.page : r.id = PageRow(p).id
      BY <2>4, PageRows
    <2>6. r \in rows' \/ \E p \in sync.page : p.uid = u
      BY <2>2, <2>5, PageRows
    <2>7. Lists(mb, u)'
      BY <1>1, <1>3, <2>2, <2>6 DEF Lists
    <2> QED BY <2>7, ListedIsNext
  <1> QED BY <1>4, <1>5

\* A page of the current generation continues the feed or begins it anew; one
\* of an older generation comes too late.
LEMMA PageMoves ==
    ASSUME IInv, IInv', ApplyPage, NEW mb \in Mailbox, mb = Here
    PROVE  Feed!Continue(mb) \/ Feed!Restart(mb) \/ Feed!ComeTooLate(mb)
  <1>1. /\ sync.pc = "confirmed"
        /\ skipped' = [skipped EXCEPT ![mb] = IF SameGeneration THEN @ ELSE sync.left]
        /\ UNCHANGED <<generation, nextUid, box>>
    BY DEF ApplyPage, serverVars
  <1>2. cursor'[mb].gen = sync.gen /\ cursor'[mb].last = sync.high
    BY PageCursor DEF IInv
  <1>3. /\ sync.cursor = cursor[mb]
        /\ cursor[mb].gen <= sync.gen
        /\ sync.gen <= generation[mb]
        /\ sync.gen = generation[mb] => sync.high < nextUid[mb]
        /\ SameGeneration => cursor[mb].last <= sync.high
    BY <1>1 DEF IInv, PassStarted, PassSelected, PassSearched, Issued
  <1>4. \A u \in ListedUids'[mb] : u < nextUid[mb]
    <2>1. \A u \in ListedUids'[mb] : Lists(mb, u)'
      BY ListedIsNext
    <2> QED BY <1>1, <2>1 DEF Lists, IInv, IdsIssued, Issued
  <1>5. Feed!OnlyAt(mb)
    BY PageElsewhere
  <1>6. UNCHANGED <<generation, nextUid, HeldUids>>
    BY <1>1, HeldSame
  <1>7. /\ cursor[mb].gen \in Nat /\ sync.gen \in Nat /\ generation[mb] \in Nat
        /\ cursor[mb].last \in Nat /\ sync.high \in Nat
    BY HereIsMailbox DEF IInv, TypeOK, Cursor, SyncState
  <1>8. CASE sync.gen = generation[mb] /\ SameGeneration
    <2>1. cursor[mb].gen = generation[mb]
      BY <1>3, <1>8 DEF SameGeneration
    <2>2. skipped' = skipped
      BY <1>1, <1>8 DEF IInv, TypeOK
    <2>3. ASSUME NEW u \in HeldUids[mb],
                 u \in ListedUids[mb] \/ (cursor[mb].last < u /\ u <= cursor'[mb].last)
          PROVE  u \in ListedUids'[mb]
      <3>1. CASE u \in ListedUids[mb]
        BY <1>8, <3>1, PageListsHeld
      <3>2. CASE cursor[mb].last < u /\ u <= cursor'[mb].last
        <4>1. PICK e \in box[mb] : e.uid = u
          BY DEF HeldUids, Uids
        <4>2. u \in Nat
          BY <4>1 DEF IInv, TypeOK, Entry
        <4>3. u \in sync.found
          BY <1>1, <1>2, <1>3, <1>7, <1>8, <3>2, <4>1, <4>2 DEF IInv, PassSearched
        <4> QED BY <1>8, <4>3, PageListsHeld
      <3> QED BY <2>3, <3>1, <3>2
    <2>4. Feed!Continue(mb)
      BY <1>2, <1>3, <1>4, <1>5, <1>6, <1>8, <2>1, <2>2, <2>3 DEF Feed!Continue
    <2> QED BY <2>4
  <1>9. CASE sync.gen = generation[mb] /\ ~SameGeneration
    <2>1. cursor[mb].gen < generation[mb]
      BY <1>3, <1>7, <1>9 DEF SameGeneration
    <2>2. skipped'[mb] = sync.left
      BY <1>1, <1>9 DEF IInv, TypeOK
    <2>3. ASSUME NEW u \in HeldUids[mb], u <= cursor'[mb].last
          PROVE  u \in ListedUids'[mb] \cup skipped'[mb]
      <3>1. PICK e \in box[mb] : e.uid = u
        BY DEF HeldUids, Uids
      <3>2. u \in sync.found \/ u \in sync.left
        BY <1>1, <1>2, <1>9, <2>3, <3>1 DEF IInv, PassSearched
      <3> QED BY <1>9, <2>2, <3>2, PageListsHeld
    <2>4. Feed!Restart(mb)
      BY <1>2, <1>3, <1>4, <1>5, <1>6, <1>9, <2>1, <2>3 DEF Feed!Restart
    <2> QED BY <2>4
  <1>10. CASE sync.gen # generation[mb]
    <2>1. sync.gen < generation[mb]
      BY <1>3, <1>7, <1>10
    <2>2. cursor[mb].gen = cursor'[mb].gen => cursor[mb].last <= cursor'[mb].last
      BY <1>2, <1>3 DEF SameGeneration
    <2>3. Feed!ComeTooLate(mb)
      BY <1>2, <1>3, <1>4, <1>5, <1>6, <2>1, <2>2 DEF Feed!ComeTooLate
    <2> QED BY <2>3
  <1> QED BY <1>8, <1>9, <1>10

-----------------------------------------------------------------------------
(* Requests                                                                *)

\* A change to the rows of one id lists its UID, takes it from the list, or does
\* neither; it may take it only if the server no longer holds the message.
LEMMA OneIdChanges ==
    ASSUME IInv, IInv', UNCHANGED <<generation, nextUid, box, cursor, skipped>>,
           NEW id \in Id,
           \A r : r.id # id => (r \in rows' <=> r \in rows),
           Lists(id.home, id.uid) /\ ~Lists(id.home, id.uid)' => id.uid \notin HeldUids[id.home]
    PROVE  Feed!List(id.home) \/ Feed!Unlist(id.home) \/ UNCHANGED Feed!feedVars
  <1> DEFINE mb == id.home
             uid == id.uid
  <1>1. mb \in Mailbox /\ uid \in Nat
    BY DEF Id
  <1>2. UNCHANGED HeldUids
    BY HeldSame
  <1>3. ASSUME NEW m \in Mailbox, NEW u, ~(m = mb /\ u = uid)
        PROVE  u \in ListedUids'[m] <=> u \in ListedUids[m]
    <2>1. \A r : r.id.home = m /\ r.id.uid = u => r.id # id
      BY <1>3
    <2>2. Lists(m, u)' <=> Lists(m, u)
      BY <2>1 DEF Lists
    <2> QED BY <2>2, ListedIs, ListedIsNext
  <1>4. /\ uid \in ListedUids[mb] <=> Lists(mb, uid)
        /\ uid \in ListedUids'[mb] <=> Lists(mb, uid)'
    BY <1>1, ListedIs, ListedIsNext
  <1>5. CASE uid \in ListedUids'[mb] <=> uid \in ListedUids[mb]
    <2>1. UNCHANGED ListedUids
      BY <1>3, <1>5, ListedEqual
    <2> QED BY <1>2, <2>1 DEF Feed!feedVars
  <1>6. CASE uid \in ListedUids'[mb] /\ uid \notin ListedUids[mb]
    <2>1. uid \in 0..(nextUid[mb] - 1)
      <3>1. uid \in ListedUids'[mb] => uid < nextUid'[mb]
        BY <1>1, ListedIsNext DEF Lists, IInv, IdsIssued, Issued
      <3> QED BY <1>1, <1>6, <3>1 DEF IInv, TypeOK
    <2>2. ListedUids'[mb] = ListedUids[mb] \cup {uid}
      BY <1>1, <1>3, <1>6
    <2>3. \A m \in Mailbox : m # mb => ListedUids'[m] = ListedUids[m]
      BY <1>3
    <2>4. ListedUids' = [ListedUids EXCEPT ![mb] = @ \cup {uid}]
      BY <2>2, <2>3 DEF ListedUids
    <2>5. Feed!List(mb)
      BY <1>2, <2>1, <2>4 DEF Feed!List
    <2> QED BY <2>5
  <1>7. CASE uid \notin ListedUids'[mb] /\ uid \in ListedUids[mb]
    <2>1. uid \in ListedUids[mb] \ HeldUids[mb]
      BY <1>4, <1>7
    <2>2. ListedUids'[mb] = ListedUids[mb] \ {uid}
      BY <1>1, <1>3, <1>7
    <2>3. \A m \in Mailbox : m # mb => ListedUids'[m] = ListedUids[m]
      BY <1>3
    <2>4. ListedUids' = [ListedUids EXCEPT ![mb] = @ \ {uid}]
      BY <2>2, <2>3 DEF ListedUids
    <2>5. Feed!Unlist(mb)
      BY <1>2, <2>1, <2>4 DEF Feed!Unlist
    <2> QED BY <2>5
  <1> QED BY <1>5, <1>6, <1>7

\* A confirmed action changes the rows of its id; it removes them only after the
\* server took the message away.
LEMMA FinishChanges ==
    ASSUME IInv, IInv', NEW a \in Actor, FinishAction(a)
    PROVE  \/ \E mb \in Mailbox : Feed!List(mb) \/ Feed!Unlist(mb)
           \/ UNCHANGED Feed!feedVars
  <1>1. /\ act[a].pc \in {"accepted", "failed"}
        /\ UNCHANGED <<generation, nextUid, box, cursor, skipped>>
    BY DEF FinishAction, serverVars
  <1>2. CASE act[a].pc = "failed"
    <2>1. UNCHANGED rows
      BY <1>2 DEF FinishAction
    <2> QED BY <1>1, <2>1, ListedSame, HeldSame DEF Feed!feedVars
  <1>3. CASE act[a].pc = "accepted"
    <2>1. PICK id \in Id, change \in Change : id = act[a].id /\ change = act[a].change
      <3>1. act[a] \in ActState
        BY DEF IInv, TypeOK
      <3> QED BY <1>3, <3>1 DEF ActState
    <2>2. rows' = Mirrored(id, change)
      BY <1>3, <2>1 DEF FinishAction
    <2> DEFINE hit == {r \in rows : r.id = id}
    <2>3. \A r \in rows : r \in Row
      BY DEF IInv, TypeOK
    <2>4. ASSUME NEW r, r.id # id PROVE r \in rows' <=> r \in rows
      <3>1. CASE change.kind = "mark_read"
        <4>1. \A q \in hit : [q EXCEPT !.seen = change.seen].id = id
          BY <2>3 DEF Row
        <4> QED BY <2>2, <2>4, <3>1, <4>1 DEF Mirrored
      <3>2. CASE change.kind = "move"
        <4>1. \A q \in hit : [q EXCEPT !.mailbox = change.dest].id = id
          BY <2>3 DEF Row
        <4> QED BY <2>2, <2>4, <3>2, <4>1 DEF Mirrored
      <3>3. CASE change.kind = "archive"
        BY <2>2, <2>4, <3>3 DEF Mirrored
      <3> QED BY <3>1, <3>2, <3>3 DEF Change
    <2>5. ASSUME Lists(id.home, id.uid), ~Lists(id.home, id.uid)'
          PROVE  id.uid \notin HeldUids[id.home]
      <3>1. PICK r \in rows : /\ r.mailbox = id.home /\ r.id.home = id.home
                              /\ r.id.gen = generation[id.home] /\ r.id.uid = id.uid
        BY <2>5 DEF Lists
      <3>2. r \notin rows'
        BY <1>1, <2>5, <3>1 DEF Lists
      <3>3. r.id = id
        BY <2>4, <3>1, <3>2
      <3>4. change.kind # "mark_read"
        <4>1. SUFFICES ASSUME change.kind = "mark_read" PROVE FALSE
          OBVIOUS
        <4> DEFINE q == [r EXCEPT !.seen = change.seen]
        <4>2. q \in rows'
          BY <2>2, <3>1, <3>3, <4>1 DEF Mirrored
        <4>3. q.mailbox = r.mailbox /\ q.id = r.id
          BY <2>3 DEF Row
        <4> HIDE DEF q
        <4> QED BY <1>1, <2>5, <3>1, <4>2, <4>3 DEF Lists
      <3>5. \A e \in box[id.home] : e.uid # id.uid
        BY <1>3, <2>1, <3>1, <3>3, <3>4 DEF IInv, MovesTookEffect
      <3>6. id.home \in Mailbox
        BY DEF Id
      <3> QED BY <3>5, <3>6 DEF HeldUids, Uids
    <2>6. Feed!List(id.home) \/ Feed!Unlist(id.home) \/ UNCHANGED Feed!feedVars
      BY <1>1, <2>4, <2>5, OneIdChanges
    <2> QED BY <2>6 DEF Id
  <1> QED BY <1>1, <1>2, <1>3

\* A stored message is listed if its id is of the current generation.
LEMMA StoreLists ==
    ASSUME IInv, IInv', NEW g \in Reader, StoreMessage(g)
    PROVE  \/ \E mb \in Mailbox : Feed!List(mb) \/ Feed!Unlist(mb)
           \/ UNCHANGED Feed!feedVars
  <1>0. PICK id \in Id : id = get[g].id
    <2>1. get[g] \in GetState /\ get[g].pc = "fetched"
      BY DEF IInv, TypeOK, StoreMessage
    <2> QED BY <2>1 DEF GetState
  <1> DEFINE row == [id |-> id, mailbox |-> id.home, msg |-> get[g].entry.msg,
                     seen |-> get[g].entry.seen, loaded |-> TRUE]
  <1>1. /\ rows' = Upsert(rows, {row})
        /\ UNCHANGED <<generation, nextUid, box, cursor, skipped>>
    BY <1>0 DEF StoreMessage, serverVars
  <1>2. row.id = id /\ row.mailbox = id.home
    OBVIOUS
  <1> HIDE DEF row
  <1>3. ASSUME NEW r, r.id # id PROVE r \in rows' <=> r \in rows
    BY <1>1, <1>2, <1>3 DEF Upsert
  <1>4. Lists(id.home, id.uid) => Lists(id.home, id.uid)'
    <2> SUFFICES ASSUME NEW r \in rows, r.mailbox = id.home, r.id.home = id.home,
                        r.id.gen = generation[id.home], r.id.uid = id.uid
                 PROVE  Lists(id.home, id.uid)'
      BY DEF Lists
    <2>1. CASE r.id = id
      <3>1. row \in rows'
        BY <1>1 DEF Upsert
      <3> QED BY <1>1, <1>2, <2>1, <3>1 DEF Lists
    <2>2. CASE r.id # id
      BY <1>1, <1>3, <2>2 DEF Lists
    <2> QED BY <2>1, <2>2
  <1>5. Feed!List(id.home) \/ Feed!Unlist(id.home) \/ UNCHANGED Feed!feedVars
    BY <1>1, <1>3, <1>4, OneIdChanges
  <1> QED BY <1>5 DEF Id

\* STORE changes no UID.
LEMMA StoreHolds ==
    ASSUME IInv, NEW id \in Id, NEW seen \in BOOLEAN, StoreFlag(id, seen)
    PROVE  UNCHANGED <<nextUid, HeldUids>>
  <1>1. ASSUME NEW e \in Entry PROVE [e EXCEPT !.seen = seen].uid = e.uid
    BY DEF Entry
  <1>2. ASSUME NEW m \in Mailbox PROVE \A u : u \in Uids(m)' <=> u \in Uids(m)
    <2>1. CASE m = id.home
      <3> DEFINE Stored(e) == IF e.uid = id.uid THEN [e EXCEPT !.seen = seen] ELSE e
      <3>1. \A e \in box[m] : Stored(e).uid = e.uid
        BY <1>1 DEF IInv, TypeOK
      <3>2. box'[m] = {Stored(e) : e \in box[m]}
        BY <2>1 DEF StoreFlag, IInv, TypeOK
      <3> HIDE DEF Stored
      <3> QED BY <3>1, <3>2 DEF Uids
    <2>2. CASE m # id.home
      BY <2>2 DEF StoreFlag, IInv, TypeOK, Uids
    <2> QED BY <2>1, <2>2
  <1> QED BY <1>2, HeldEqual DEF StoreFlag

\* MOVE takes a UID from one mailbox and gives the next one of the other.
LEMMA MoveTransfers ==
    ASSUME IInv, NEW id \in Id, NEW dest \in Mailbox, MoveUid(id, dest),
           UNCHANGED <<generation, rows, cursor, skipped>>
    PROVE  Feed!Transfer(id.home, dest) \/ UNCHANGED Feed!feedVars
  <1> DEFINE home == id.home
  <1>0. home \in Mailbox
    BY DEF Id
  <1>1. CASE UNCHANGED <<box, nextUid>>
    BY <1>1, ListedSame, HeldSame DEF Feed!feedVars
  <1>2. ASSUME NEW e \in box[home], e.uid = id.uid,
               box' = [m \in Mailbox |->
                         (IF m = home THEN {f \in box[m] : f.uid # id.uid} ELSE box[m])
                           \cup IF m = dest THEN {[e EXCEPT !.uid = nextUid[dest]]} ELSE {}],
               nextUid' = [nextUid EXCEPT ![dest] = @ + 1]
        PROVE  Feed!Transfer(home, dest)
    <2> DEFINE moved == [e EXCEPT !.uid = nextUid[dest]]
               Left == {f \in box[home] : f.uid # id.uid}
    <2>1. moved.uid = nextUid[dest]
      BY <1>0 DEF IInv, TypeOK, Entry
    <2>2. \A m \in Mailbox : box'[m] = (IF m = home THEN Left ELSE box[m])
                                        \cup IF m = dest THEN {moved} ELSE {}
      BY <1>2
    <2> HIDE DEF moved
    <2>3. ASSUME NEW m \in Mailbox
          PROVE  Uids(m)' = (IF m = home THEN Uids(m) \ {id.uid} ELSE Uids(m))
                              \cup IF m = dest THEN {nextUid[dest]} ELSE {}
      <3> DEFINE base == IF m = home THEN Left ELSE box[m]
                 more == IF m = dest THEN {moved} ELSE {}
      <3>1. \A u : u \in Uids(m)' <=> (\E x \in base : x.uid = u) \/ (\E x \in more : x.uid = u)
        <4>1. box'[m] = base \cup more
          BY <2>2
        <4> HIDE DEF base, more
        <4> QED BY <4>1 DEF Uids
      <3>2. \A u : (\E x \in base : x.uid = u) <=> u \in Uids(m) /\ (m = home => u # id.uid)
        BY DEF Uids
      <3>3. \A u : (\E x \in more : x.uid = u) <=> m = dest /\ u = nextUid[dest]
        BY <2>1
      <3> HIDE DEF base, more
      <3> QED BY <3>1, <3>2, <3>3
    <2>4. HeldUids' = [m \in Mailbox |->
                         (IF m = home THEN HeldUids[m] \ {id.uid} ELSE HeldUids[m])
                           \cup IF m = dest THEN {nextUid[dest]} ELSE {}]
      BY <2>3 DEF HeldUids
    <2>5. id.uid \in HeldUids[home]
      BY <1>0, <1>2 DEF HeldUids, Uids
    <2>6. UNCHANGED ListedUids
      BY ListedSame
    <2> QED BY <1>2, <2>4, <2>5, <2>6 DEF Feed!Transfer
  <1> QED BY <1>1, <1>2 DEF MoveUid

LEMMA ApplyTransfers ==
    ASSUME IInv, NEW a \in Actor, ApplyAction(a)
    PROVE  \/ \E from, to \in Mailbox : Feed!Transfer(from, to)
           \/ UNCHANGED Feed!feedVars
  <1>1. UNCHANGED <<generation, rows, cursor, skipped>>
    BY DEF ApplyAction, cacheVars
  <1>2. PICK id \in Id, change \in Change : id = act[a].id /\ change = act[a].change
    <2>1. act[a] \in ActState /\ act[a].pc = "validated"
      BY DEF IInv, TypeOK, ApplyAction
    <2> QED BY <2>1 DEF ActState
  <1>3. ServerApplies(id, change) \/ UNCHANGED <<box, nextUid>>
    BY <1>2 DEF ApplyAction
  <1>4. CASE UNCHANGED <<box, nextUid>>
    BY <1>1, <1>4, ListedSame, HeldSame DEF Feed!feedVars
  <1>5. CASE change.kind = "mark_read" /\ StoreFlag(id, change.seen)
    <2>1. change.seen \in BOOLEAN
      BY <1>5 DEF Change
    <2>2. UNCHANGED <<nextUid, HeldUids>>
      BY <1>5, <2>1, StoreHolds
    <2> QED BY <1>1, <2>2, ListedSame DEF Feed!feedVars
  <1>6. CASE change.kind = "archive" /\ MoveUid(id, Archive)
    BY <1>1, <1>6, MoveTransfers, MailboxAssumption DEF Id
  <1>7. CASE change.kind = "move" /\ MoveUid(id, change.dest)
    <2>1. change.dest \in Mailbox
      BY <1>7 DEF Change
    <2> QED BY <1>1, <1>7, <2>1, MoveTransfers DEF Id
  <1> QED BY <1>3, <1>4, <1>5, <1>6, <1>7 DEF ServerApplies

-----------------------------------------------------------------------------
(* The rest, and the theorem                                               *)

\* What only reads the server, or only concerns the memory of the daemon.
LEMMA OthersStutter ==
    ASSUME \/ BeginPage \/ SelectMailbox \/ SearchMailbox \/ FetchEnvelopes
           \/ ConfirmGeneration \/ RejectPage \/ FailPass \/ Crash
           \/ \E a \in Actor : QueueAction(a) \/ ValidateAction(a)
           \/ \E g \in Reader : OpenMessage(g) \/ FetchMessage(g)
    PROVE  UNCHANGED Feed!feedVars
  <1>1. UNCHANGED <<generation, nextUid, box, rows, cursor, skipped>>
    BY DEF BeginPage, SelectMailbox, SearchMailbox, FetchEnvelopes, ConfirmGeneration,
       RejectPage, FailPass, Crash, QueueAction, ValidateAction, OpenMessage, FetchMessage,
       serverVars, cacheVars
  <1> QED BY <1>1, ListedSame, HeldSame DEF Feed!feedVars

LEMMA InitIsFeedInit == Init => Feed!FeedInit
  <1> SUFFICES ASSUME Init PROVE Feed!FeedInit
    OBVIOUS
  <1>1. HeldUids = [mb \in Mailbox |-> {}]
    BY DEF Init, HeldUids, Uids
  <1>2. ListedUids = [mb \in Mailbox |-> {}]
    BY DEF Init, ListedUids
  <1> QED BY <1>1, <1>2 DEF Init, NoCursor, Feed!FeedInit

LEMMA NextIsFeedNext == IInv /\ IInv' /\ [Next]_vars => [Feed!FeedNext]_(Feed!feedVars)
  <1> SUFFICES ASSUME IInv, IInv', [Next]_vars PROVE Feed!FeedNext \/ UNCHANGED Feed!feedVars
    OBVIOUS
  <1>0. TypeOK
    BY DEF IInv
  <1>1. CASE UNCHANGED vars
    <2>1. UNCHANGED <<generation, nextUid, box, rows, cursor, skipped>>
      BY <1>1 DEF vars, serverVars, cacheVars
    <2> QED BY <2>1, ListedSame, HeldSame DEF Feed!feedVars
  <1>2. ASSUME NEW mb \in Mailbox,
               Arrive(mb) \/ FlagElsewhere(mb) \/ ExpungeElsewhere(mb) \/ NewGeneration(mb)
        PROVE  Feed!FeedNext \/ UNCHANGED Feed!feedVars
    BY <1>0, <1>2, ArriveDelivers, FlagStutters, ExpungeWithdraws, GenerationRenumbers
    DEF Feed!FeedNext
  <1>3. CASE ApplyPage
    <2>1. PICK mb \in Mailbox : mb = Here
      BY <1>0, HereIsMailbox
    <2> QED BY <1>3, <2>1, PageMoves DEF Feed!FeedNext
  <1>4. ASSUME NEW a \in Actor, ApplyAction(a)
        PROVE  Feed!FeedNext \/ UNCHANGED Feed!feedVars
    BY <1>4, ApplyTransfers DEF Feed!FeedNext
  <1>5. ASSUME NEW a \in Actor, FinishAction(a)
        PROVE  Feed!FeedNext \/ UNCHANGED Feed!feedVars
    BY <1>5, FinishChanges DEF Feed!FeedNext
  <1>6. ASSUME NEW g \in Reader, StoreMessage(g)
        PROVE  Feed!FeedNext \/ UNCHANGED Feed!feedVars
    BY <1>6, StoreLists DEF Feed!FeedNext
  <1> QED
    BY <1>1, <1>2, <1>3, <1>4, <1>5, <1>6, OthersStutter DEF Next, SyncStep, ActStep, GetStep

\* Every behaviour of the synchronisation, its requests, the server's changes and
\* the daemon's failures is one of the feed: its position moves forward with what
\* it lists, and nothing the server holds leaves the list.
THEOREM SyncIsFeed == Spec => Feed!FeedSafety
  <1> QED
    BY InitIsFeedInit, NextIsFeedNext, Invariance, PTL DEF Spec, Feed!FeedSafety

-----------------------------------------------------------------------------
(***************************************************************************)
(* A cached id keeps its message.  Behind it is an invariant about every   *)
(* place an id and its message are held together: a current mailbox of the *)
(* server, the cache, a body on its way to the cache, and the page, once   *)
(* the second SELECT has confirmed it or as long as it is going to.        *)
(***************************************************************************)

OnServer(id, m) ==
    id.gen = generation[id.home] /\ \E e \in box[id.home] : e.uid = id.uid /\ e.msg = m

InCache(id, m) == \E r \in rows : r.id = id /\ r.msg = m

InBody(id, m) ==
    \E g \in Reader : get[g].pc = "fetched" /\ get[g].id = id /\ get[g].entry.msg = m

PageHolds == sync.pc = "confirmed" \/ (sync.pc = "fetched" /\ sync.gen = generation[Here])

InPage(id, m) ==
    /\ PageHolds
    /\ id.home = Here /\ id.gen = sync.gen
    /\ \E p \in sync.page : p.uid = id.uid /\ p.msg = m

Means(id, m) == OnServer(id, m) \/ InCache(id, m) \/ InBody(id, m) \/ InPage(id, m)

OneMessagePerId == \A id \in Id : \A m, n : Means(id, m) /\ Means(id, n) => m = n

\* What is held under an id is held under one the server gave out.
LEMMA MeansIssued ==
    ASSUME IInv, NEW id \in Id, NEW m, Means(id, m)
    PROVE  Issued(id.home, id.gen, id.uid)
  <1>0. TypeOK /\ Here \in Mailbox
    BY HereIsMailbox DEF IInv
  <1>1. CASE OnServer(id, m)
    BY <1>0, <1>1, Numbers DEF IInv, OnServer, ServerNumbers, Issued
  <1>2. CASE InCache(id, m)
    BY <1>2 DEF IInv, InCache, IdsIssued
  <1>3. CASE InBody(id, m)
    BY <1>3 DEF IInv, InBody, IdsIssued
  <1>4. CASE InPage(id, m)
    <2>1. /\ sync.pc \in {"fetched", "confirmed"} /\ id.home = Here /\ id.gen = sync.gen
          /\ id.uid \in Requested
      BY <1>4 DEF InPage, PageHolds, IInv, PassFetched
    <2>2. CASE id.uid \in sync.found
      BY <2>1, <2>2 DEF IInv, PassSearched
    <2>3. CASE id.uid \notin sync.found
      <3>1. PICK k \in sync.known : k.home = Here /\ k.gen = sync.gen /\ k.uid = id.uid
        BY <2>1, <2>3 DEF Requested, Reconciled
      <3> QED BY <2>1, <3>1 DEF IInv, IdsIssued
    <2> QED BY <2>2, <2>3
  <1> QED BY <1>1, <1>2, <1>3, <1>4 DEF Means

\* An id is known by its fields.
LEMMA IdsEqual ==
    ASSUME NEW i \in Id, NEW j \in Id, i.home = j.home, i.gen = j.gen, i.uid = j.uid
    PROVE  i = j
  BY DEF Id

-----------------------------------------------------------------------------
(* What a step may add                                                     *)

\* No id comes to mean anything it did not mean.
NothingNew == \A id \in Id : \A m : Means(id, m)' => Means(id, m)

LEMMA NothingNewKeeps ==
    ASSUME OneMessagePerId, NothingNew
    PROVE  OneMessagePerId'
  BY DEF OneMessagePerId, NothingNew

\* One id that was not issued yet comes to mean one message.
LEMMA FreshKeeps ==
    ASSUME IInv, OneMessagePerId, NEW i \in Id, NEW k, ~Issued(i.home, i.gen, i.uid),
           \A id \in Id : \A m : Means(id, m)' => Means(id, m) \/ (id = i /\ m = k)
    PROVE  OneMessagePerId'
  <1>1. \A m : ~Means(i, m)
    BY MeansIssued
  <1> QED BY <1>1 DEF OneMessagePerId

\* A step of the server leaves what the daemon holds.
LEMMA ServerAdds ==
    ASSUME UNCHANGED <<generation, rows, sync, get>>, NEW id \in Id, NEW m, Means(id, m)'
    PROVE  Means(id, m) \/ OnServer(id, m)'
  BY DEF Means, OnServer, InCache, InBody, InPage, PageHolds, Here

LEMMA ArriveKeeps ==
    ASSUME IInv, OneMessagePerId, NEW mb \in Mailbox, Arrive(mb)
    PROVE  OneMessagePerId'
  <1> DEFINE new == [uid |-> nextUid[mb], msg |-> arrived + 1, seen |-> FALSE]
             i == IdOf(mb, generation[mb], nextUid[mb])
  <1>0. TypeOK
    BY DEF IInv
  <1>1. i \in Id /\ i.home = mb /\ i.gen = generation[mb] /\ i.uid = nextUid[mb]
    BY <1>0, Numbers DEF IdOf, Id
  <1>2. new.uid = nextUid[mb] /\ new.msg = arrived + 1
    OBVIOUS
  <1>3. /\ UNCHANGED <<generation, rows, sync, get>>
        /\ box' = [box EXCEPT ![mb] = @ \cup {new}]
    BY DEF Arrive, cacheVars, taskVars
  <1> HIDE DEF new, i
  <1>4. ASSUME NEW id \in Id, NEW m, OnServer(id, m)'
        PROVE  OnServer(id, m) \/ (id = i /\ m = arrived + 1)
    <2>1. PICK e \in box'[id.home] : e.uid = id.uid /\ e.msg = m /\ id.gen = generation[id.home]
      BY <1>3, <1>4 DEF OnServer
    <2>2. e \in box[id.home] \/ (id.home = mb /\ e = new)
      BY <1>0, <1>3, <2>1 DEF TypeOK
    <2> QED BY <1>1, <1>2, <2>1, <2>2, IdsEqual DEF OnServer
  <1>5. \A id \in Id : \A m : Means(id, m)' => Means(id, m) \/ (id = i /\ m = arrived + 1)
    BY <1>3, <1>4, ServerAdds DEF Means
  <1>6. ~Issued(i.home, i.gen, i.uid)
    BY <1>0, <1>1, Numbers DEF Issued
  <1> QED BY <1>1, <1>5, <1>6, FreshKeeps

\* A mailbox that holds what it held, or less, with other flags.
LEMMA SameMessages ==
    ASSUME OneMessagePerId, UNCHANGED <<generation, rows, sync, get>>,
           \A mb \in Mailbox : \A e \in box'[mb] :
               \E f \in box[mb] : f.uid = e.uid /\ f.msg = e.msg
    PROVE  OneMessagePerId'
  <1>1. ASSUME NEW id \in Id, NEW m, OnServer(id, m)'
        PROVE  OnServer(id, m)
    <2>1. id.home \in Mailbox
      BY DEF Id
    <2>2. PICK e \in box'[id.home] : e.uid = id.uid /\ e.msg = m /\ id.gen = generation[id.home]
      BY <1>1 DEF OnServer
    <2> QED BY <2>1, <2>2 DEF OnServer
  <1> QED BY <1>1, ServerAdds, NothingNewKeeps DEF Means, NothingNew

LEMMA ElsewhereKeeps ==
    ASSUME IInv, OneMessagePerId, NEW mb \in Mailbox, FlagElsewhere(mb) \/ ExpungeElsewhere(mb)
    PROVE  OneMessagePerId'
  <1>0. TypeOK
    BY DEF IInv
  <1>1. UNCHANGED <<generation, rows, sync, get>>
    BY DEF FlagElsewhere, ExpungeElsewhere, cacheVars, taskVars
  <1>2. PICK e \in box[mb] :
          \/ box' = [box EXCEPT ![mb] = (@ \ {e}) \cup {[e EXCEPT !.seen = ~@]}]
          \/ box' = [box EXCEPT ![mb] = @ \ {e}]
    BY DEF FlagElsewhere, ExpungeElsewhere
  <1>3. [e EXCEPT !.seen = ~@].uid = e.uid /\ [e EXCEPT !.seen = ~@].msg = e.msg
    BY <1>0 DEF TypeOK, Entry
  <1>4. \A other \in Mailbox : \A d \in box'[other] :
          \/ d \in box[other]
          \/ other = mb /\ d = [e EXCEPT !.seen = ~@]
    BY <1>0, <1>2 DEF TypeOK
  <1>5. \A other \in Mailbox : \A d \in box'[other] :
          \E f \in box[other] : f.uid = d.uid /\ f.msg = d.msg
    BY <1>3, <1>4
  <1> QED BY <1>1, <1>5, SameMessages

\* The new numbers are as many as the old ones.
LEMMA RenumberedApart ==
    ASSUME NEW mb, IsFiniteSet(box[mb]), box[mb] \subseteq Entry,
           NEW e \in box[mb], NEW f \in box[mb],
           Cardinality({g \in box[mb] : g.uid <= e.uid}) = Cardinality({g \in box[mb] : g.uid <= f.uid})
    PROVE  e.uid = f.uid
  <1> DEFINE Upto(u) == {g \in box[mb] : g.uid <= u}
  <1>1. ASSUME NEW x \in box[mb], NEW y \in box[mb], x.uid < y.uid
        PROVE  Cardinality(Upto(x.uid)) # Cardinality(Upto(y.uid))
    <2>1. x.uid \in Nat /\ y.uid \in Nat /\ \A g \in box[mb] : g.uid \in Nat
      BY DEF Entry
    <2>2. Upto(x.uid) \subseteq Upto(y.uid) /\ Upto(y.uid) \subseteq box[mb]
      BY <1>1, <2>1
    <2>3. y \in Upto(y.uid) /\ y \notin Upto(x.uid)
      BY <1>1, <2>1
    <2>4. IsFiniteSet(Upto(y.uid))
      BY <2>2, FS_Subset
    <2> HIDE DEF Upto
    <2> QED BY <2>2, <2>3, <2>4, FS_Subset
  <1>2. e.uid \in Nat /\ f.uid \in Nat
    BY DEF Entry
  <1>3. ~(e.uid < f.uid) /\ ~(f.uid < e.uid)
    BY <1>1
  <1> QED BY <1>2, <1>3

\* A rebuilt mailbox gives its messages ids of a new generation.
LEMMA GenerationKeeps ==
    ASSUME IInv, OneMessagePerId, NEW mb \in Mailbox, NewGeneration(mb)
    PROVE  OneMessagePerId'
  <1> DEFINE Position(e) == Cardinality({f \in box[mb] : f.uid <= e.uid})
             Again(id, m) ==
               /\ id.home = mb /\ id.gen = generation[mb] + 1
               /\ \E e \in box[mb] : id.uid = Position(e) /\ e.msg = m
  <1>0. TypeOK /\ Here \in Mailbox /\ IsFiniteSet(box[mb]) /\ box[mb] \subseteq Entry
    BY HereIsMailbox DEF IInv, TypeOK, ServerNumbers
  <1>1. /\ UNCHANGED <<rows, sync, get>> /\ Here' = Here
        /\ box'[mb] = Renumbered(mb)
        /\ generation'[mb] = generation[mb] + 1
        /\ \A other \in Mailbox \ {mb} :
             box'[other] = box[other] /\ generation'[other] = generation[other]
    BY <1>0 DEF NewGeneration, TypeOK, cacheVars, taskVars, Here
  <1>2. \A d \in box'[mb] : \E e \in box[mb] : d.uid = Position(e) /\ d.msg = e.msg
    <2> DEFINE Moved(e) == [e EXCEPT !.uid = Position(e)]
    <2>1. Renumbered(mb) = {Moved(e) : e \in box[mb]}
      BY DEF Renumbered
    <2>2. ASSUME NEW e \in box[mb] PROVE Moved(e).uid = Position(e) /\ Moved(e).msg = e.msg
      <3> HIDE DEF Position
      <3> QED BY <1>0 DEF Entry
    <2> HIDE DEF Moved, Position
    <2> QED BY <1>1, <2>1, <2>2
  <1>3. ASSUME NEW id \in Id, NEW m, Means(id, m)'
        PROVE  Means(id, m) \/ Again(id, m)
    <2> HIDE DEF Position
    <2>0. id.home \in Mailbox
      BY DEF Id
    <2>1. CASE OnServer(id, m)'
      BY <1>1, <1>2, <2>0, <2>1 DEF OnServer, Means
    <2>2. CASE InCache(id, m)' \/ InBody(id, m)'
      BY <1>1, <2>2 DEF InCache, InBody, Means
    <2>3. CASE InPage(id, m)'
      <3>1. sync.pc = "fetched" /\ sync.gen = generation'[Here] => sync.gen = generation[Here]
        BY <1>0, <1>1, Numbers DEF IInv, PassSelected, Issued
      <3> QED BY <1>1, <2>3, <3>1 DEF InPage, PageHolds, Means
    <2> QED BY <1>3, <2>1, <2>2, <2>3 DEF Means
  <1>4. ASSUME NEW id \in Id, NEW m, Again(id, m)
        PROVE  \A n : ~Means(id, n)
    <2>1. ~Issued(id.home, id.gen, id.uid)
      BY <1>0, <1>4, Numbers DEF Issued
    <2> QED BY <2>1, MeansIssued
  <1>5. ASSUME NEW id \in Id, NEW m, NEW n, Again(id, m), Again(id, n)
        PROVE  m = n
    <2>1. PICK e \in box[mb] : id.uid = Position(e) /\ e.msg = m
      BY <1>5
    <2>2. PICK f \in box[mb] : id.uid = Position(f) /\ f.msg = n
      BY <1>5
    <2>3. e.uid = f.uid
      BY <1>0, <2>1, <2>2, RenumberedApart
    <2> DEFINE old == IdOf(mb, generation[mb], e.uid)
    <2>4. old \in Id /\ old.home = mb /\ old.gen = generation[mb] /\ old.uid = e.uid
      BY <1>0, Numbers DEF IdOf, Id
    <2> HIDE DEF old
    <2>5. Means(old, m) /\ Means(old, n)
      BY <2>1, <2>2, <2>3, <2>4 DEF Means, OnServer
    <2> QED BY <2>4, <2>5 DEF OneMessagePerId
  <1> HIDE DEF Again
  <1> QED BY <1>3, <1>4, <1>5 DEF OneMessagePerId

\* A move gives the message a new id in its destination.
LEMMA MoveKeeps ==
    ASSUME IInv, OneMessagePerId, NEW id \in Id, NEW dest \in Mailbox, MoveUid(id, dest),
           UNCHANGED <<generation, rows, sync, get>>
    PROVE  OneMessagePerId'
  <1>0. TypeOK /\ id.home \in Mailbox
    BY DEF IInv, Id
  <1>1. CASE UNCHANGED box
    BY <1>1, SameMessages
  <1>2. CASE ~UNCHANGED box
    <2>1. PICK e \in box[id.home] :
            box' = [mb \in Mailbox |->
                      (IF mb = id.home THEN {f \in box[mb] : f.uid # id.uid} ELSE box[mb])
                        \cup IF mb = dest THEN {[e EXCEPT !.uid = nextUid[dest]]} ELSE {}]
      BY <1>2 DEF MoveUid
    <2> DEFINE moved == [e EXCEPT !.uid = nextUid[dest]]
               i == IdOf(dest, generation[dest], nextUid[dest])
    <2>2. moved.uid = nextUid[dest] /\ moved.msg = e.msg
      BY <1>0 DEF TypeOK, Entry
    <2>3. i \in Id /\ i.home = dest /\ i.gen = generation[dest] /\ i.uid = nextUid[dest]
      BY <1>0, Numbers DEF IdOf, Id
    <2>4. \A mb \in Mailbox : \A d \in box'[mb] : d \in box[mb] \/ (mb = dest /\ d = moved)
      BY <2>1
    <2> HIDE DEF moved, i
    <2>5. ASSUME NEW x \in Id, NEW m, OnServer(x, m)'
          PROVE  OnServer(x, m) \/ (x = i /\ m = e.msg)
      <3>1. x.home \in Mailbox
        BY DEF Id
      <3>2. PICK d \in box'[x.home] : d.uid = x.uid /\ d.msg = m /\ x.gen = generation[x.home]
        BY <2>5 DEF OnServer
      <3>3. d \in box[x.home] \/ (x.home = dest /\ d = moved)
        BY <2>4, <3>1
      <3> QED BY <2>2, <2>3, <3>2, <3>3, IdsEqual DEF OnServer
    <2>6. \A x \in Id : \A m : Means(x, m)' => Means(x, m) \/ (x = i /\ m = e.msg)
      BY <2>5, ServerAdds DEF Means
    <2>7. ~Issued(i.home, i.gen, i.uid)
      BY <1>0, <2>3, Numbers DEF Issued
    <2> QED BY <2>3, <2>6, <2>7, FreshKeeps
  <1> QED BY <1>1, <1>2

\* STORE changes flags only.
LEMMA StoreKeeps ==
    ASSUME IInv, OneMessagePerId, NEW id \in Id, NEW seen \in BOOLEAN, StoreFlag(id, seen),
           UNCHANGED <<generation, rows, sync, get>>
    PROVE  OneMessagePerId'
  <1> DEFINE flagged(e) == IF e.uid = id.uid THEN [e EXCEPT !.seen = seen] ELSE e
  <1>0. TypeOK /\ id.home \in Mailbox
    BY DEF IInv, Id
  <1>1. ASSUME NEW e \in box[id.home] PROVE flagged(e).uid = e.uid /\ flagged(e).msg = e.msg
    BY <1>0 DEF TypeOK, Entry
  <1>2. /\ box'[id.home] = {flagged(e) : e \in box[id.home]}
        /\ \A other \in Mailbox \ {id.home} : box'[other] = box[other]
    BY <1>0 DEF StoreFlag, TypeOK
  <1> HIDE DEF flagged
  <1>3. \A mb \in Mailbox : \A d \in box'[mb] : \E f \in box[mb] : f.uid = d.uid /\ f.msg = d.msg
    BY <1>1, <1>2
  <1> QED BY <1>3, SameMessages

-----------------------------------------------------------------------------
(* The cache                                                               *)

\* A row has its message from a row, from the page or from a body.
LEMMA RowsMean ==
    ASSUME IInv, Next, NEW q \in rows'
    PROVE  Means(q.id, q.msg)
  <1>0. TypeOK
    BY DEF IInv
  <1>1. CASE ApplyPage
    <2>1. CASE q \in Kept
      BY <2>1 DEF Kept, InCache, Means
    <2>2. CASE q \notin Kept
      <3>1. PICK e \in sync.page : q = PageRow(e)
        BY <1>1, <2>2, PageRows
      <3>2. q.id = IdOf(Here, sync.gen, e.uid) /\ q.msg = e.msg
        BY <3>1 DEF PageRow
      <3> QED BY <1>1, <3>2, IdOfFields DEF ApplyPage, PageHolds, InPage, Means
    <2> QED BY <2>1, <2>2
  <1>2. ASSUME NEW a \in Actor, FinishAction(a) PROVE Means(q.id, q.msg)
    <2>1. CASE q \in rows
      BY <2>1 DEF InCache, Means
    <2>2. CASE q \notin rows
      <3>1. q \in Mirrored(act[a].id, act[a].change)
        BY <1>2, <2>2 DEF FinishAction
      <3>2. PICK r \in rows :
              \/ \E x : q = [r EXCEPT !.seen = x]
              \/ \E y : q = [r EXCEPT !.mailbox = y]
        BY <2>2, <3>1 DEF Mirrored
      <3>3. r \in Row
        BY <1>0 DEF TypeOK
      <3>4. q.id = r.id /\ q.msg = r.msg
        BY <3>2, <3>3 DEF Row
      <3> QED BY <3>4 DEF InCache, Means
    <2> QED BY <2>1, <2>2
  <1>3. ASSUME NEW g \in Reader, StoreMessage(g) PROVE Means(q.id, q.msg)
    <2>1. CASE q \in rows
      BY <2>1 DEF InCache, Means
    <2>2. CASE q \notin rows
      <3>1. q.id = get[g].id /\ q.msg = get[g].entry.msg
        BY <1>3, <2>2 DEF StoreMessage, Upsert
      <3> QED BY <1>3, <3>1 DEF StoreMessage, InBody, Means
    <2> QED BY <2>1, <2>2
  <1>4. CASE UNCHANGED rows
    BY <1>4 DEF InCache, Means
  <1>5. \/ ApplyPage \/ UNCHANGED rows
        \/ \E a \in Actor : FinishAction(a)
        \/ \E g \in Reader : StoreMessage(g)
    <2>1. ASSUME NEW a \in Actor, QueueAction(a) \/ ValidateAction(a) \/ ApplyAction(a)
          PROVE  UNCHANGED rows
      BY <2>1 DEF QueueAction, ValidateAction, ApplyAction, cacheVars
    <2>2. ASSUME NEW g \in Reader, OpenMessage(g) \/ FetchMessage(g)
          PROVE  UNCHANGED rows
      BY <2>2 DEF OpenMessage, FetchMessage, cacheVars
    <2>3. ASSUME NEW mb \in Mailbox,
                 Arrive(mb) \/ FlagElsewhere(mb) \/ ExpungeElsewhere(mb) \/ NewGeneration(mb)
          PROVE  UNCHANGED rows
      BY <2>3 DEF Arrive, FlagElsewhere, ExpungeElsewhere, NewGeneration, cacheVars
    <2>4. (SyncStep /\ ~ApplyPage) \/ FailPass \/ Crash => UNCHANGED rows
      BY DEF SyncStep, BeginPage, SelectMailbox, SearchMailbox, FetchEnvelopes, ConfirmGeneration,
         RejectPage, FailPass, Crash, cacheVars
    <2> QED BY <2>1, <2>2, <2>3, <2>4 DEF Next, ActStep, GetStep
  <1> QED BY <1>1, <1>2, <1>3, <1>4, <1>5

\* A step of the cache, a body or a page only passes on what was held already.
LEMMA HandedOn ==
    ASSUME IInv, OneMessagePerId, Next, UNCHANGED <<generation, box>>,
           \A id \in Id : \A m : InBody(id, m)' => Means(id, m),
           \A id \in Id : \A m : InPage(id, m)' => Means(id, m)
    PROVE  OneMessagePerId'
  <1>1. ASSUME NEW id \in Id, NEW m, InCache(id, m)' PROVE Means(id, m)
    BY <1>1, RowsMean DEF InCache
  <1>2. \A id \in Id : \A m : OnServer(id, m)' => Means(id, m)
    BY DEF OnServer, Means
  <1> QED BY <1>1, <1>2, NothingNewKeeps DEF NothingNew, Means

\* Where a step leaves the pass.
LEMMA PassSteps ==
    ASSUME TypeOK
    PROVE  /\ BeginPage => sync'.pc = "begun"
           /\ SelectMailbox => sync'.pc = "selected"
           /\ SearchMailbox => sync'.pc = "searched"
           /\ ApplyPage \/ RejectPage \/ FailPass \/ Crash => sync'.pc = "idle"
  <1>0. sync \in SyncState
    BY DEF TypeOK
  <1>1. BeginPage => sync'.pc = "begun"
    <2> DEFINE newest == {r.id : r \in NewestRows(Here)}
               from == cursor[Here]
    <2>1. BeginPage => sync' = [sync EXCEPT !.pc = "begun", !.cursor = from, !.known = newest]
      BY DEF BeginPage
    <2> HIDE DEF newest, from
    <2> QED BY <1>0, <2>1 DEF SyncState
  <1>2. SelectMailbox => sync'.pc = "selected"
    BY <1>0 DEF SelectMailbox, SyncState
  <1>3. SearchMailbox => sync'.pc = "searched"
    <2> SUFFICES ASSUME SearchMailbox PROVE sync'.pc = "searched"
      OBVIOUS
    <2>1. CASE SearchNothing
      BY <1>0, <2>1 DEF SearchNothing, SyncState
    <2>2. CASE SearchWindow
      <3> DEFINE hits == {u \in Uids(Here) : sync.cursor.last < u /\ u <= SearchCeiling}
                 found == Lowest(hits, PageLimit)
      <3>1. \E high \in found \cup {SearchCeiling} :
              sync' = [sync EXCEPT !.pc = "searched", !.found = found, !.high = high]
        BY <2>2, Zenon DEF SearchWindow
      <3> HIDE DEF found
      <3> QED BY <1>0, <3>1 DEF SyncState
    <2>3. CASE SearchRecent
      BY <1>0, <2>3 DEF SearchRecent, SyncState
    <2> QED BY <2>1, <2>2, <2>3 DEF SearchMailbox
  <1>4. ApplyPage \/ RejectPage \/ FailPass \/ Crash => sync'.pc = "idle"
    BY DEF ApplyPage, RejectPage, FailPass, Crash, Idle
  <1> QED BY <1>1, <1>2, <1>3, <1>4

\* A page is read from the mailbox, and confirmed while its generation is current.
LEMMA PassKeeps ==
    ASSUME IInv, OneMessagePerId, SyncStep
    PROVE  OneMessagePerId'
  <1>0. TypeOK /\ sync \in SyncState /\ Here \in Mailbox
    BY HereIsMailbox DEF IInv
  <1>1. UNCHANGED <<generation, box, get>> /\ Next
    BY DEF Next, SyncStep, BeginPage, SelectMailbox, SearchMailbox, FetchEnvelopes,
       ConfirmGeneration, ApplyPage, RejectPage, serverVars
  <1>2. \A id \in Id : \A m : InBody(id, m)' => Means(id, m)
    BY <1>1 DEF InBody, Means
  <1>3. ASSUME NEW id \in Id, NEW m, InPage(id, m)' PROVE Means(id, m)
    <2>1. sync'.pc \in {"fetched", "confirmed"}
      BY <1>3 DEF InPage, PageHolds
    <2>2. CASE FetchEnvelopes
      <3>1. /\ sync'.pc = "fetched" /\ sync'.gen = sync.gen /\ Here' = Here
            /\ sync'.page = {e \in box[Here] : e.uid \in Requested}
        BY <1>0, <2>2 DEF FetchEnvelopes, SyncState, Here
      <3> QED BY <1>1, <1>3, <3>1 DEF InPage, PageHolds, OnServer, Means
    <2>3. CASE ConfirmGeneration
      <3>1. /\ sync.pc = "fetched" /\ generation[Here] = sync.gen
            /\ sync' = [sync EXCEPT !.pc = "confirmed"]
        BY <2>1, <2>3 DEF ConfirmGeneration, Idle
      <3>2. sync'.gen = sync.gen /\ sync'.page = sync.page /\ Here' = Here
        BY <1>0, <3>1 DEF SyncState, Here
      <3> QED BY <1>3, <3>1, <3>2 DEF InPage, PageHolds, Means
    <2>4. CASE ~FetchEnvelopes /\ ~ConfirmGeneration
      <3> QED BY <1>0, <2>1, <2>4, PassSteps DEF SyncStep
    <2> QED BY <2>2, <2>3, <2>4
  <1> QED BY <1>1, <1>2, <1>3, HandedOn

LEMMA EndKeeps ==
    ASSUME IInv, OneMessagePerId, FailPass \/ Crash
    PROVE  OneMessagePerId'
  <1>1. UNCHANGED <<generation, box>> /\ Next
    BY DEF Next, FailPass, Crash, serverVars
  <1>2. \A id \in Id : \A m : InBody(id, m)' => Means(id, m)
    BY DEF FailPass, Crash, Done, InBody, Means
  <1>3. \A id \in Id : \A m : ~InPage(id, m)'
    BY DEF FailPass, Crash, Idle, InPage, PageHolds
  <1> QED BY <1>1, <1>2, <1>3, HandedOn

LEMMA ActKeeps ==
    ASSUME IInv, OneMessagePerId, NEW a \in Actor, QueueAction(a) \/ ActStep(a)
    PROVE  OneMessagePerId'
  <1>1. CASE ApplyAction(a)
    <2>1. /\ act[a].pc = "validated" /\ UNCHANGED <<generation, rows, sync, get>>
          /\ ServerApplies(act[a].id, act[a].change) \/ UNCHANGED box
      BY <1>1 DEF ApplyAction, cacheVars
    <2>2. act[a].id \in Id /\ act[a].change \in Change
      BY <2>1 DEF IInv, TypeOK, ActState
    <2>3. CASE UNCHANGED box
      BY <2>1, <2>3, SameMessages
    <2>4. CASE ServerApplies(act[a].id, act[a].change)
      <3>1. \/ \E seen \in BOOLEAN : StoreFlag(act[a].id, seen)
            \/ \E dest \in Mailbox : MoveUid(act[a].id, dest)
        BY <2>2, <2>4, MailboxAssumption DEF ServerApplies, Change
      <3> QED BY <2>1, <2>2, <3>1, StoreKeeps, MoveKeeps
    <2> QED BY <2>1, <2>3, <2>4
  <1>2. CASE QueueAction(a) \/ ValidateAction(a) \/ FinishAction(a)
    <2>1. UNCHANGED <<generation, box, sync, get>> /\ Next
      BY <1>2 DEF QueueAction, ValidateAction, FinishAction, ActStep, Next, serverVars
    <2>2. \A id \in Id : \A m : InBody(id, m)' => Means(id, m)
      BY <2>1 DEF InBody, Means
    <2>3. \A id \in Id : \A m : InPage(id, m)' => Means(id, m)
      BY <2>1 DEF InPage, PageHolds, Here, Means
    <2> QED BY <2>1, <2>2, <2>3, HandedOn
  <1> QED BY <1>1, <1>2 DEF ActStep

\* A body is taken from a mailbox whose generation is the id's.
LEMMA GetKeeps ==
    ASSUME IInv, OneMessagePerId, NEW g \in Reader, OpenMessage(g) \/ GetStep(g)
    PROVE  OneMessagePerId'
  <1>1. UNCHANGED <<generation, box, sync>> /\ Next
    BY DEF OpenMessage, GetStep, FetchMessage, StoreMessage, Next, serverVars
  <1>2. \A h \in Reader \ {g} : get'[h] = get[h]
    BY DEF OpenMessage, GetStep, FetchMessage, StoreMessage, IInv, TypeOK
  <1>3. ASSUME get'[g].pc = "fetched" PROVE OnServer(get'[g].id, get'[g].entry.msg)
    <2>0. get \in [Reader -> GetState]
      BY DEF IInv, TypeOK
    <2>1. FetchMessage(g)
      BY <1>3, <2>0 DEF OpenMessage, GetStep, StoreMessage, Done
    <2>2. PICK e \in box[get[g].id.home] :
            /\ e.uid = get[g].id.uid /\ generation[get[g].id.home] = get[g].id.gen
            /\ get' = [get EXCEPT ![g] = [pc |-> "fetched", id |-> get[g].id, entry |-> e]]
      BY <1>3, <2>0, <2>1 DEF FetchMessage, Done
    <2>3. get'[g].id = get[g].id /\ get'[g].entry = e
      BY <2>0, <2>2
    <2> QED BY <2>2, <2>3 DEF OnServer
  <1>4. \A id \in Id : \A m : InBody(id, m)' => Means(id, m)
    BY <1>2, <1>3 DEF InBody, Means
  <1>5. \A id \in Id : \A m : InPage(id, m)' => Means(id, m)
    BY <1>1 DEF InPage, PageHolds, Here, Means
  <1> QED BY <1>1, <1>4, <1>5, HandedOn

LEMMA InitMeans == Init => OneMessagePerId
  BY DEF Init, OneMessagePerId, Means, OnServer, InCache, InBody, InPage, PageHolds, Idle, Done, Id

LEMMA NextMeans == IInv /\ OneMessagePerId /\ [Next]_vars => OneMessagePerId'
  <1> SUFFICES ASSUME IInv, OneMessagePerId, [Next]_vars PROVE OneMessagePerId'
    OBVIOUS
  <1>1. CASE UNCHANGED vars
    BY <1>1, SameMessages DEF vars, serverVars, cacheVars, taskVars
  <1>2. CASE Next
    BY <1>2, ArriveKeeps, ElsewhereKeeps, GenerationKeeps, PassKeeps, EndKeeps, ActKeeps, GetKeeps
    DEF Next
  <1> QED BY <1>1, <1>2

\* A cached id never comes to show another message (sync_page and fetch_message
\* check UIDVALIDITY around what they read by UID): whatever races with a page or
\* a body on its way, the cache changes what it says of a message, not which it is.
THEOREM IdsKeepTheirMessage == Spec => IdentityStable
  <1> DEFINE Stable == \A r \in rows, q \in rows' : r.id = q.id => r.msg = q.msg
  <1>1. IInv /\ OneMessagePerId /\ [Next]_vars => [Stable]_vars
    <2> SUFFICES ASSUME IInv, OneMessagePerId, Next,
                        NEW r \in rows, NEW q \in rows', r.id = q.id
                 PROVE  r.msg = q.msg
      OBVIOUS
    <2>1. r.id \in Id
      BY Numbers DEF IInv
    <2>2. Means(r.id, r.msg)
      BY DEF InCache, Means
    <2> QED BY <2>1, <2>2, RowsMean DEF OneMessagePerId
  <1> QED BY <1>1, Invariance, InitMeans, NextMeans, PTL DEF Spec, IdentityStable

-----------------------------------------------------------------------------
(***************************************************************************)
(* The bootstrap leaves out only what is older than the page it fills.     *)
(***************************************************************************)

\* A page of the highest UIDs that leaves one out is full, and of higher ones
\* (newest_uid_page).
LEMMA HighestIsFull ==
    ASSUME NEW S \in SUBSET Nat, IsFiniteSet(S), NEW n \in Nat,
           NEW u \in S, u \notin Highest(S, n)
    PROVE  /\ Cardinality(Highest(S, n)) = n
           /\ \A v \in Highest(S, n) : u < v
  <1> DEFINE Above(x) == {w \in S : w > x}
             H == Highest(S, n)
  <1>1. ASSUME NEW x \in S
        PROVE  /\ Above(x) \subseteq S /\ IsFiniteSet(Above(x))
               /\ Cardinality(Above(x)) \in Nat
               /\ x \in H <=> Cardinality(Above(x)) < n
               /\ \A w : w \in Above(x) <=> w \in S /\ w > x
    <2>1. Above(x) \subseteq S
      OBVIOUS
    <2>2. x \in H <=> Cardinality(Above(x)) < n
      BY DEF Highest
    <2> QED BY <2>1, <2>2, FS_Subset, FS_CardinalityType
  <1>2. H \subseteq S /\ IsFiniteSet(H) /\ Cardinality(H) \in Nat
    <2>1. H \subseteq S
      BY DEF Highest
    <2> QED BY <2>1, FS_Subset, FS_CardinalityType
  <1> HIDE DEF Above, H
  <1>3. ASSUME NEW x \in S, NEW y \in S, x < y
        PROVE  /\ Above(y) \subseteq Above(x) /\ Above(y) # Above(x)
               /\ Cardinality(Above(y)) < Cardinality(Above(x))
    <2>1. \A w \in S : w > y => w > x
      BY <1>3
    <2>2. Above(y) \subseteq Above(x) /\ y \in Above(x) /\ y \notin Above(y)
      <3>1. x \in Nat /\ y \in Nat /\ y > x /\ ~(y > y)
        BY <1>3
      <3> QED BY <1>1, <2>1, <3>1
    <2> QED BY <1>1, <2>2, FS_Subset
  <1>4. ASSUME NEW v \in H PROVE u < v
    <2>1. v \in S /\ Cardinality(Above(v)) < n /\ ~(Cardinality(Above(u)) < n)
      BY <1>1, <1>2 DEF H
    <2>2. u \in Nat /\ v \in Nat
      BY <2>1
    <2>3. CASE v = u
      BY <2>1, <2>3
    <2>4. CASE v < u
      BY <1>1, <1>3, <2>1, <2>4
    <2> QED BY <2>2, <2>3, <2>4
  <1>5. Cardinality(H) <= n
    <2> DEFINE f == [v \in H |-> Cardinality(Above(v))]
    <2>1. \A v \in H : Cardinality(Above(v)) \in 0..(n - 1)
      BY <1>1, <1>2
    <2>2. \A v, w \in H : v # w => Cardinality(Above(v)) # Cardinality(Above(w))
      <3> SUFFICES ASSUME NEW v \in H, NEW w \in H, v < w
                   PROVE  Cardinality(Above(v)) # Cardinality(Above(w))
        BY <1>2
      <3> QED BY <1>1, <1>2, <1>3
    <2>3. f \in Injection(H, 0..(n - 1))
      <3>1. f \in [H -> 0..(n - 1)]
        BY <2>1
      <3>2. \A v, w \in H : f[v] = f[w] => v = w
        BY <2>2
      <3> HIDE DEF f
      <3> QED BY <3>1, <3>2 DEF Injection, IsInjective
    <2> HIDE DEF f
    <2>4. IsFiniteSet(0..(n - 1)) /\ Cardinality(0..(n - 1)) = n
      BY FS_Interval
    <2> QED BY <2>3, <2>4, FS_Injection
  <1>6. ~(Cardinality(H) < n)
    <2> SUFFICES ASSUME Cardinality(H) < n PROVE FALSE
      OBVIOUS
    <2> DEFINE Rest == S \ H
               T == {Above(x) : x \in Rest}
               R == StrictSubsetOrdering(S)
    <2>1. T \subseteq FiniteSubsetsOf(S) /\ T # {}
      <3>1. u \in Rest
        BY DEF H
      <3> QED BY <1>1, <3>1 DEF FiniteSubsetsOf
    <2>2. \E a \in T : \A b \in T : <<b, a>> \notin R
      <3> HIDE DEF T
      <3> QED BY <2>1, FS_StrictSubsetOrderingWellFounded, WFMin
    <2>3. PICK x \in Rest : \A y \in Rest : <<Above(y), Above(x)>> \notin R
      BY <2>2
    <2>4. \A y \in Rest : ~(Above(y) \subseteq Above(x) /\ Above(y) # Above(x))
      BY <1>1, <2>3 DEF StrictSubsetOrdering
    <2>5. Above(x) \subseteq H
      <3> SUFFICES ASSUME NEW w \in Above(x), w \notin H PROVE FALSE
        OBVIOUS
      <3>1. w \in Rest /\ x < w
        BY <1>1
      <3> QED BY <1>3, <2>4, <3>1
    <2>6. Cardinality(Above(x)) <= Cardinality(H)
      BY <1>2, <2>5, FS_Subset
    <2>7. Cardinality(Above(x)) < n
      BY <1>1, <1>2, <2>6
    <2> QED BY <1>1, <2>7
  <1> QED BY <1>2, <1>4, <1>5, <1>6 DEF H

\* What a pass leaves out, from the search until it ends.
LeavesOlder ==
    sync.pc \in {"searched", "fetched", "confirmed"} /\ ~SameGeneration =>
        \A u \in sync.left :
            \/ u <= sync.high - BootstrapSpan
            \/ /\ Cardinality(sync.found) = PageLimit
               /\ \A v \in sync.found : u < v

LEMMA SearchLeavesOlder ==
    ASSUME IInv, SearchMailbox
    PROVE  LeavesOlder'
  <1>0. TypeOK /\ sync \in SyncState /\ Here \in Mailbox
    BY HereIsMailbox DEF IInv
  <1>1. CASE SearchNothing \/ SearchWindow
    <2>1. SameGeneration
      BY <1>1, Zenon DEF SearchNothing, SearchWindow
    <2>2. sync'.cursor = sync.cursor /\ sync'.gen = sync.gen
      <3>1. CASE SearchNothing
        BY <1>0, <3>1 DEF SearchNothing, SyncState
      <3>2. CASE SearchWindow
        <4> DEFINE hits == {u \in Uids(Here) : sync.cursor.last < u /\ u <= SearchCeiling}
                   found == Lowest(hits, PageLimit)
        <4>1. \E high \in found \cup {SearchCeiling} :
                sync' = [sync EXCEPT !.pc = "searched", !.found = found, !.high = high]
          BY <3>2, Zenon DEF SearchWindow
        <4> HIDE DEF found
        <4> QED BY <1>0, <4>1 DEF SyncState
      <3> QED BY <1>1, <3>1, <3>2
    <2> QED BY <2>1, <2>2 DEF LeavesOlder, SameGeneration
  <1>2. CASE SearchRecent
    <2> DEFINE hits == {u \in Uids(Here) : sync.through - BootstrapSpan < u /\ u <= sync.through}
               found == Highest(hits, PageLimit)
               left == {u \in Uids(Here) : u <= sync.through} \ found
    <2>1. sync' = [sync EXCEPT !.pc = "searched", !.found = found, !.high = sync.through,
                               !.left = left]
      BY <1>2 DEF SearchRecent
    <2>2. /\ Uids(Here) \subseteq Nat /\ IsFiniteSet(Uids(Here))
          /\ sync.through \in Nat /\ BootstrapSpan \in Nat /\ PageLimit \in Nat
      <3>1. Uids(Here) \subseteq Nat
        BY <1>0, Numbers DEF Uids
      <3> QED BY <1>0, <3>1, UidsFinite, Numbers, LimitAssumption DEF IInv, ServerNumbers
    <2>3. hits \in SUBSET Nat /\ IsFiniteSet(hits)
      <3>1. hits \subseteq Uids(Here)
        OBVIOUS
      <3> QED BY <2>2, <3>1, FS_Subset
    <2>4. ASSUME NEW u \in left, ~(u <= sync.through - BootstrapSpan)
          PROVE  Cardinality(found) = PageLimit /\ \A v \in found : u < v
      <3>1. u \in hits /\ u \notin found
        BY <2>2, <2>4
      <3> HIDE DEF hits
      <3> QED BY <2>2, <2>3, <3>1, HighestIsFull
    <2> HIDE DEF hits, found, left
    <2>5. sync'.found = found /\ sync'.high = sync.through /\ sync'.left = left
      BY <1>0, <2>1 DEF SyncState
    <2> QED BY <2>4, <2>5 DEF LeavesOlder
  <1> QED BY <1>1, <1>2 DEF SearchMailbox

LEMMA NextLeavesOlder == IInv /\ LeavesOlder /\ [Next]_vars => LeavesOlder'
  <1> SUFFICES ASSUME IInv, LeavesOlder, [Next]_vars PROVE LeavesOlder'
    OBVIOUS
  <1>0. TypeOK /\ sync \in SyncState
    BY HereIsMailbox DEF IInv
  <1>1. ASSUME sync'.pc \in {"idle", "begun", "selected"} PROVE LeavesOlder'
    BY <1>1 DEF LeavesOlder
  <1>2. ASSUME sync'.pc \in {"fetched", "confirmed"}, sync.pc \in {"searched", "fetched"},
               sync'.cursor = sync.cursor, sync'.gen = sync.gen, sync'.high = sync.high,
               sync'.found = sync.found, sync'.left = sync.left
        PROVE  LeavesOlder'
    BY <1>2 DEF LeavesOlder, SameGeneration
  <1>3. CASE UNCHANGED sync
    BY <1>3 DEF LeavesOlder, SameGeneration
  <1>4. CASE SearchMailbox
    BY <1>4, SearchLeavesOlder
  <1>5. CASE FetchEnvelopes
    <2>1. /\ sync.pc = "searched"
          /\ \E page : sync' = [sync EXCEPT !.pc = "fetched", !.page = page]
      BY <1>5, Zenon DEF FetchEnvelopes
    <2> QED BY <1>0, <1>2, <2>1 DEF SyncState
  <1>6. CASE ConfirmGeneration
    BY <1>0, <1>1, <1>2, <1>6 DEF ConfirmGeneration, Idle, SyncState
  <1>7. CASE BeginPage \/ SelectMailbox \/ ApplyPage \/ RejectPage \/ FailPass \/ Crash
    BY <1>0, <1>1, <1>7, PassSteps
  <1>8. \/ UNCHANGED sync \/ SearchMailbox \/ FetchEnvelopes \/ ConfirmGeneration
        \/ BeginPage \/ SelectMailbox \/ ApplyPage \/ RejectPage \/ FailPass \/ Crash
    <2>1. ASSUME NEW a \in Actor, QueueAction(a) \/ ActStep(a) PROVE UNCHANGED sync
      BY <2>1 DEF QueueAction, ActStep, ValidateAction, ApplyAction, FinishAction
    <2>2. ASSUME NEW g \in Reader, OpenMessage(g) \/ GetStep(g) PROVE UNCHANGED sync
      BY <2>2 DEF OpenMessage, GetStep, FetchMessage, StoreMessage
    <2>3. ASSUME NEW mb \in Mailbox,
                 Arrive(mb) \/ FlagElsewhere(mb) \/ ExpungeElsewhere(mb) \/ NewGeneration(mb)
          PROVE  UNCHANGED sync
      BY <2>3 DEF Arrive, FlagElsewhere, ExpungeElsewhere, NewGeneration, taskVars
    <2>4. UNCHANGED vars => UNCHANGED sync
      BY DEF vars, taskVars
    <2> QED BY <2>1, <2>2, <2>3, <2>4 DEF Next, SyncStep
  <1> QED BY <1>3, <1>4, <1>5, <1>6, <1>7, <1>8

\* A bootstrap that leaves messages of the searched windows out has filled its
\* page with newer ones (search_recent_uids, newest_uid_page), and what the cursor
\* then steps over is that and nothing else.
THEOREM BootstrapTakesNewest == Spec => BootstrapKeepsNewest
  <1> DEFINE Newest ==
               \A mb \in Mailbox :
                   cursor'[mb].gen # cursor[mb].gen =>
                       \A u \in skipped'[mb] :
                           \/ u <= cursor'[mb].last - BootstrapSpan
                           \/ /\ Cardinality(sync.found) = PageLimit
                              /\ \A v \in sync.found : u < v
  <1>1. IInv /\ LeavesOlder /\ [Next]_vars => [Newest]_vars
    <2> SUFFICES ASSUME IInv, LeavesOlder, Next, NEW mb \in Mailbox,
                        cursor'[mb].gen # cursor[mb].gen, NEW u \in skipped'[mb]
                 PROVE  \/ u <= cursor'[mb].last - BootstrapSpan
                        \/ /\ Cardinality(sync.found) = PageLimit
                           /\ \A v \in sync.found : u < v
      OBVIOUS
    <2>1. TypeOK /\ ApplyPage
      BY OnlyPagesMoveCursors DEF IInv
    <2>2. mb = Here /\ cursor'[mb] = [gen |-> sync.gen, last |-> sync.high]
      BY <2>1, PageCursor
    <2>3. ~SameGeneration /\ sync.pc = "confirmed"
      BY <2>1, <2>2 DEF IInv, ApplyPage, PassStarted, SameGeneration
    <2>4. skipped'[mb] = sync.left
      BY <2>1, <2>2, <2>3 DEF ApplyPage, TypeOK
    <2> QED BY <2>2, <2>3, <2>4 DEF LeavesOlder
  <1>2. Init => LeavesOlder
    BY DEF Init, Idle, LeavesOlder
  <1> QED BY <1>1, <1>2, Invariance, NextLeavesOlder, PTL DEF Spec, BootstrapKeepsNewest

=============================================================================
