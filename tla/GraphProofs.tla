---------------------------- MODULE GraphProofs ----------------------------
(***************************************************************************)
(* Proofs about the two halves of microsoft_graph.rs.  GraphRequest, for   *)
(* any requests, messages, accounts and faults: a message is changed at    *)
(* most once for an action, local rows follow the servers, and an          *)
(* authentication error means that two tokens were refused.  GraphFolders, *)
(* for any tree, any listings and any odd links: a listing that succeeds   *)
(* has all there is, once.  The mutex of a token cache is given back.      *)
(***************************************************************************)
EXTENDS GraphRequest, GraphFolders, FiniteSetTheorems, SequenceTheorems, TLAPS

USE ActionAssumption

Sending == {"token", "goa", "hung", "send"}

\* What remains to be done is what no server has done.
Progress(r) ==
    /\ action[r].pc = "idle" =>
         actionOps[r] = "none" /\ \A m \in ActionMessage : took[r][m] = 0
    /\ action[r].pc \in Sending =>
         /\ actionOps[r] = "pending"
         /\ action[r].todo # <<>>
         /\ IsInjective(action[r].todo)
         /\ \A m \in ActionMessage :
              took[r][m] = IF m \in Range(action[r].todo) THEN 0 ELSE 1
    /\ action[r].pc = "applied" =>
         actionOps[r] = "pending" /\ \A m \in ActionMessage : took[r][m] = 1
    /\ actionOps[r] = "succeeded" => \A m \in ActionMessage : took[r][m] = 1
    /\ \A m \in ActionMessage : took[r][m] \in {0, 1}

LocalRows ==
    \A m \in ActionMessage : changedBy[m] # Nobody => actionOps[changedBy[m]] = "succeeded"

ActIInv == ActionTypeOK /\ (\A r \in ActionRequest : Progress(r)) /\ LocalRows

-----------------------------------------------------------------------------
(* Batches                                                                 *)

\* A batch has every message once.
LEMMA BatchComplete ==
    ASSUME NEW order \in Batch
    PROVE  /\ order \in Seq(ActionMessage) /\ order # <<>>
           /\ IsInjective(order) /\ Range(order) = ActionMessage
  <1> DEFINE n == Cardinality(ActionMessage)
  <1>1. n \in Nat /\ n # 0
    BY FS_CardinalityType, FS_EmptySet
  <1>2. order \in [1..n -> ActionMessage] /\ \A i, j \in DOMAIN order : order[i] = order[j] => i = j
    BY DEF Batch
  <1>3. IsFiniteSet(1..n) /\ Cardinality(1..n) = n
    BY <1>1, FS_Interval
  <1>4. order \in Injection(1..n, ActionMessage)
    BY <1>2 DEF Injection, IsInjective
  <1>5. order \in Surjection(1..n, ActionMessage)
    BY <1>3, <1>4, FS_Injection
  <1> HIDE DEF n
  <1>6. order \in Seq(ActionMessage) /\ Len(order) = n
    BY <1>1, <1>2, IsASeq
  <1>7. Range(order) = ActionMessage
    BY <1>2, <1>5 DEF Surjection, Range
  <1> QED BY <1>1, <1>2, <1>6, <1>7 DEF IsInjective

\* What is left of a batch after its first message.
LEMMA TailLeft ==
    ASSUME NEW s \in Seq(ActionMessage), s # <<>>, IsInjective(s)
    PROVE  /\ Head(s) \in ActionMessage
           /\ Head(s) \in Range(s)
           /\ Len(s) = 1 => Range(s) = {Head(s)}
           /\ Len(s) # 1 => /\ Tail(s) \in Seq(ActionMessage) /\ Tail(s) # <<>>
                           /\ IsInjective(Tail(s))
                           /\ Range(Tail(s)) = Range(s) \ {Head(s)}
  <1>1. /\ Len(s) \in Nat /\ Len(s) >= 1 /\ DOMAIN s = 1..Len(s)
        /\ Head(s) = s[1]
        /\ \A i \in 1..Len(s) : s[i] \in ActionMessage
    BY HeadTailProperties, LenProperties, EmptySeq
  <1>2. Head(s) \in ActionMessage /\ Head(s) \in Range(s)
    <2>1. 1 \in DOMAIN s
      BY <1>1
    <2> QED BY Zenon, <1>1, <2>1 DEF Range
  <1>3. ASSUME Len(s) = 1 PROVE Range(s) = {Head(s)}
    BY <1>1, <1>3 DEF Range
  <1>4. ASSUME Len(s) # 1
        PROVE  /\ Tail(s) \in Seq(ActionMessage) /\ Tail(s) # <<>>
               /\ IsInjective(Tail(s))
               /\ Range(Tail(s)) = Range(s) \ {Head(s)}
    <2>1. /\ Tail(s) \in Seq(ActionMessage) /\ Len(Tail(s)) = Len(s) - 1
          /\ \A i \in 1..(Len(s) - 1) : Tail(s)[i] = s[i + 1]
      BY HeadTailProperties
    <2>2. Tail(s) # <<>> /\ DOMAIN Tail(s) = 1..(Len(s) - 1)
      <3>1. Len(Tail(s)) # 0
        BY <1>1, <1>4, <2>1
      <3>2. DOMAIN Tail(s) = 1..Len(Tail(s))
        BY <2>1, LenProperties
      <3>3. Tail(s) # <<>>
        BY <3>1, EmptySeq
      <3> QED BY <2>1, <3>2, <3>3
    <2>3. IsInjective(Tail(s))
      BY <1>1, <2>1, <2>2 DEF IsInjective
    <2>4. ASSUME NEW m PROVE m \in Range(Tail(s)) <=> m \in Range(s) \ {Head(s)}
      <3>1. ASSUME m \in Range(Tail(s)) PROVE m \in Range(s) \ {Head(s)}
        <4>1. PICK i \in 1..(Len(s) - 1) : m = s[i + 1]
          BY <2>1, <2>2, <3>1 DEF Range
        <4> QED BY <1>1, <4>1 DEF Range, IsInjective
      <3>2. ASSUME m \in Range(s) \ {Head(s)} PROVE m \in Range(Tail(s))
        <4>1. PICK i \in 1..Len(s) : m = s[i] /\ i # 1
          BY <1>1, <3>2 DEF Range
        <4>2. i - 1 \in 1..(Len(s) - 1) /\ Tail(s)[i - 1] = m
          BY <1>1, <2>1, <4>1
        <4> QED BY <2>2, <4>2 DEF Range
      <3> QED BY <3>1, <3>2
    <2>5. Range(Tail(s)) = Range(s) \ {Head(s)}
      BY <2>4
    <2> QED BY <2>1, <2>2, <2>3, <2>5
  <1> QED BY <1>2, <1>3, <1>4

-----------------------------------------------------------------------------
(* Steps                                                                   *)

LEMMA SendingIsActing ==
    ASSUME ActionTypeOK, NEW r \in ActionRequest, action[r].pc \in Sending
    PROVE  action[r] \in Acting
  BY DEF ActionTypeOK, ActionState, Sending

Over == {"idle", "applied", "answered", "failed", "dropped"}

\* A step of one request leaves the others as they are.
Frame(r) ==
    \A q \in ActionRequest \ {r} :
        action'[q] = action[q] /\ actionOps'[q] = actionOps[q] /\ took'[q] = took[q]

LEMMA FrameKeeps ==
    ASSUME ActIInv, NEW r \in ActionRequest, Frame(r), Progress(r)'
    PROVE  \A q \in ActionRequest : Progress(q)'
  <1> SUFFICES ASSUME NEW q \in ActionRequest, q # r PROVE Progress(q)'
    OBVIOUS
  <1>1. Progress(q) /\ action'[q] = action[q] /\ actionOps'[q] = actionOps[q] /\ took'[q] = took[q]
    BY DEF ActIInv, Frame
  <1> QED BY <1>1 DEF Progress

\* A step that settles no operation leaves the local rows right.
LEMMA RowsKept ==
    ASSUME ActIInv, UNCHANGED changedBy,
           \A r \in ActionRequest : actionOps[r] = "succeeded" => actionOps'[r] = "succeeded"
    PROVE  LocalRows'
  BY DEF ActIInv, LocalRows, ActionTypeOK

\* Going on with the same message.
LEMMA SameMessage ==
    ASSUME ActIInv, NEW r \in ActionRequest, action[r].pc \in Sending,
           NEW state \in Acting, state.todo = action[r].todo,
           action' = [action EXCEPT ![r] = state],
           UNCHANGED <<actionOps, took, changedBy>>
    PROVE  /\ action' \in [ActionRequest -> ActionState]
           /\ \A q \in ActionRequest : Progress(q)'
           /\ LocalRows'
  <1>1. action' \in [ActionRequest -> ActionState]
    BY DEF ActIInv, ActionTypeOK, ActionState
  <1>2. action'[r] = state /\ Frame(r)
    BY DEF ActIInv, ActionTypeOK, Frame
  <1>3. state.pc \in Sending
    BY DEF Acting, Sending
  <1>4. Progress(r)'
    BY <1>2, <1>3 DEF ActIInv, Progress, Sending
  <1> QED BY <1>1, <1>2, <1>4, FrameKeeps, RowsKept

\* Giving up: what was done stays done.
LEMMA GivesUp ==
    ASSUME ActIInv, NEW r \in ActionRequest, NEW state \in ActionState,
           actionOps[r] = "pending", state.pc \in {"failed", "dropped", "unauthorized"},
           action' = [action EXCEPT ![r] = state],
           UNCHANGED <<actionOps, took, changedBy>>
    PROVE  /\ action' \in [ActionRequest -> ActionState]
           /\ \A q \in ActionRequest : Progress(q)'
           /\ LocalRows'
  <1>1. action' \in [ActionRequest -> ActionState]
    BY DEF ActIInv, ActionTypeOK
  <1>2. action'[r] = state /\ Frame(r)
    BY DEF ActIInv, ActionTypeOK, Frame
  <1>3. Progress(r)'
    BY <1>2 DEF ActIInv, Progress, Sending
  <1> QED BY <1>1, <1>2, <1>3, FrameKeeps, RowsKept

LEMMA RecordKeeps ==
    ASSUME ActIInv, NEW r \in ActionRequest, RecordAction(r)
    PROVE  ActIInv'
  <1>1. PICK order \in Batch : action' = [action EXCEPT ![r] = ForMessages(order)]
    BY DEF RecordAction
  <1>2. /\ action[r].pc = "idle"
        /\ actionOps' = [actionOps EXCEPT ![r] = "pending"]
        /\ UNCHANGED <<goa, refusedBelow, cached, cacheOwner, took, changedBy, actionFaults>>
    BY DEF RecordAction
  <1>3. ForMessages(order) \in Acting
    BY BatchComplete DEF ForMessages, Acting
  <1>4. ActionTypeOK'
    BY <1>1, <1>2, <1>3 DEF ActIInv, ActionTypeOK, ActionState
  <1>5. actionOps'[r] = "pending" /\ action'[r] = ForMessages(order) /\ Frame(r)
    BY <1>1, <1>2 DEF ActIInv, ActionTypeOK, Frame
  <1>6. /\ action'[r].pc = "token"
        /\ action'[r].todo = order
    BY <1>5 DEF ForMessages
  <1>7. Progress(r)'
    BY <1>2, <1>5, <1>6, BatchComplete DEF ActIInv, Progress, Sending
  <1>8. LocalRows'
    BY <1>2, <1>5, RowsKept DEF ActIInv, Progress, Frame
  <1> QED BY <1>4, <1>5, <1>7, <1>8, FrameKeeps DEF ActIInv

LEMMA TokenKeeps ==
    ASSUME ActIInv, NEW r \in ActionRequest, TakeToken(r) \/ AskGoa(r)
    PROVE  ActIInv'
  <1>1. action[r].pc \in Sending /\ action[r] \in Acting
    <2>1. action[r].pc \in Sending
      BY DEF TakeToken, AskGoa, Sending
    <2> QED BY <2>1, SendingIsActing DEF ActIInv
  <1>2. Account(r) \in GraphAccount
    BY <1>1, TailLeft DEF ActIInv, Progress, Account, Acting
  <1>3. Renewed(Account(r)) \in Nat /\ cached[Account(r)].token \in Nat
    BY <1>2 DEF Renewed, ActIInv, ActionTypeOK
  <1>4. PICK state \in Acting :
          state.todo = action[r].todo /\ action' = [action EXCEPT ![r] = state]
    <2>1. CASE TakeToken(r) /\ UseCached(r)
      <3> DEFINE state == [action[r] EXCEPT !.pc = "send", !.token = cached[Account(r)].token]
      <3>1. state \in Acting /\ state.todo = action[r].todo
        BY <1>1, <1>3 DEF Acting
      <3>2. action' = [action EXCEPT ![r] = state]
        BY <2>1, <1>1 DEF TakeToken, Acting
      <3> QED BY <3>1, <3>2
    <2>2. CASE TakeToken(r) /\ ~UseCached(r)
      <3> DEFINE state == [action[r] EXCEPT !.pc = "goa"]
      <3>1. state \in Acting /\ state.todo = action[r].todo
        BY <1>1 DEF Acting
      <3>2. action' = [action EXCEPT ![r] = state]
        BY <2>2, <1>1 DEF TakeToken, Acting
      <3> QED BY <3>1, <3>2
    <2>3. CASE AskGoa(r)
      <3> DEFINE state == [action[r] EXCEPT !.pc = "send", !.token = Renewed(Account(r))]
      <3>1. state \in Acting /\ state.todo = action[r].todo
        BY <1>1, <1>3 DEF Acting
      <3>2. action' = [action EXCEPT ![r] = state]
        BY <2>3, <1>1 DEF AskGoa, Acting
      <3> QED BY <3>1, <3>2
    <2> QED BY <2>1, <2>2, <2>3
  <1>5. UNCHANGED <<refusedBelow, actionOps, took, changedBy, actionFaults>>
    BY DEF TakeToken, AskGoa
  <1>6. /\ goa' \in [GraphAccount -> [issued : Nat, attention : BOOLEAN]]
        /\ cached' \in [GraphAccount -> [token : Nat, fresh : BOOLEAN]]
        /\ cacheOwner' \in [GraphAccount -> ActionRequest \cup {Nobody}]
    <2>1. CASE TakeToken(r)
      <3>1. /\ goa' = goa /\ cached' = cached
            /\ \/ cacheOwner' = cacheOwner
               \/ cacheOwner' = [cacheOwner EXCEPT ![Account(r)] = r]
        BY <2>1 DEF TakeToken
      <3>2. /\ goa \in [GraphAccount -> [issued : Nat, attention : BOOLEAN]]
            /\ cached \in [GraphAccount -> [token : Nat, fresh : BOOLEAN]]
            /\ cacheOwner \in [GraphAccount -> ActionRequest \cup {Nobody}]
        BY DEF ActIInv, ActionTypeOK
      <3>3. cacheOwner' \in [GraphAccount -> ActionRequest \cup {Nobody}]
        BY <3>1, <3>2
      <3> QED BY Zenon, <3>1, <3>2, <3>3
    <2>2. CASE AskGoa(r)
      <3> DEFINE a == Account(r)
      <3>1. /\ goa' = [goa EXCEPT ![a].issued = Renewed(a)]
            /\ cached' = [cached EXCEPT ![a] = [token |-> Renewed(a), fresh |-> TRUE]]
            /\ cacheOwner' = [cacheOwner EXCEPT ![a] = Nobody]
        BY <2>2 DEF AskGoa
      <3>2. a \in GraphAccount /\ Renewed(a) \in Nat
        BY <1>2, <1>3
      <3> HIDE DEF a
      <3>3. goa' \in [GraphAccount -> [issued : Nat, attention : BOOLEAN]]
        <4>1. goa \in [GraphAccount -> [issued : Nat, attention : BOOLEAN]]
          BY DEF ActIInv, ActionTypeOK
        <4>2. [goa[a] EXCEPT !.issued = Renewed(a)] \in [issued : Nat, attention : BOOLEAN]
          BY <3>2, <4>1
        <4>3. goa' = [goa EXCEPT ![a] = [goa[a] EXCEPT !.issued = Renewed(a)]]
          BY <3>1
        <4> QED BY Zenon, <3>2, <4>1, <4>2, <4>3
      <3>4. cached' \in [GraphAccount -> [token : Nat, fresh : BOOLEAN]]
        BY <3>1, <3>2 DEF ActIInv, ActionTypeOK
      <3>5. cacheOwner' \in [GraphAccount -> ActionRequest \cup {Nobody}]
        BY <3>1, <3>2 DEF ActIInv, ActionTypeOK
      <3> QED BY <3>3, <3>4, <3>5
    <2> QED BY <2>1, <2>2
  <1>7. /\ action' \in [ActionRequest -> ActionState]
        /\ \A q \in ActionRequest : Progress(q)'
        /\ LocalRows'
    BY <1>1, <1>4, <1>5, SameMessage
  <1> QED BY <1>5, <1>6, <1>7 DEF ActIInv, ActionTypeOK

LEMMA GoaFailsKeeps ==
    ASSUME ActIInv, NEW r \in ActionRequest, GoaFails(r)
    PROVE  ActIInv'
  <1>1. /\ action[r].pc = "goa"
        /\ action' = [action EXCEPT ![r] = [pc |-> "failed"]]
        /\ cacheOwner' = [cacheOwner EXCEPT ![Account(r)] = Nobody]
        /\ UNCHANGED <<goa, refusedBelow, cached, actionOps, took, changedBy>>
    BY DEF GoaFails
  <1>2. actionFaults' \in 0..MaxActionFaults
    BY DEF GoaFails, ActionFault, ActIInv, ActionTypeOK
  <1>3. actionOps[r] = "pending"
    BY <1>1 DEF ActIInv, Progress, Sending
  <1>4. [pc |-> "failed"] \in ActionState
    BY DEF ActionState
  <1>5. /\ action' \in [ActionRequest -> ActionState]
        /\ \A q \in ActionRequest : Progress(q)'
        /\ LocalRows'
    BY <1>1, <1>3, <1>4, GivesUp
  <1> QED BY <1>1, <1>2, <1>5 DEF ActIInv, ActionTypeOK

LEMMA GoaSilentKeeps ==
    ASSUME ActIInv, NEW r \in ActionRequest, GoaSilent(r)
    PROVE  ActIInv'
  <1>1. action[r].pc = "goa" /\ action[r].pc \in Sending /\ action[r] \in Acting
    <2>1. action[r].pc = "goa"
      BY DEF GoaSilent
    <2> QED BY <2>1, SendingIsActing DEF ActIInv, Sending
  <1>2. UNCHANGED <<goa, refusedBelow, cached, cacheOwner, actionOps, took, changedBy>>
    BY DEF GoaSilent
  <1>3. actionFaults' \in 0..MaxActionFaults
    BY DEF GoaSilent, ActionFault, ActIInv, ActionTypeOK
  <1> DEFINE state == [action[r] EXCEPT !.pc = "hung"]
  <1>4. state \in Acting /\ state.todo = action[r].todo
    BY <1>1 DEF Acting
  <1>5. action' = [action EXCEPT ![r] = state]
    BY DEF GoaSilent
  <1> HIDE DEF state
  <1>6. /\ action' \in [ActionRequest -> ActionState]
        /\ \A q \in ActionRequest : Progress(q)'
        /\ LocalRows'
    BY <1>1, <1>2, <1>4, <1>5, SameMessage
  <1> QED BY <1>2, <1>3, <1>6 DEF ActIInv, ActionTypeOK

LEMMA ServerKeeps ==
    ASSUME ActIInv, NEW r \in ActionRequest, Answer(r) \/ LoseAnswer(r)
    PROVE  ActIInv'
  <1> DEFINE todo == action[r].todo
             m == Head(todo)
  <1>1. action[r].pc = "send" /\ action[r] \in Acting
    <2>1. action[r].pc = "send"
      BY DEF Answer, LoseAnswer
    <2> QED BY <2>1, SendingIsActing DEF ActIInv, Sending
  <1>2. /\ todo \in Seq(ActionMessage) /\ todo # <<>> /\ IsInjective(todo)
        /\ actionOps[r] = "pending"
        /\ \A x \in ActionMessage : took[r][x] = IF x \in Range(todo) THEN 0 ELSE 1
    BY <1>1 DEF ActIInv, Progress, Acting, Sending
  <1>3. m \in ActionMessage /\ took[r][m] = 0
    BY <1>2, TailLeft
  <1>4. /\ took' \in [ActionRequest -> [ActionMessage -> Nat]]
        /\ \A q \in ActionRequest \ {r} : took'[q] = took[q]
    <2>1. \/ took' = [took EXCEPT ![r] = [took[r] EXCEPT ![m] = took[r][m] + 1]]
          \/ took' = took
      BY DEF Answer, LoseAnswer, Changes
    <2> HIDE DEF m
    <2>2. [took[r] EXCEPT ![m] = took[r][m] + 1] \in [ActionMessage -> Nat]
      BY <1>3 DEF ActIInv, ActionTypeOK
    <2>3. CASE took' = [took EXCEPT ![r] = [took[r] EXCEPT ![m] = took[r][m] + 1]]
      BY <2>2, <2>3 DEF ActIInv, ActionTypeOK
    <2>4. CASE took' = took
      BY <2>4 DEF ActIInv, ActionTypeOK
    <2> QED BY <2>1, <2>3, <2>4
  <1>5. /\ UNCHANGED <<goa, refusedBelow, cached, cacheOwner, actionOps, changedBy>>
        /\ actionFaults' \in 0..MaxActionFaults
    BY DEF Answer, LoseAnswer, ActionFault, ActIInv, ActionTypeOK
  <1>6. CASE Answer(r)
    <2>1. /\ took' = [took EXCEPT ![r][m] = took[r][m] + 1]
          /\ action' = [action EXCEPT ![r] = Done(r)]
      BY <1>6 DEF Answer, Changes
    <2>2. \A x \in ActionMessage : took'[r][x] = IF x = m THEN 1 ELSE took[r][x]
      <3> HIDE DEF m
      <3> QED BY <1>3, <2>1 DEF ActIInv, ActionTypeOK
    <2>3. CASE Len(todo) = 1
      <3>1. Done(r) = [pc |-> "applied"]
        BY <2>3 DEF Done
      <3>2. \A x \in ActionMessage : took'[r][x] = 1
        BY <1>2, <2>2, <2>3, TailLeft
      <3>3. action'[r] = [pc |-> "applied"] /\ Frame(r)
        BY <1>4, <1>5, <2>1, <3>1 DEF ActIInv, ActionTypeOK, Frame
      <3>4. action' \in [ActionRequest -> ActionState]
        BY <2>1, <3>1 DEF ActIInv, ActionTypeOK, ActionState
      <3>5. Progress(r)'
        BY <1>2, <1>5, <3>2, <3>3 DEF Progress, Sending
      <3> QED BY <1>4, <1>5, <3>3, <3>4, <3>5, FrameKeeps, RowsKept DEF ActIInv, ActionTypeOK
    <2>4. CASE Len(todo) # 1
      <3>1. Done(r) = ForMessages(Tail(todo))
        BY <2>4 DEF Done
      <3>2. /\ Tail(todo) \in Seq(ActionMessage) /\ Tail(todo) # <<>>
            /\ IsInjective(Tail(todo))
            /\ Range(Tail(todo)) = Range(todo) \ {m}
        BY <1>2, <2>4, TailLeft
      <3>3. ForMessages(Tail(todo)) \in Acting
        BY <3>2 DEF ForMessages, Acting
      <3>4. action'[r] = ForMessages(Tail(todo)) /\ Frame(r)
        BY <1>4, <1>5, <2>1, <3>1 DEF ActIInv, ActionTypeOK, Frame
      <3>5. action'[r].pc = "token" /\ action'[r].todo = Tail(todo)
        BY <3>4 DEF ForMessages
      <3>6. action' \in [ActionRequest -> ActionState]
        BY <2>1, <3>1, <3>3 DEF ActIInv, ActionTypeOK, ActionState
      <3>7. \A x \in ActionMessage :
              took'[r][x] = IF x \in Range(Tail(todo)) THEN 0 ELSE 1
        BY <1>2, <2>2, <3>2
      <3>8. Progress(r)'
        BY <1>2, <1>5, <3>2, <3>5, <3>7 DEF Progress, Sending
      <3> QED BY <1>4, <1>5, <3>4, <3>6, <3>8, FrameKeeps, RowsKept DEF ActIInv, ActionTypeOK
    <2> QED BY <2>3, <2>4
  <1>7. CASE LoseAnswer(r)
    <2>1. action' = [action EXCEPT ![r] = [pc |-> "failed"]]
      BY <1>7 DEF LoseAnswer, AfterFailure
    <2>2. \A x \in ActionMessage : took'[r][x] \in {0, 1}
      <3>1. \/ took' = [took EXCEPT ![r][m] = took[r][m] + 1]
            \/ took' = took
        BY <1>7 DEF LoseAnswer, Changes
      <3>2. \A x \in ActionMessage : took[r][x] \in {0, 1}
        BY DEF ActIInv, Progress
      <3> HIDE DEF m
      <3> QED BY <1>3, <3>1, <3>2 DEF ActIInv, ActionTypeOK
    <2>3. action'[r] = [pc |-> "failed"] /\ Frame(r)
      BY <1>4, <1>5, <2>1 DEF ActIInv, ActionTypeOK, Frame
    <2>4. action' \in [ActionRequest -> ActionState]
      BY <2>1 DEF ActIInv, ActionTypeOK, ActionState
    <2>5. Progress(r)'
      BY <1>2, <1>5, <2>2, <2>3 DEF Progress, Sending
    <2> QED BY <1>4, <1>5, <2>3, <2>4, <2>5, FrameKeeps, RowsKept DEF ActIInv, ActionTypeOK
  <1> QED BY <1>6, <1>7

LEMMA UnauthorizedKeeps ==
    ASSUME ActIInv, NEW r \in ActionRequest, Unauthorized(r)
    PROVE  ActIInv'
  <1>1. action[r].pc \in Sending /\ action[r] \in Acting /\ actionOps[r] = "pending"
    <2>1. action[r].pc \in Sending
      BY DEF Unauthorized, Sending
    <2> QED BY <2>1, SendingIsActing DEF ActIInv, Progress
  <1>2. /\ action' = [action EXCEPT ![r] = AfterRefusal(r)]
        /\ UNCHANGED <<goa, refusedBelow, cached, cacheOwner, actionOps, took, changedBy,
                       actionFaults>>
    BY DEF Unauthorized
  <1>3. CASE action[r].force
    <2>1. AfterRefusal(r) \in ActionState /\ AfterRefusal(r).pc = "unauthorized"
      BY <1>1, <1>3 DEF AfterRefusal, Acting, ActionState
    <2>2. /\ action' \in [ActionRequest -> ActionState]
          /\ \A q \in ActionRequest : Progress(q)'
          /\ LocalRows'
      BY <1>1, <1>2, <2>1, GivesUp
    <2> QED BY <1>2, <2>2 DEF ActIInv, ActionTypeOK
  <1>4. CASE ~action[r].force
    <2>1. AfterRefusal(r) \in Acting /\ AfterRefusal(r).todo = action[r].todo
      BY <1>1, <1>4 DEF AfterRefusal, Acting
    <2>2. /\ action' \in [ActionRequest -> ActionState]
          /\ \A q \in ActionRequest : Progress(q)'
          /\ LocalRows'
      BY <1>1, <1>2, <2>1, SameMessage
    <2> QED BY <1>2, <2>2 DEF ActIInv, ActionTypeOK
  <1> QED BY <1>3, <1>4

LEMMA FinishKeeps ==
    ASSUME ActIInv, NEW r \in ActionRequest, FinishAction(r)
    PROVE  ActIInv'
  <1>1. /\ action[r].pc \in {"applied", "failed", "unauthorized"}
        /\ actionOps[r] = "pending"
        /\ UNCHANGED <<goa, refusedBelow, cached, cacheOwner, took, actionFaults>>
    BY DEF FinishAction
  <1>2. CASE action[r].pc = "applied"
    <2>1. /\ actionOps' = [actionOps EXCEPT ![r] = "succeeded"]
          /\ changedBy' = [m \in ActionMessage |-> r]
          /\ action' = [action EXCEPT ![r] = [pc |-> "answered"]]
      BY <1>2 DEF FinishAction
    <2>2. /\ action'[r] = [pc |-> "answered"] /\ actionOps'[r] = "succeeded"
          /\ Frame(r)
      BY <1>1, <2>1 DEF ActIInv, ActionTypeOK, Frame
    <2>3. ActionTypeOK'
      BY <1>1, <2>1 DEF ActIInv, ActionTypeOK, ActionState
    <2>4. \A m \in ActionMessage : took[r][m] = 1
      BY <1>2 DEF ActIInv, Progress
    <2>5. Progress(r)'
      BY <1>1, <2>2, <2>4 DEF Progress, Sending
    <2>6. LocalRows'
      BY <2>1, <2>2 DEF LocalRows
    <2> QED BY <2>2, <2>3, <2>5, <2>6, FrameKeeps DEF ActIInv
  <1>3. CASE action[r].pc # "applied"
    <2>1. /\ actionOps' = [actionOps EXCEPT ![r] = "failed"]
          /\ UNCHANGED <<changedBy, action>>
      BY <1>3 DEF FinishAction
    <2>2. actionOps'[r] = "failed" /\ Frame(r)
      BY <1>1, <2>1 DEF ActIInv, ActionTypeOK, Frame
    <2>3. ActionTypeOK'
      BY <1>1, <2>1 DEF ActIInv, ActionTypeOK
    <2>4. Progress(r)'
      BY <1>1, <1>3, <2>1, <2>2 DEF ActIInv, Progress, Sending
    <2>5. LocalRows'
      BY <1>1, <2>1, <2>2, RowsKept DEF Frame
    <2> QED BY <2>2, <2>3, <2>4, <2>5, FrameKeeps DEF ActIInv
  <1> QED BY <1>2, <1>3

LEMMA AbortKeeps ==
    ASSUME ActIInv, NEW r \in ActionRequest, AbortAction(r)
    PROVE  ActIInv'
  <1>1. /\ actionOps[r] = "pending"
        /\ action' = [action EXCEPT ![r] = [pc |-> "dropped"]]
        /\ cacheOwner' =
             [a \in GraphAccount |-> IF cacheOwner[a] = r THEN Nobody ELSE cacheOwner[a]]
        /\ UNCHANGED <<goa, refusedBelow, cached, actionOps, took, changedBy>>
    BY DEF AbortAction, Unfinished
  <1>2. actionFaults' \in 0..MaxActionFaults
    BY DEF AbortAction, ActionFault, ActIInv, ActionTypeOK
  <1>3. cacheOwner' \in [GraphAccount -> ActionRequest \cup {Nobody}]
    BY <1>1 DEF ActIInv, ActionTypeOK
  <1>4. [pc |-> "dropped"] \in ActionState
    BY DEF ActionState
  <1>5. /\ action' \in [ActionRequest -> ActionState]
        /\ \A q \in ActionRequest : Progress(q)'
        /\ LocalRows'
    BY <1>1, <1>4, GivesUp
  <1> QED BY <1>1, <1>2, <1>3, <1>5 DEF ActIInv, ActionTypeOK

LEMMA RestartKeeps ==
    ASSUME ActIInv, RestartDaemon
    PROVE  ActIInv'
  <1>1. /\ action' = [r \in ActionRequest |->
                        IF Unfinished(r) THEN [pc |-> "dropped"] ELSE action[r]]
        /\ cached' = [a \in GraphAccount |-> NoToken]
        /\ cacheOwner' = [a \in GraphAccount |-> Nobody]
        /\ UNCHANGED <<goa, refusedBelow, actionOps, took, changedBy>>
    BY DEF RestartDaemon
  <1>2. actionFaults' \in 0..MaxActionFaults
    BY DEF RestartDaemon, ActionFault, ActIInv, ActionTypeOK
  <1>3. [pc |-> "dropped"] \in ActionState
    BY DEF ActionState
  <1>4. action' \in [ActionRequest -> ActionState]
    BY <1>1, <1>3 DEF ActIInv, ActionTypeOK
  <1>5. ActionTypeOK'
    BY <1>1, <1>2, <1>4 DEF ActIInv, ActionTypeOK, NoToken
  <1>6. ASSUME NEW r \in ActionRequest PROVE Progress(r)'
    <2>1. CASE Unfinished(r)
      <3>1. action'[r] = [pc |-> "dropped"] /\ actionOps'[r] = "pending" /\ took'[r] = took[r]
        BY <1>1, <2>1 DEF Unfinished
      <3> QED BY <3>1 DEF ActIInv, Progress, Sending
    <2>2. CASE ~Unfinished(r)
      <3>1. action'[r] = action[r] /\ actionOps'[r] = actionOps[r] /\ took'[r] = took[r]
        BY <1>1, <2>2
      <3> QED BY <3>1 DEF ActIInv, Progress
    <2> QED BY <2>1, <2>2
  <1>7. LocalRows'
    BY <1>1, RowsKept
  <1> QED BY <1>5, <1>6, <1>7 DEF ActIInv

LEMMA TokensKeep ==
    ASSUME ActIInv, NEW a \in GraphAccount, GrowStale(a) \/ Revoke(a) \/ NeedAttention(a)
    PROVE  ActIInv'
  <1>1. UNCHANGED <<cacheOwner, action, actionOps, took, changedBy>>
    BY DEF GrowStale, Revoke, NeedAttention
  <1>2. cached' \in [GraphAccount -> [token : Nat, fresh : BOOLEAN]]
    <2>1. cached' = cached \/ cached' = [cached EXCEPT ![a].fresh = FALSE]
      BY DEF GrowStale, Revoke, NeedAttention
    <2>2. cached \in [GraphAccount -> [token : Nat, fresh : BOOLEAN]]
      BY DEF ActIInv, ActionTypeOK
    <2>3. CASE cached' = [cached EXCEPT ![a].fresh = FALSE]
      BY <2>2, <2>3
    <2> QED BY <2>1, <2>2, <2>3
  <1>3. goa' \in [GraphAccount -> [issued : Nat, attention : BOOLEAN]]
    <2>1. goa' = goa \/ goa' = [goa EXCEPT ![a].attention = TRUE]
      BY DEF GrowStale, Revoke, NeedAttention
    <2>2. goa \in [GraphAccount -> [issued : Nat, attention : BOOLEAN]]
      BY DEF ActIInv, ActionTypeOK
    <2>3. CASE goa' = [goa EXCEPT ![a].attention = TRUE]
      BY <2>2, <2>3
    <2> QED BY <2>1, <2>2, <2>3
  <1>4. refusedBelow' \in [GraphAccount -> Nat]
    <2>1. \/ refusedBelow' = refusedBelow
          \/ refusedBelow' = [refusedBelow EXCEPT ![a] = goa[a].issued + 1]
      BY DEF GrowStale, Revoke, NeedAttention
    <2> QED BY <2>1 DEF ActIInv, ActionTypeOK
  <1>5. actionFaults' \in 0..MaxActionFaults
    BY DEF GrowStale, Revoke, NeedAttention, ActionFault, ActIInv, ActionTypeOK
  <1>6. ActionTypeOK'
    BY <1>1, <1>2, <1>3, <1>4, <1>5 DEF ActIInv, ActionTypeOK
  <1> QED BY <1>1, <1>6 DEF ActIInv, Progress, LocalRows

LEMMA ActIInvInit == ActionInit => ActIInv
  <1> SUFFICES ASSUME ActionInit PROVE ActIInv
    OBVIOUS
  <1>1. [pc |-> "idle"] \in ActionState
    BY DEF ActionState
  <1>2. ActionTypeOK
    BY <1>1 DEF ActionInit, ActionTypeOK, NoToken
  <1>3. \A r \in ActionRequest : Progress(r)
    BY DEF ActionInit, Progress, Sending
  <1>4. LocalRows
    BY DEF ActionInit, LocalRows
  <1> QED BY <1>2, <1>3, <1>4 DEF ActIInv

LEMMA ActIInvNext == ActIInv /\ [ActionNext]_actionVars => ActIInv'
  <1> SUFFICES ASSUME ActIInv, [ActionNext]_actionVars PROVE ActIInv'
    OBVIOUS
  <1>1. CASE UNCHANGED actionVars
    BY <1>1 DEF actionVars, ActIInv, ActionTypeOK, Progress, LocalRows
  <1>2. CASE ActionNext
    BY <1>2, RecordKeeps, TokenKeeps, GoaFailsKeeps, GoaSilentKeeps, ServerKeeps,
       UnauthorizedKeeps, FinishKeeps, AbortKeeps, RestartKeeps, TokensKeep DEF ActionNext, ActionStep
  <1> QED BY <1>1, <1>2

\* Every reachable state of the message actions has the declared types, whatever
\* the accounts, the requests, the faults and the restarts.
THEOREM ActionTypeCorrect == ActionSpec => []ActionTypeOK
  <1>1. ActIInv => ActionTypeOK
    BY DEF ActIInv
  <1> QED BY <1>1, ActIInvInit, ActIInvNext, PTL DEF ActionSpec

\* No message is changed twice for one action, and the local rows and the
\* operations follow what the servers did.
THEOREM ActionLocalFollowsServer == ActionSpec => []LocalFollowsServer
  <1>1. ActIInv => LocalFollowsServer
    BY DEF ActIInv, Progress, LocalRows, LocalFollowsServer
  <1> QED BY <1>1, ActIInvInit, ActIInvNext, PTL DEF ActionSpec

-----------------------------------------------------------------------------
(* Two tokens were refused                                                 *)

\* A token forced after a refusal is newer than the refused one: from the refusal
\* on, the server takes only newer ones, and a forced request gets one it takes.
Ordered(state, below) ==
    /\ state.pc \in Sending /\ state.force => state.refused < below[AccountOf[Head(state.todo)]]
    /\ state.pc = "send" /\ state.force => state.refused < state.token
    /\ state.pc = "unauthorized" => state.refused < state.token

TokenOrder == \A r \in ActionRequest : Ordered(action[r], refusedBelow)

LEMMA OrderedAtRest ==
    ASSUME NEW state, NEW below,
           state.pc \in Over \/ (state.pc \in Sending /\ ~state.force)
    PROVE  Ordered(state, below)
  BY DEF Ordered, Over, Sending

\* The oldest token a server takes only grows.
LEMMA OrderedBelow ==
    ASSUME ActIInv, NEW r \in ActionRequest, Ordered(action[r], refusedBelow),
           NEW below \in [GraphAccount -> Nat],
           \A a \in GraphAccount : below[a] >= refusedBelow[a]
    PROVE  Ordered(action[r], below)
  <1>1. CASE action[r].pc \in Sending
    <2>1. action[r] \in Acting
      BY <1>1, SendingIsActing DEF ActIInv
    <2>2. AccountOf[Head(action[r].todo)] \in GraphAccount /\ action[r].refused \in Nat
      BY <1>1, <2>1, TailLeft DEF ActIInv, Progress, Acting
    <2>3. /\ refusedBelow[AccountOf[Head(action[r].todo)]] \in Nat
          /\ below[AccountOf[Head(action[r].todo)]] \in Nat
          /\ below[AccountOf[Head(action[r].todo)]]
               >= refusedBelow[AccountOf[Head(action[r].todo)]]
      BY <2>2 DEF ActIInv, ActionTypeOK
    <2> QED BY <1>1, <2>2, <2>3 DEF Ordered, Sending
  <1>2. CASE action[r].pc \notin Sending
    BY <1>2 DEF Ordered, Sending
  <1> QED BY <1>1, <1>2

LEMMA OrderStep ==
    ASSUME ActIInv, TokenOrder, NEW r \in ActionRequest, NEW state,
           action' = [action EXCEPT ![r] = state], UNCHANGED refusedBelow,
           Ordered(state, refusedBelow)
    PROVE  TokenOrder'
  BY DEF ActIInv, ActionTypeOK, TokenOrder

LEMMA TokenOrdered ==
    ASSUME ActIInv, TokenOrder, NEW r \in ActionRequest, TakeToken(r) \/ AskGoa(r)
    PROVE  TokenOrder'
  <1>1. action[r].pc \in {"token", "goa"} /\ action[r].pc \in Sending /\ action[r] \in Acting
    <2>1. action[r].pc \in {"token", "goa"}
      BY DEF TakeToken, AskGoa
    <2> QED BY <2>1, SendingIsActing DEF ActIInv, Sending
  <1>2. Account(r) \in GraphAccount
    BY <1>1, TailLeft DEF ActIInv, Progress, Account, Acting
  <1>3. Ordered(action[r], refusedBelow) /\ UNCHANGED refusedBelow
    BY DEF TokenOrder, TakeToken, AskGoa
  <1>4. action[r].force => action[r].refused < refusedBelow[Account(r)]
    BY <1>1, <1>3 DEF Ordered, Account
  <1>5. CASE TakeToken(r) /\ UseCached(r)
    <2> DEFINE state == [action[r] EXCEPT !.pc = "send", !.token = cached[Account(r)].token]
    <2>1. action' = [action EXCEPT ![r] = state]
      BY <1>1, <1>5 DEF TakeToken, Acting
    <2>2. state.pc = "send" /\ ~state.force
      BY <1>1, <1>5 DEF UseCached, Acting
    <2> HIDE DEF state
    <2>3. Ordered(state, refusedBelow)
      BY <2>2, OrderedAtRest DEF Sending
    <2> QED BY <1>3, <2>1, <2>3, OrderStep
  <1>6. CASE TakeToken(r) /\ ~UseCached(r)
    <2> DEFINE state == [action[r] EXCEPT !.pc = "goa"]
    <2>1. action' = [action EXCEPT ![r] = state]
      BY <1>1, <1>6 DEF TakeToken, Acting
    <2>2. /\ state.pc = "goa" /\ state.force = action[r].force
          /\ state.refused = action[r].refused /\ state.todo = action[r].todo
      BY <1>1 DEF Acting
    <2> HIDE DEF state
    <2>3. Ordered(state, refusedBelow)
      BY <1>4, <2>2 DEF Ordered, Sending, Account
    <2> QED BY <1>3, <2>1, <2>3, OrderStep
  <1>7. CASE AskGoa(r)
    <2> DEFINE state == [action[r] EXCEPT !.pc = "send", !.token = Renewed(Account(r))]
    <2>1. action' = [action EXCEPT ![r] = state]
      BY <1>1, <1>7 DEF AskGoa, Acting
    <2>2. /\ state.pc = "send" /\ state.force = action[r].force
          /\ state.refused = action[r].refused /\ state.todo = action[r].todo
          /\ state.token = Renewed(Account(r))
      BY <1>1 DEF Acting
    <2>3. /\ Renewed(Account(r)) >= refusedBelow[Account(r)]
          /\ Renewed(Account(r)) \in Nat /\ refusedBelow[Account(r)] \in Nat
          /\ action[r].refused \in Nat
      BY <1>1, <1>2 DEF Renewed, ActIInv, ActionTypeOK, Acting
    <2> HIDE DEF state
    <2>4. state.force => state.refused < state.token
      BY <1>4, <2>2, <2>3
    <2>5. Ordered(state, refusedBelow)
      BY <1>4, <2>2, <2>4 DEF Ordered, Account
    <2> QED BY <1>3, <2>1, <2>5, OrderStep
  <1> QED BY <1>5, <1>6, <1>7

LEMMA SilenceOrdered ==
    ASSUME ActIInv, TokenOrder, NEW r \in ActionRequest, GoaSilent(r)
    PROVE  TokenOrder'
  <1>1. action[r].pc = "goa" /\ action[r].pc \in Sending /\ action[r] \in Acting
    <2>1. action[r].pc = "goa"
      BY DEF GoaSilent
    <2> QED BY <2>1, SendingIsActing DEF ActIInv, Sending
  <1>2. Ordered(action[r], refusedBelow) /\ UNCHANGED refusedBelow
    BY DEF TokenOrder, GoaSilent
  <1> DEFINE state == [action[r] EXCEPT !.pc = "hung"]
  <1>3. /\ state.pc = "hung" /\ state.force = action[r].force
        /\ state.refused = action[r].refused /\ state.todo = action[r].todo
    BY <1>1 DEF Acting
  <1>4. action' = [action EXCEPT ![r] = state]
    BY DEF GoaSilent
  <1> HIDE DEF state
  <1>5. Ordered(state, refusedBelow)
    BY <1>1, <1>2, <1>3 DEF Ordered, Sending
  <1> QED BY <1>2, <1>4, <1>5, OrderStep

LEMMA RefusalOrdered ==
    ASSUME ActIInv, TokenOrder, NEW r \in ActionRequest, Unauthorized(r)
    PROVE  TokenOrder'
  <1>1. action[r].pc = "send" /\ action[r].pc \in Sending /\ action[r] \in Acting
    <2>1. action[r].pc = "send"
      BY DEF Unauthorized
    <2> QED BY <2>1, SendingIsActing DEF ActIInv, Sending
  <1>2. Account(r) \in GraphAccount
    BY <1>1, TailLeft DEF ActIInv, Progress, Account, Acting
  <1>3. /\ action' = [action EXCEPT ![r] = AfterRefusal(r)]
        /\ UNCHANGED refusedBelow
        /\ Ordered(action[r], refusedBelow)
    BY DEF Unauthorized, TokenOrder
  <1>4. action[r].token < refusedBelow[Account(r)]
    <2>1. action[r].token \in Nat /\ refusedBelow[Account(r)] \in Nat
      BY <1>1, <1>2 DEF ActIInv, ActionTypeOK, Acting
    <2> QED BY <2>1 DEF Unauthorized, Accepted
  <1>5. CASE action[r].force
    <2>1. /\ AfterRefusal(r).pc = "unauthorized"
          /\ AfterRefusal(r).refused = action[r].refused
          /\ AfterRefusal(r).token = action[r].token
      BY <1>5 DEF AfterRefusal
    <2>2. action[r].refused < action[r].token
      BY <1>1, <1>3, <1>5 DEF Ordered
    <2>3. Ordered(AfterRefusal(r), refusedBelow)
      BY <2>1, <2>2 DEF Ordered, Sending
    <2> QED BY <1>3, <2>3, OrderStep
  <1>6. CASE ~action[r].force
    <2>1. /\ AfterRefusal(r).pc = "token"
          /\ AfterRefusal(r).refused = action[r].token
          /\ AfterRefusal(r).todo = action[r].todo
      BY <1>1, <1>6 DEF AfterRefusal, Acting
    <2>2. Ordered(AfterRefusal(r), refusedBelow)
      BY <1>4, <2>1 DEF Ordered, Account
    <2> QED BY <1>3, <2>2, OrderStep
  <1> QED BY <1>5, <1>6

LEMMA OthersOrdered ==
    ASSUME ActIInv, TokenOrder, NEW r \in ActionRequest,
           \/ RecordAction(r) \/ GoaFails(r) \/ Answer(r) \/ LoseAnswer(r)
           \/ FinishAction(r) \/ AbortAction(r)
    PROVE  TokenOrder'
  <1>1. UNCHANGED refusedBelow
    BY DEF RecordAction, GoaFails, Answer, LoseAnswer, FinishAction, AbortAction
  <1>2. CASE UNCHANGED action
    BY <1>1, <1>2 DEF TokenOrder
  <1>3. ASSUME NEW state, action' = [action EXCEPT ![r] = state],
               state.pc \in Over \/ (state.pc \in Sending /\ ~state.force)
        PROVE  TokenOrder'
    BY <1>1, <1>3, OrderedAtRest, OrderStep
  <1>4. CASE RecordAction(r)
    <2>1. PICK order \in Batch : action' = [action EXCEPT ![r] = ForMessages(order)]
      BY <1>4 DEF RecordAction
    <2>2. ForMessages(order).pc = "token" /\ ~ForMessages(order).force
      BY DEF ForMessages
    <2> QED BY <1>3, <2>1, <2>2 DEF Sending
  <1>5. CASE Answer(r)
    <2>1. action' = [action EXCEPT ![r] = Done(r)]
      BY <1>5 DEF Answer
    <2>2. Done(r).pc = "applied" \/ (Done(r).pc = "token" /\ ~Done(r).force)
      BY DEF Done, ForMessages
    <2> QED BY <1>3, <2>1, <2>2 DEF Over, Sending
  <1>6. CASE GoaFails(r) \/ LoseAnswer(r) \/ AbortAction(r) \/ FinishAction(r)
    <2>1. \/ UNCHANGED action
          \/ action' = [action EXCEPT ![r] = [pc |-> "failed"]]
          \/ action' = [action EXCEPT ![r] = [pc |-> "dropped"]]
          \/ action' = [action EXCEPT ![r] = [pc |-> "answered"]]
      BY <1>6 DEF GoaFails, LoseAnswer, AfterFailure, AbortAction, FinishAction
    <2> QED BY <1>2, <1>3, <2>1 DEF Over
  <1> QED BY <1>4, <1>5, <1>6

LEMMA RestartOrdered ==
    ASSUME ActIInv, TokenOrder, RestartDaemon
    PROVE  TokenOrder'
  <1>1. /\ action' = [r \in ActionRequest |->
                        IF Unfinished(r) THEN [pc |-> "dropped"] ELSE action[r]]
        /\ UNCHANGED refusedBelow
    BY DEF RestartDaemon
  <1> SUFFICES ASSUME NEW r \in ActionRequest PROVE Ordered(action'[r], refusedBelow)
    BY <1>1 DEF TokenOrder
  <1>2. Ordered([pc |-> "dropped"], refusedBelow)
    BY OrderedAtRest DEF Over
  <1> QED BY <1>1, <1>2 DEF TokenOrder

LEMMA TokensOrdered ==
    ASSUME ActIInv, ActIInv', TokenOrder,
           NEW a \in GraphAccount, GrowStale(a) \/ Revoke(a) \/ NeedAttention(a)
    PROVE  TokenOrder'
  <1>1. UNCHANGED action
    BY DEF GrowStale, Revoke, NeedAttention
  <1>2. refusedBelow' \in [GraphAccount -> Nat]
    BY DEF ActIInv, ActionTypeOK
  <1>3. \A b \in GraphAccount : refusedBelow'[b] >= refusedBelow[b]
    <2>1. CASE Revoke(a)
      BY <2>1 DEF Revoke, ActIInv, ActionTypeOK
    <2>2. CASE UNCHANGED refusedBelow
      BY <2>2 DEF ActIInv, ActionTypeOK
    <2> QED BY <2>1, <2>2 DEF GrowStale, NeedAttention
  <1> SUFFICES ASSUME NEW r \in ActionRequest PROVE Ordered(action[r], refusedBelow')
    BY <1>1 DEF TokenOrder
  <1>4. Ordered(action[r], refusedBelow)
    BY DEF TokenOrder
  <1> QED BY <1>2, <1>3, <1>4, OrderedBelow

LEMMA TokenOrderInit == ActionInit => TokenOrder
  <1> SUFFICES ASSUME ActionInit, NEW r \in ActionRequest PROVE Ordered(action[r], refusedBelow)
    BY DEF TokenOrder
  <1>1. action[r].pc = "idle"
    BY DEF ActionInit
  <1> QED BY <1>1, OrderedAtRest DEF Over

LEMMA TokenOrderNext ==
    ActIInv /\ ActIInv' /\ TokenOrder /\ [ActionNext]_actionVars => TokenOrder'
  <1> SUFFICES ASSUME ActIInv, ActIInv', TokenOrder, [ActionNext]_actionVars
               PROVE  TokenOrder'
    OBVIOUS
  <1>1. CASE UNCHANGED actionVars
    BY <1>1 DEF actionVars, TokenOrder
  <1>2. CASE ActionNext
    BY <1>2, TokenOrdered, SilenceOrdered, RefusalOrdered, OthersOrdered, RestartOrdered, TokensOrdered
       DEF ActionNext, ActionStep
  <1> QED BY <1>1, <1>2

\* An action that fails for its authorization was refused two tokens, the second
\* newer than the first, whoever renews the cache in between.
THEOREM ActionRefusedTwice == ActionSpec => []RefusedTwice
  <1>1. TokenOrder => RefusedTwice
    BY DEF TokenOrder, Ordered, RefusedTwice
  <1> QED BY <1>1, ActIInvInit, ActIInvNext, TokenOrderInit, TokenOrderNext, PTL
          DEF ActionSpec

-----------------------------------------------------------------------------
(* The token cache's mutex                                                 *)

\* A request that asks GOA, also where no deadline ends the wait.
Asking == {"goa", "hung"}

\* The mutex of an account's token cache is held exactly as long as one request
\* asks GOA for a token of that account.
TokenLock ==
    \A r \in ActionRequest, a \in GraphAccount :
        cacheOwner[a] = r <=> action[r].pc \in Asking /\ Account(r) = a

\* So it is never held by a request that has gone on, failed or was dropped.
TokenLockUsed ==
    \A a \in GraphAccount : cacheOwner[a] # Nobody =>
        \E r \in ActionRequest : cacheOwner[a] = r /\ action[r].pc \in Asking /\ Account(r) = a

\* One request at a time renews the token of an account; the others wait for it.
OneRenewal ==
    \A r, q \in ActionRequest :
        action[r].pc \in Asking /\ action[q].pc \in Asking /\ Account(r) = Account(q) => r = q

LEMMA AccountTyped ==
    ASSUME ActIInv, NEW r \in ActionRequest, action[r].pc \in Sending
    PROVE  Account(r) \in GraphAccount
  <1>1. action[r] \in Acting
    BY SendingIsActing DEF ActIInv
  <1>2. action[r].todo \in Seq(ActionMessage) /\ action[r].todo # <<>>
    BY <1>1 DEF ActIInv, Progress, Acting
  <1>3. Head(action[r].todo) \in ActionMessage
    BY <1>2
  <1> QED BY <1>3 DEF Account

\* A request that is not asking GOA before or after its step.
LEMMA LockBeside ==
    ASSUME ActIInv, TokenLock, NEW r \in ActionRequest,
           \A q \in ActionRequest : q # r => action'[q] = action[q],
           action[r].pc \notin Asking, action'[r].pc \notin Asking, cacheOwner' = cacheOwner
    PROVE  TokenLock'
  BY DEF TokenLock, Account

\* A request that lets go of what it holds.
LEMMA LockDropped ==
    ASSUME ActIInv, TokenLock, NEW r \in ActionRequest,
           \A q \in ActionRequest : q # r => action'[q] = action[q],
           action'[r].pc \notin Asking,
           \A a \in GraphAccount : cacheOwner'[a] = IF cacheOwner[a] = r THEN Nobody ELSE cacheOwner[a]
    PROVE  TokenLock'
  <1> SUFFICES ASSUME NEW q \in ActionRequest, NEW a \in GraphAccount
               PROVE  cacheOwner'[a] = q <=> action'[q].pc \in Asking /\ Account(q)' = a
    BY DEF TokenLock
  <1>1. CASE q = r
    BY <1>1
  <1>2. CASE q # r
    <2>1. action'[q] = action[q] /\ (cacheOwner'[a] = q <=> cacheOwner[a] = q)
      BY <1>2
    <2>2. Account(q)' = Account(q)
      BY <2>1 DEF Account
    <2> QED BY <2>1, <2>2 DEF TokenLock
  <1> QED BY <1>1, <1>2

LEMMA TokenLockNext == ActIInv /\ TokenLock /\ [ActionNext]_actionVars => TokenLock'
  <1> SUFFICES ASSUME ActIInv, TokenLock, [ActionNext]_actionVars
               PROVE  TokenLock'
    OBVIOUS
  <1>0. /\ action = [q \in ActionRequest |-> action[q]]
        /\ cacheOwner \in [GraphAccount -> ActionRequest \cup {Nobody}]
        /\ \A q \in ActionRequest : action[q].pc \in Sending => action[q] \in Acting
    BY SendingIsActing DEF ActIInv, ActionTypeOK
  <1>1. ASSUME NEW r \in ActionRequest, NEW t, action' = [action EXCEPT ![r] = t]
        PROVE  action'[r] = t /\ \A q \in ActionRequest : q # r => action'[q] = action[q]
    BY <1>0, <1>1
  <1>2. ASSUME UNCHANGED <<action, cacheOwner>>
        PROVE  TokenLock'
    BY <1>2 DEF TokenLock, Account
  <1>3. ASSUME NEW r \in ActionRequest, RecordAction(r)
        PROVE  TokenLock'
    <2>1. PICK order \in Batch : action' = [action EXCEPT ![r] = ForMessages(order)]
      BY <1>3 DEF RecordAction
    <2>2. ForMessages(order).pc = "token" /\ action[r].pc = "idle" /\ cacheOwner' = cacheOwner
      BY <1>3 DEF ForMessages, RecordAction
    <2> QED BY <1>1, <2>1, <2>2, LockBeside DEF Asking
  <1>4. ASSUME NEW r \in ActionRequest, FinishAction(r)
        PROVE  TokenLock'
    <2>1. CASE action' = [action EXCEPT ![r] = [pc |-> "answered"]]
      <3>1. action[r].pc \notin Asking /\ cacheOwner' = cacheOwner
        BY <1>4 DEF Asking, FinishAction
      <3> QED BY <1>1, <2>1, <3>1, LockBeside DEF Asking
    <2> QED BY <1>2, <1>4, <2>1 DEF FinishAction
  <1>5. ASSUME NEW r \in ActionRequest, TakeToken(r)
        PROVE  TokenLock'
    <2>1. action[r].pc = "token" /\ cacheOwner[Account(r)] = Nobody /\ action[r] \in Acting
      BY <1>0, <1>5 DEF TakeToken, Sending
    <2>2. CASE /\ action' = [action EXCEPT ![r].pc = "send", ![r].token = cached[Account(r)].token]
               /\ cacheOwner' = cacheOwner
      <3>1. action'[r] = [action[r] EXCEPT !.pc = "send", !.token = cached[Account(r)].token]
        BY <1>0, <2>2
      <3>2. action'[r].pc = "send" /\ \A q \in ActionRequest : q # r => action'[q] = action[q]
        BY <1>0, <2>1, <2>2, <3>1 DEF Acting
      <3> QED BY <2>1, <2>2, <3>2, LockBeside DEF Asking
    <2>3. CASE /\ cacheOwner' = [cacheOwner EXCEPT ![Account(r)] = r]
               /\ action' = [action EXCEPT ![r].pc = "goa"]
      <3>1. action'[r] = [action[r] EXCEPT !.pc = "goa"]
        BY <1>0, <2>3
      <3>2. /\ action'[r].pc = "goa" /\ action'[r].todo = action[r].todo
            /\ \A q \in ActionRequest : q # r => action'[q] = action[q]
        BY <1>0, <2>1, <2>3, <3>1 DEF Acting
      <3>3. Account(r)' = Account(r) /\ \A q \in ActionRequest : q # r => Account(q)' = Account(q)
        BY <3>2 DEF Account
      <3>4. Account(r) \in GraphAccount
        BY <2>1, AccountTyped DEF Sending
      <3>5. \A a \in GraphAccount : cacheOwner'[a] = IF a = Account(r) THEN r ELSE cacheOwner[a]
        BY <1>0, <2>3, <3>4
      <3>6. ASSUME NEW q \in ActionRequest, NEW a \in GraphAccount
            PROVE  cacheOwner'[a] = q <=> action'[q].pc \in Asking /\ Account(q)' = a
        <4>1. CASE q = r
          <5>1. cacheOwner[a] # r
            BY <2>1 DEF TokenLock, Asking
          <5> QED BY <3>2, <3>3, <3>5, <4>1, <5>1 DEF Asking
        <4>2. CASE q # r
          <5>1. cacheOwner[a] = q <=> action[q].pc \in Asking /\ Account(q) = a
            BY DEF TokenLock
          <5>2. a = Account(r) => cacheOwner[a] # q
            BY <2>1, ActionAssumption
          <5> QED BY <3>2, <3>3, <3>5, <4>2, <5>1, <5>2
        <4> QED BY <4>1, <4>2
      <3> QED BY <3>6 DEF TokenLock
    <2> QED BY <1>5, <2>2, <2>3 DEF TakeToken
  <1>6. ASSUME NEW r \in ActionRequest, AskGoa(r) \/ GoaFails(r)
        PROVE  TokenLock'
    <2>1. action[r].pc = "goa" /\ cacheOwner' = [cacheOwner EXCEPT ![Account(r)] = Nobody]
          /\ action[r] \in Acting
      BY <1>0, <1>6 DEF AskGoa, GoaFails, Sending
    <2>2. Account(r) \in GraphAccount
      BY <2>1, AccountTyped DEF Sending
    <2>3. \A a \in GraphAccount :
            cacheOwner'[a] = IF cacheOwner[a] = r THEN Nobody ELSE cacheOwner[a]
      BY <1>0, <2>1, <2>2 DEF TokenLock, Asking
    <2>4. action'[r].pc \notin Asking /\ \A q \in ActionRequest : q # r => action'[q] = action[q]
      <3>1. CASE action' = [action EXCEPT ![r].pc = "send", ![r].token = Renewed(Account(r))]
        <4>1. action'[r] = [action[r] EXCEPT !.pc = "send", !.token = Renewed(Account(r))]
          BY <1>0, <3>1
        <4> QED BY <1>0, <2>1, <3>1, <4>1 DEF Acting, Asking
      <3>2. CASE action' = [action EXCEPT ![r] = [pc |-> "failed"]]
        <4>1. /\ action'[r] = [pc |-> "failed"]
              /\ \A q \in ActionRequest : q # r => action'[q] = action[q]
          BY <1>0, <3>2
        <4> QED BY <4>1 DEF Asking
      <3> QED BY <1>6, <3>1, <3>2 DEF AskGoa, GoaFails
    <2> QED BY <2>3, <2>4, LockDropped
  <1>7. ASSUME NEW r \in ActionRequest, Answer(r) \/ Unauthorized(r) \/ LoseAnswer(r)
        PROVE  TokenLock'
    <2>1. action[r].pc = "send" /\ cacheOwner' = cacheOwner /\ action[r] \in Acting
      BY <1>0, <1>7 DEF Answer, Unauthorized, LoseAnswer, Sending
    <2>2. \E t \in {Done(r), AfterRefusal(r), AfterFailure(r)} : action' = [action EXCEPT ![r] = t]
      BY <1>7 DEF Answer, Unauthorized, LoseAnswer
    <2>3. PICK t \in {Done(r), AfterRefusal(r), AfterFailure(r)} : action' = [action EXCEPT ![r] = t]
      BY <2>2
    <2>4. Done(r).pc \notin Asking
      BY DEF Done, ForMessages, Asking
    <2>5. AfterRefusal(r).pc \notin Asking
      BY <2>1 DEF AfterRefusal, Acting, Asking
    <2>6. AfterFailure(r).pc \notin Asking
      BY DEF AfterFailure, Asking
    <2>7. action'[r] = t /\ \A q \in ActionRequest : q # r => action'[q] = action[q]
      BY <1>0, <2>3
    <2>8. t.pc \notin Asking
      BY <2>3, <2>4, <2>5, <2>6
    <2>9. action'[r].pc \notin Asking
      BY <2>7, <2>8
    <2> QED BY <2>1, <2>7, <2>9, LockBeside DEF Asking
  <1>8. ASSUME NEW r \in ActionRequest, AbortAction(r)
        PROVE  TokenLock'
    <2>1. /\ action'[r] = [pc |-> "dropped"]
          /\ \A q \in ActionRequest : q # r => action'[q] = action[q]
      BY <1>0, <1>8 DEF AbortAction
    <2>2. \A a \in GraphAccount :
            cacheOwner'[a] = IF cacheOwner[a] = r THEN Nobody ELSE cacheOwner[a]
      BY <1>8 DEF AbortAction
    <2>3. action'[r].pc \notin Asking
      BY <2>1 DEF Asking
    <2> QED BY <2>1, <2>2, <2>3, LockDropped
  <1>9. CASE RestartDaemon
    <2>1. /\ \A a \in GraphAccount : cacheOwner'[a] = Nobody
          /\ \A q \in ActionRequest : action'[q].pc \notin Asking
      <3>1. \A q \in ActionRequest : action[q].pc \in Asking => Unfinished(q)
        BY DEF ActIInv, Progress, Sending, Unfinished, Asking
      <3> QED BY <1>9, <3>1 DEF RestartDaemon, Asking
    <2> QED BY <2>1, ActionAssumption DEF TokenLock
  <1>10. ASSUME NEW a \in GraphAccount, GrowStale(a) \/ Revoke(a) \/ NeedAttention(a)
         PROVE  TokenLock'
    BY <1>2, <1>10 DEF GrowStale, Revoke, NeedAttention
  <1>11. CASE UNCHANGED actionVars
    BY <1>2, <1>11 DEF actionVars
  <1>12. ASSUME NEW r \in ActionRequest, GoaSilent(r)
         PROVE  TokenLock'
    <2>1. action[r].pc = "goa" /\ cacheOwner' = cacheOwner /\ action[r] \in Acting
      BY <1>0, <1>12 DEF GoaSilent, Sending
    <2>2. /\ action'[r] = [action[r] EXCEPT !.pc = "hung"]
          /\ \A q \in ActionRequest : q # r => action'[q] = action[q]
      BY <1>0, <1>12 DEF GoaSilent
    <2>3. action'[r].pc = "hung" /\ action'[r].todo = action[r].todo
      BY <2>1, <2>2 DEF Acting
    <2>4. \A q \in ActionRequest :
            Account(q)' = Account(q) /\ (action'[q].pc \in Asking <=> action[q].pc \in Asking)
      BY <2>1, <2>2, <2>3 DEF Account, Asking
    <2> QED BY <2>1, <2>4 DEF TokenLock
  <1> QED
    BY <1>3, <1>4, <1>5, <1>6, <1>7, <1>8, <1>9, <1>10, <1>11, <1>12 DEF ActionNext, ActionStep

\* The token cache is never left locked by a request that is over
\* (GoaTokenSource.access_token keeps its mutex over the calls to GOA): whoever has it
\* is asking GOA for a token of the account, whatever fails, disconnects or restarts;
\* and one request at a time asks.  Where GOA never answers and no deadline is, it
\* asks until its client leaves or the daemon restarts.
THEOREM TokenLockComesBack == ActionSpec => [](TokenLockUsed /\ OneRenewal)
  <1>1. ActionInit => TokenLock
    BY ActionAssumption DEF ActionInit, TokenLock, Asking
  <1>2. ActIInv /\ TokenLock => TokenLockUsed /\ OneRenewal
    <2> SUFFICES ASSUME ActIInv, TokenLock
                 PROVE  TokenLockUsed /\ OneRenewal
      OBVIOUS
    <2>1. TokenLockUsed
      <3>1. cacheOwner \in [GraphAccount -> ActionRequest \cup {Nobody}]
        BY DEF ActIInv, ActionTypeOK
      <3> QED BY <3>1 DEF TokenLock, TokenLockUsed
    <2>2. OneRenewal
      <3> SUFFICES ASSUME NEW r \in ActionRequest, NEW q \in ActionRequest,
                          action[r].pc \in Asking, action[q].pc \in Asking,
                          Account(r) = Account(q)
                   PROVE  r = q
        BY DEF OneRenewal
      <3>1. Account(r) \in GraphAccount
        BY AccountTyped DEF Sending, Asking
      <3>2. cacheOwner[Account(r)] = r /\ cacheOwner[Account(r)] = q
        BY <3>1 DEF TokenLock
      <3> QED BY <3>2
    <2> QED BY <2>1, <2>2
  <1> QED BY <1>1, <1>2, ActIInvInit, ActIInvNext, TokenLockNext, PTL DEF ActionSpec

-----------------------------------------------------------------------------
(* The tree and the pages of its collections                               *)

HIDE ActionAssumption
USE FolderAssumption

LEMMA RankOrders ==
    /\ Rank \in [GraphFolder -> 1..Cardinality(GraphFolder)]
    /\ IsInjective(Rank)
  <1> DEFINE n == Cardinality(GraphFolder)
  <1>1. PICK b \in Bijection(1..n, GraphFolder) : TRUE
    BY FS_CardinalityType DEF ExistsBijection
  <1> DEFINE rank == [f \in GraphFolder |-> CHOOSE i \in 1..n : b[i] = f]
  <1>2. \A f \in GraphFolder : rank[f] \in 1..n /\ b[rank[f]] = f
    BY <1>1 DEF Bijection, Surjection
  <1>3. rank \in [GraphFolder -> 1..n] /\ IsInjective(rank)
    BY <1>2 DEF IsInjective
  <1> QED BY <1>3 DEF Rank

LEMMA ChildrenFinite ==
    ASSUME NEW of
    PROVE  /\ Children(of) \subseteq GraphFolder
           /\ IsFiniteSet(Children(of))
           /\ Cardinality(Children(of)) \in Nat
  <1>1. Children(of) \subseteq GraphFolder
    BY DEF Children
  <1> QED BY <1>1, FS_Subset, FS_CardinalityType

\* Every child of a folder is on one of the pages of its collection.
LEMMA PlaceInPages ==
    ASSUME NEW of, NEW f \in Children(of)
    PROVE  Place(f, of) \in 1..Cardinality(Children(of))
  <1> DEFINE before == {g \in Children(of) : Rank[g] <= Rank[f]}
  <1>1. f \in before
    BY RankOrders, ChildrenFinite
  <1>2. /\ IsFiniteSet(before) /\ Cardinality(before) \in Nat
        /\ Cardinality(before) <= Cardinality(Children(of))
    BY ChildrenFinite, FS_Subset, FS_CardinalityType
  <1>3. Cardinality(before) # 0
    BY <1>1, <1>2, FS_EmptySet
  <1> QED BY <1>2, <1>3, ChildrenFinite DEF Place

LEMMA PlaceGrows ==
    ASSUME NEW of, NEW f \in Children(of), NEW g \in Children(of), Rank[f] < Rank[g]
    PROVE  Place(f, of) # Place(g, of)
  <1> DEFINE before(h) == {k \in Children(of) : Rank[k] <= Rank[h]}
  <1>1. Rank \in [GraphFolder -> Int] /\ Children(of) \subseteq GraphFolder
    BY RankOrders, ChildrenFinite, FS_CardinalityType
  <1>2. before(f) \subseteq before(g) /\ g \in before(g) /\ g \notin before(f)
    BY <1>1
  <1>3. IsFiniteSet(before(g))
    BY ChildrenFinite, FS_Subset
  <1>4. Cardinality(before(f)) # Cardinality(before(g))
    BY <1>2, <1>3, FS_Subset
  <1> QED BY <1>4 DEF Place

\* and on a page of its own.
LEMMA PlaceOfOne ==
    ASSUME NEW of, NEW f \in Children(of), NEW g \in Children(of), Place(f, of) = Place(g, of)
    PROVE  f = g
  <1>1. /\ Rank[f] \in Int /\ Rank[g] \in Int
        /\ Rank[f] = Rank[g] => f = g
    BY RankOrders, ChildrenFinite, FS_CardinalityType DEF IsInjective
  <1> QED BY <1>1, PlaceGrows

\* A page has the child whose place it is.
LEMMA ServedChild ==
    ASSUME NEW url \in Url, url.of # Attachments
    PROVE  /\ Served(url) = <<>> \/ \E f \in Children(url.of) : Served(url) = <<f>>
           /\ \A f \in Children(url.of) : Place(f, url.of) = url.page => Served(url) = <<f>>
  <1> DEFINE here == {f \in Children(url.of) : Place(f, url.of) = url.page}
  <1>1. CASE here = {}
    BY <1>1 DEF Served
  <1>2. CASE here # {}
    <2>1. (CHOOSE f \in here : TRUE) \in here
      BY <1>2
    <2>2. Served(url) = <<CHOOSE f \in here : TRUE>>
      BY <1>2 DEF Served
    <2>3. \A f \in here : f = CHOOSE g \in here : TRUE
      BY <2>1, PlaceOfOne
    <2> QED BY <2>1, <2>2, <2>3
  <1> QED BY <1>1, <1>2

\* What is served of a visible folder is visible.
LEMMA VisibleChild ==
    ASSUME FolderTypeOK, NEW of \in Visible \cup {Root}, NEW f \in Children(of)
    PROVE  f \in Visible
  <1>1. f \in GraphFolder /\ f \notin hidden /\ parentOf[f] = of
    BY DEF Children
  <1>2. PICK S \in SUBSET (GraphFolder \ hidden) :
          (\A g \in S : parentOf[g] \in S \cup {Root}) /\ of \in S \cup {Root}
    <2>1. CASE of = Root
      <3>1. {} \in SUBSET (GraphFolder \ hidden)
        OBVIOUS
      <3> QED BY <2>1, <3>1
    <2>2. CASE of \in Visible
      BY <2>2 DEF Visible
    <2> QED BY <2>1, <2>2
  <1>3. S \cup {f} \in SUBSET (GraphFolder \ hidden)
    BY <1>1, <1>2
  <1>4. \A g \in S \cup {f} : parentOf[g] \in (S \cup {f}) \cup {Root}
    BY <1>1, <1>2
  <1> QED BY <1>3, <1>4 DEF Visible

\* Nothing visible is missed by a set that has all children of the root and of its
\* folders: the folders that it misses would hold one another.
LEMMA VisibleReached ==
    ASSUME FolderTypeOK, NEW D, \A of \in D \cup {Root} : Children(of) \subseteq D
    PROVE  Visible \subseteq D
  <1> SUFFICES ASSUME NEW S \in SUBSET (GraphFolder \ hidden),
                      \A f \in S : parentOf[f] \in S \cup {Root}
               PROVE  S \subseteq D
    BY DEF Visible
  <1>1. ASSUME NEW f \in S \ D PROVE parentOf[f] \in S \ D
    <2>1. f \in Children(parentOf[f])
      BY DEF Children
    <2> QED BY <1>1, <2>1
  <1>2. S \ D = {}
    BY <1>1 DEF FolderTypeOK, IsTree
  <1> QED BY <1>2

-----------------------------------------------------------------------------
(* What a listing has found and has still to visit                         *)

LEMMA InjectiveConcat ==
    ASSUME NEW S, NEW s \in Seq(S), NEW t \in Seq(S),
           IsInjective(s), IsInjective(t), Range(s) \cap Range(t) = {}
    PROVE  IsInjective(s \o t)
  <1>1. /\ Len(s) \in Nat /\ Len(t) \in Nat
        /\ DOMAIN s = 1..Len(s) /\ DOMAIN t = 1..Len(t)
        /\ DOMAIN (s \o t) = 1..(Len(s) + Len(t))
        /\ \A i \in 1..(Len(s) + Len(t)) :
             (s \o t)[i] = IF i <= Len(s) THEN s[i] ELSE t[i - Len(s)]
    BY ConcatProperties, LenProperties
  <1>2. /\ \A i \in 1..Len(s) : s[i] \in Range(s)
        /\ \A i \in 1..Len(t) : t[i] \in Range(t)
    BY <1>1 DEF Range
  <1> SUFFICES ASSUME NEW i \in 1..(Len(s) + Len(t)), NEW j \in 1..(Len(s) + Len(t)),
                      (s \o t)[i] = (s \o t)[j]
               PROVE  i = j
    BY <1>1 DEF IsInjective
  <1>3. CASE i <= Len(s) /\ j <= Len(s)
    <2>1. i \in 1..Len(s) /\ j \in 1..Len(s) /\ s[i] = s[j]
      BY <1>1, <1>3
    <2> QED BY <1>1, <2>1 DEF IsInjective
  <1>4. CASE i <= Len(s) /\ j > Len(s)
    <2>1. s[i] \in Range(s) /\ t[j - Len(s)] \in Range(t) /\ s[i] = t[j - Len(s)]
      BY <1>1, <1>2, <1>4
    <2> QED BY <2>1
  <1>5. CASE i > Len(s) /\ j <= Len(s)
    <2>1. s[j] \in Range(s) /\ t[i - Len(s)] \in Range(t) /\ s[j] = t[i - Len(s)]
      BY <1>1, <1>2, <1>5
    <2> QED BY <2>1
  <1>6. CASE i > Len(s) /\ j > Len(s)
    <2>1. /\ i - Len(s) \in 1..Len(t) /\ j - Len(s) \in 1..Len(t)
          /\ t[i - Len(s)] = t[j - Len(s)]
      BY <1>1, <1>6
    <2>2. i - Len(s) = j - Len(s)
      BY <1>1, <2>1 DEF IsInjective
    <2> QED BY <1>1, <2>2
  <1> QED BY <1>1, <1>3, <1>4, <1>5, <1>6

LEMMA RangeOfOne ==
    /\ Range(<<>>) = {}
    /\ \A x : Range(<<x>>) = {x} /\ IsInjective(<<x>>)
    /\ \A S : \A s \in Seq(S) : Range(s) = {} => s = <<>>
  <1>1. Range(<<>>) = {}
    BY DEF Range
  <1>2. ASSUME NEW x PROVE Range(<<x>>) = {x} /\ IsInjective(<<x>>)
    <2>1. DOMAIN <<x>> = {1} /\ <<x>>[1] = x
      OBVIOUS
    <2> QED BY <2>1 DEF Range, IsInjective
  <1>3. ASSUME NEW S, NEW s \in Seq(S), Range(s) = {} PROVE s = <<>>
    <2>1. s # <<>> => Len(s) \in Nat \ {0}
      BY EmptySeq
    <2>2. s # <<>> => 1 \in DOMAIN s
      BY <1>3, <2>1, LenProperties
    <2>3. 1 \in DOMAIN s => s[1] \in Range(s)
      BY Zenon DEF Range
    <2> QED BY <1>3, <2>2, <2>3
  <1> QED BY <1>1, <1>2, <1>3

LEMMA RangeOfTail ==
    ASSUME NEW S, NEW s \in Seq(S), s # <<>>
    PROVE  Head(s) \in S /\ Tail(s) \in Seq(S) /\ Range(s) = {Head(s)} \cup Range(Tail(s))
  <1>1. /\ Len(s) \in Nat \ {0} /\ DOMAIN s = 1..Len(s) /\ Head(s) = s[1]
        /\ Head(s) \in S /\ Tail(s) \in Seq(S) /\ DOMAIN Tail(s) = 1..(Len(s) - 1)
        /\ \A i \in 1..(Len(s) - 1) : Tail(s)[i] = s[i + 1]
    BY HeadTailProperties, LenProperties, EmptySeq
  <1>2. ASSUME NEW x \in Range(s) PROVE x \in {Head(s)} \cup Range(Tail(s))
    <2>1. PICK i \in 1..Len(s) : x = s[i]
      BY <1>1, <1>2 DEF Range
    <2>2. i # 1 => i - 1 \in 1..(Len(s) - 1) /\ Tail(s)[i - 1] = x
      BY <1>1, <2>1
    <2> QED BY <1>1, <2>1, <2>2 DEF Range
  <1>3. ASSUME NEW x \in Range(Tail(s)) PROVE x \in Range(s)
    <2>1. PICK i \in 1..(Len(s) - 1) : x = Tail(s)[i]
      BY <1>1, <1>3 DEF Range
    <2>2. i + 1 \in 1..Len(s) /\ s[i + 1] = x
      BY <1>1, <2>1
    <2> QED BY <1>1, <2>2 DEF Range
  <1>4. Head(s) \in Range(s)
    BY <1>1 DEF Range
  <1> QED BY <1>1, <1>2, <1>3, <1>4

-----------------------------------------------------------------------------
(* The walks                                                               *)

ListingState == [pc : {"idle", "hung", "failed"}] \cup Walking \cup Ended

\* A page that was visited is to be visited again: the listing will be refused.
Doomed(walk) == Range(walk.pending) \cap walk.seen # {}

\* A listing of folders.
OfFolders(walk) ==
    /\ \A u \in Range(walk.pending) :
         /\ u.of # Attachments
         /\ u.page >= 1
         /\ u.page > 1 => FirstPage(u.of) \in walk.seen
    /\ \A u \in walk.seen : u.of # Attachments
    /\ walk.found \in Seq(GraphFolder)
    /\ IsInjective(walk.found)
    /\ ~walk.disturbed =>
         /\ Range(walk.found) \subseteq Visible
         /\ \A u \in Range(walk.pending) : u.of \in Visible \cup {Root}

\* A child of what was found is found, or on a page to be visited or after one.
WillFind(walk) ==
    \/ walk.disturbed
    \/ Doomed(walk)
    \/ \A of \in Range(walk.found) \cup {Root} : \A f \in Children(of) :
         \/ f \in Range(walk.found)
         \/ \E u \in Range(walk.pending) : u.of = of /\ u.page <= Place(f, of)

UpTo(n) == [k \in 1..n |-> k]

\* A listing of attachments, which are one collection.
OfAttachments(walk) ==
    \/ /\ walk.pending = <<>>
       /\ walk.found = UpTo(AttachmentCount)
       /\ FirstPage(Attachments) \in walk.seen
    \/ \E u \in Range(walk.pending) :
         /\ walk.pending = <<u>>
         /\ u.of = Attachments
         /\ u.page >= 1
         /\ u.page > 1 => FirstPage(Attachments) \in walk.seen
         /\ \/ u \in walk.seen
            \/ walk.found = UpTo(IF u.page <= AttachmentCount THEN u.page - 1 ELSE AttachmentCount)

Sound(walk) ==
    /\ walk.pc = "pages" => (OfFolders(walk) /\ WillFind(walk)) \/ OfAttachments(walk)
    /\ walk.pc \in {"roles", "well_known"} =>
         /\ walk.found \in Seq(GraphFolder)
         /\ IsInjective(walk.found)
         /\ ~walk.disturbed => Range(walk.found) = Visible
    /\ walk.pc = "listed" =>
         /\ IsInjective(walk.found)
         /\ walk.roles = wellKnown
         /\ ~walk.disturbed =>
              /\ Visible \subseteq Range(walk.found)
              /\ Range(walk.found) \subseteq Visible \cup wellKnown
    /\ walk.pc = "attached" => walk.found = UpTo(AttachmentCount)

FolderIInv ==
    /\ FolderTypeOK
    /\ roleIds \subseteq {wellKnown}
    /\ \A l \in Lister : Sound(listing[l])

LEMMA UrlParts ==
    /\ \A u \in Url : u.of \in GraphFolder \cup {Root, Attachments} /\ u.page \in Nat
    /\ \A u \in Url : u = FirstPage(u.of) <=> u.page = 1
    /\ \A of \in GraphFolder \cup {Root, Attachments} :
         FirstPage(of) \in Url /\ FirstPage(of).of = of /\ FirstPage(of).page = 1
    /\ \A u \in Url :
         NextPage(u) \in Url /\ NextPage(u).of = u.of /\ NextPage(u).page = u.page + 1
  BY DEF Url, FirstPage, NextPage

\* A link that is followed leads to the next page, or to the first from another one;
\* only the last page may have none.
LEMMA LinkFollowed ==
    ASSUME NEW url \in Url, NEW link \in {GoodLink(url)} \cup OddLinks(url), Follows(link, url)
    PROVE  \/ link = <<>> /\ ~(url.page < Length(url.of))
           \/ link = <<NextPage(url)>>
           \/ link = <<FirstPage(url.of)>> /\ url.page # 1
  <1>1. CASE link = GoodLink(url)
    BY <1>1 DEF GoodLink
  <1>2. CASE link = <<FirstPage(url.of)>>
    <2>1. link # <<>> /\ link[1] = FirstPage(url.of)
      BY <1>2
    <2> QED BY <1>2, <2>1, UrlParts DEF Follows
  <1>3. CASE link = <<url>>
    <2>1. link # <<>> /\ link[1] = url
      BY <1>3
    <2> QED BY <2>1 DEF Follows
  <1>4. CASE link = <<FirstPage(IF url.of = Root THEN Attachments ELSE Root)>>
    <2>1. link # <<>> /\ link[1] = FirstPage(IF url.of = Root THEN Attachments ELSE Root)
      BY <1>4
    <2>2. link[1].of # url.of
      BY <2>1, UrlParts DEF Root, Attachments
    <2> QED BY <2>1, <2>2 DEF Follows
  <1>5. CASE link = <<NextPage(url)>>
    BY <1>5
  <1> QED BY <1>1, <1>2, <1>3, <1>4, <1>5 DEF OddLinks

\* What a page adds to a listing of folders.
LEMMA FoldersAdded ==
    ASSUME NEW url \in Url, url.of # Attachments,
           NEW found \in Seq(GraphFolder), IsInjective(found),
           NEW items, items = Served(url),
           NEW more, more = found \o Unmet(items, found)
    PROVE  /\ Below(items) \in Seq(Url)
           /\ \A u \in Range(Below(items)) : u.of \in Range(items) /\ u.page = 1
           /\ \A p \in Range(items) : \A f \in Children(p) : FirstPage(p) \in Range(Below(items))
           /\ more \in Seq(GraphFolder)
           /\ IsInjective(more)
           /\ Range(more) = Range(found) \cup Range(items)
           /\ Range(items) \subseteq Children(url.of)
           /\ \A f \in Children(url.of) : Place(f, url.of) = url.page => f \in Range(items)
  <1>1. CASE items = <<>>
    <2>1. Range(items) = {}
      BY <1>1, RangeOfOne
    <2>2. Unmet(items, found) = <<>>
      BY <1>1 DEF Unmet
    <2>3. more = found
      BY <2>2, ConcatEmptySeq
    <2>4. Below(items) = <<>>
      <3>1. \A f : <<f>> # <<>>
        OBVIOUS
      <3> QED BY <1>1, <3>1 DEF Below
    <2>5. \A f \in Children(url.of) : Place(f, url.of) # url.page
      <3>1. \A f : <<f>> # <<>>
        OBVIOUS
      <3> QED BY <1>1, <3>1, ServedChild
    <2>6. Range(Below(items)) = {} /\ Below(items) \in Seq(Url)
      BY <2>4, RangeOfOne, EmptySeq
    <2> QED BY <2>1, <2>3, <2>5, <2>6
  <1>2. ASSUME NEW f \in Children(url.of), items = <<f>>
        PROVE  /\ Below(items) \in Seq(Url)
               /\ \A u \in Range(Below(items)) : u.of \in Range(items) /\ u.page = 1
               /\ \A p \in Range(items) : \A g \in Children(p) : FirstPage(p) \in Range(Below(items))
               /\ more \in Seq(GraphFolder)
               /\ IsInjective(more)
               /\ Range(more) = Range(found) \cup Range(items)
               /\ Range(items) \subseteq Children(url.of)
               /\ \A g \in Children(url.of) : Place(g, url.of) = url.page => g \in Range(items)
    <2>1. f \in GraphFolder /\ items # <<>> /\ items[1] = f /\ items \in Seq(GraphFolder)
      BY <1>2, ChildrenFinite
    <2>2. Range(items) = {f} /\ IsInjective(items)
      BY <1>2, RangeOfOne
    <2>3. Below(items) = IF f \in {parentOf[g] : g \in GraphFolder} THEN <<FirstPage(f)>> ELSE <<>>
      <3>1. \A h \in GraphFolder : items = <<h>> <=> h = f
        BY <1>2
      <3> QED BY <2>1, <3>1 DEF Below
    <2>4. FirstPage(f) \in Url /\ FirstPage(f).of = f /\ FirstPage(f).page = 1
      BY <2>1, UrlParts
    <2>5. /\ Below(items) \in Seq(Url)
          /\ \A u \in Range(Below(items)) : u.of = f /\ u.page = 1
      <3>1. CASE Below(items) = <<FirstPage(f)>>
        <4>1. Range(Below(items)) = {FirstPage(f)}
          BY <3>1, RangeOfOne
        <4> QED BY <2>4, <3>1, <4>1
      <3>2. CASE Below(items) = <<>>
        <4>1. Range(Below(items)) = {}
          BY <3>2, RangeOfOne
        <4> QED BY <3>2, <4>1, EmptySeq
      <3> QED BY <2>3, <3>1, <3>2
    <2>6. ASSUME NEW g \in Children(f) PROVE FirstPage(f) \in Range(Below(items))
      <3>1. f \in {parentOf[h] : h \in GraphFolder}
        BY DEF Children
      <3> QED BY <2>3, <3>1, RangeOfOne
    <2>7. \A g \in Children(url.of) : Place(g, url.of) = url.page => g = f
      <3>1. ASSUME NEW g \in Children(url.of), Place(g, url.of) = url.page PROVE g = f
        <4>1. <<g>> = <<f>>
          BY <1>2, <3>1, ServedChild
        <4> QED BY <4>1
      <3> QED BY <3>1
    <2>8. CASE f \in Range(found)
      <3>1. Unmet(items, found) = <<>>
        BY <2>1, <2>8 DEF Unmet
      <3>2. more = found
        BY <3>1, ConcatEmptySeq
      <3> QED BY <1>2, <2>2, <2>5, <2>6, <2>7, <2>8, <3>2
    <2>9. CASE f \notin Range(found)
      <3>1. Unmet(items, found) = items
        BY <2>1, <2>9 DEF Unmet
      <3>2. more = found \o items
        BY <3>1
      <3>3. more \in Seq(GraphFolder) /\ Range(more) = Range(found) \cup Range(items)
        BY <2>1, <3>2, ConcatProperties, RangeConcatenation
      <3>4. IsInjective(more)
        BY <2>1, <2>2, <2>9, <3>2, InjectiveConcat
      <3> QED BY <1>2, <2>2, <2>5, <2>6, <2>7, <3>3, <3>4
    <2> QED BY <2>8, <2>9
  <1>3. items = <<>> \/ \E f \in Children(url.of) : items = <<f>>
    BY ServedChild
  <1> QED BY <1>1, <1>2, <1>3

LEMMA FoldersVisited ==
    ASSUME FolderTypeOK, NEW walk \in Walking, walk.pc = "pages", walk.pending # <<>>,
           OfFolders(walk), WillFind(walk), Head(walk.pending) \notin walk.seen,
           NEW link \in {GoodLink(Head(walk.pending))} \cup OddLinks(Head(walk.pending)),
           Follows(link, Head(walk.pending)),
           NEW next, next = Visited(walk, link)
    PROVE  next \in Walking /\ OfFolders(next) /\ WillFind(next)
  <1> DEFINE url == Head(walk.pending)
             rest == Tail(walk.pending)
             items == Served(url)
  <1>1. /\ walk.pending \in Seq(Url) /\ walk.seen \in SUBSET Url
        /\ walk.disturbed \in BOOLEAN
    BY DEF Walking
  <1>2. url \in Url /\ rest \in Seq(Url) /\ Range(walk.pending) = {url} \cup Range(rest)
    BY <1>1, RangeOfTail
  <1>3. /\ url.of # Attachments /\ url.page >= 1
        /\ url.page > 1 => FirstPage(url.of) \in walk.seen
        /\ ~walk.disturbed => url.of \in Visible \cup {Root}
    BY <1>2 DEF OfFolders
  <1>4. walk.found \in Seq(GraphFolder) /\ IsInjective(walk.found)
    BY DEF OfFolders
  <1>5. /\ next.pending = rest \o Below(items) \o link
        /\ next.seen = walk.seen \cup {url}
        /\ next.found = walk.found \o Unmet(items, walk.found)
        /\ next.disturbed = walk.disturbed
        /\ next = [pc |-> "pages", pending |-> next.pending, seen |-> next.seen,
                   found |-> next.found, disturbed |-> walk.disturbed]
    BY DEF Visited, Walking
  <1> HIDE DEF url, rest, items
  <1>6. /\ Below(items) \in Seq(Url)
        /\ \A u \in Range(Below(items)) : u.of \in Range(items) /\ u.page = 1
        /\ \A p \in Range(items) : \A f \in Children(p) : FirstPage(p) \in Range(Below(items))
        /\ next.found \in Seq(GraphFolder)
        /\ IsInjective(next.found)
        /\ Range(next.found) = Range(walk.found) \cup Range(items)
        /\ Range(items) \subseteq Children(url.of)
        /\ \A f \in Children(url.of) : Place(f, url.of) = url.page => f \in Range(items)
    BY <1>2, <1>3, <1>4, <1>5, FoldersAdded DEF items
  <1>7. \/ link = <<>> /\ ~(url.page < Length(url.of))
        \/ link = <<NextPage(url)>>
        \/ link = <<FirstPage(url.of)>> /\ url.page # 1
    BY <1>2, LinkFollowed DEF url
  <1>8. /\ link \in Seq(Url)
        /\ \A u \in Range(link) : u.of = url.of /\ (u = NextPage(url) \/ u = FirstPage(url.of))
    <2>1. NextPage(url) \in Url /\ FirstPage(url.of) \in Url
          /\ NextPage(url).of = url.of /\ FirstPage(url.of).of = url.of
      BY <1>2, UrlParts
    <2>2. CASE link = <<>>
      BY <2>2, RangeOfOne, EmptySeq
    <2>3. ASSUME NEW u \in {NextPage(url), FirstPage(url.of)}, link = <<u>>
          PROVE  link \in Seq(Url) /\ Range(link) = {u}
      BY <2>1, <2>3, RangeOfOne
    <2> QED BY <1>7, <2>1, <2>2, <2>3
  <1>9. /\ next.pending \in Seq(Url)
        /\ Range(next.pending) = Range(rest) \cup Range(Below(items)) \cup Range(link)
    <2> DEFINE queue == rest \o Below(items)
    <2>1. queue \in Seq(Url) /\ Range(queue) = Range(rest) \cup Range(Below(items))
      BY <1>2, <1>6, ConcatProperties, RangeConcatenation
    <2>2. next.pending = queue \o link
      BY <1>5
    <2> HIDE DEF queue
    <2>3. queue \o link \in Seq(Url) /\ Range(queue \o link) = Range(queue) \cup Range(link)
      BY <1>8, <2>1, ConcatProperties, RangeConcatenation
    <2> QED BY <2>1, <2>2, <2>3
  <1>10. next \in Walking
    <2>1. next.found \in Seq(GraphFolder \cup Nat)
      BY <1>6, SeqMonotonic
    <2>2. next.seen \in SUBSET Url
      BY <1>1, <1>2, <1>5
    <2>3. [pc |-> "pages", pending |-> next.pending, seen |-> next.seen,
           found |-> next.found, disturbed |-> walk.disturbed] \in Walking
      BY <1>1, <1>9, <2>1, <2>2 DEF Walking
    <2> QED BY <1>5, <2>3
  <1>11. OfFolders(next)
    <2>1. ASSUME NEW u \in Range(next.pending)
          PROVE  u.of # Attachments /\ u.page >= 1
                 /\ (u.page > 1 => FirstPage(u.of) \in next.seen)
                 /\ (~walk.disturbed => u.of \in Visible \cup {Root})
      <3>1. CASE u \in Range(rest)
        BY <1>2, <1>5, <3>1 DEF OfFolders
      <3>2. CASE u \in Range(Below(items))
        <4>1. u.of \in Children(url.of) /\ u.page = 1
          BY <1>6, <3>2
        <4>2. u.of # Attachments
          BY <4>1, ChildrenFinite
        <4>3. ~walk.disturbed => u.of \in Visible \cup {Root}
          BY <1>3, <4>1, VisibleChild
        <4> QED BY <4>1, <4>2, <4>3
      <3>3. CASE u \in Range(link)
        <4>1. u.of = url.of /\ u.page \in Nat /\ u.page >= 1
          BY <1>2, <1>3, <1>8, <3>3, UrlParts
        <4>2. FirstPage(url.of) \in next.seen
          <5>1. url.page = 1 \/ url.page > 1
            BY <1>2, <1>3, UrlParts
          <5>2. url.page = 1 => url = FirstPage(url.of)
            BY <1>2, UrlParts
          <5> QED BY <1>3, <1>5, <5>1, <5>2
        <4> QED BY <1>3, <4>1, <4>2
      <3> QED BY <1>9, <3>1, <3>2, <3>3
    <2>2. \A u \in next.seen : u.of # Attachments
      BY <1>3, <1>5 DEF OfFolders
    <2>3. ~walk.disturbed => Range(next.found) \subseteq Visible
      BY <1>3, <1>6, VisibleChild DEF OfFolders
    <2> QED BY <1>5, <1>6, <2>1, <2>2, <2>3 DEF OfFolders
  <1>12. CASE walk.disturbed
    BY <1>5, <1>10, <1>11, <1>12 DEF WillFind
  <1>13. CASE Doomed(walk)
    <2>1. PICK u \in Range(walk.pending) : u \in walk.seen
      BY <1>13 DEF Doomed
    <2>2. u \in Range(rest)
      BY <1>2, <2>1 DEF url
    <2>3. Doomed(next)
      BY <1>5, <1>9, <2>1, <2>2 DEF Doomed
    <2> QED BY <1>10, <1>11, <2>3 DEF WillFind
  <1>14. CASE link = <<FirstPage(url.of)>> /\ url.page # 1
    <2>1. url.page > 1
      BY <1>2, <1>3, <1>14, UrlParts
    <2>2. FirstPage(url.of) \in Range(link)
      BY <1>14, RangeOfOne
    <2>3. Doomed(next)
      BY <1>3, <1>5, <1>9, <2>1, <2>2 DEF Doomed
    <2> QED BY <1>10, <1>11, <2>3 DEF WillFind
  <1>15. CASE ~walk.disturbed /\ ~Doomed(walk)
              /\ ((link = <<>> /\ ~(url.page < Length(url.of))) \/ link = <<NextPage(url)>>)
    <2>1. SUFFICES ASSUME NEW of \in Range(next.found) \cup {Root}, NEW f \in Children(of),
                          f \notin Range(next.found)
                   PROVE  \E u \in Range(next.pending) : u.of = of /\ u.page <= Place(f, of)
      BY <1>10, <1>11 DEF WillFind
    <2>2. Place(f, of) \in 1..Cardinality(Children(of)) /\ Cardinality(Children(of)) \in Nat
      BY PlaceInPages, ChildrenFinite
    <2>3. CASE of \in Range(items)
      <3>1. FirstPage(of) \in Range(next.pending)
        BY <1>6, <1>9, <2>3
      <3>2. of \in GraphFolder
        BY <1>6, <2>3, ChildrenFinite
      <3>3. FirstPage(of).of = of /\ FirstPage(of).page = 1
        BY <3>2, UrlParts
      <3> QED BY <2>2, <3>1, <3>3
    <2>4. CASE of \in Range(walk.found) \cup {Root}
      <3>1. PICK u \in Range(walk.pending) : u.of = of /\ u.page <= Place(f, of)
        <4>1. f \notin Range(walk.found)
          BY <1>6, <2>1
        <4>2. \A p \in Range(walk.found) \cup {Root} : \A g \in Children(p) :
                \/ g \in Range(walk.found)
                \/ \E u \in Range(walk.pending) : u.of = p /\ u.page <= Place(g, p)
          BY <1>15 DEF WillFind
        <4> QED BY <2>4, <4>1, <4>2
      <3>2. CASE u \in Range(rest)
        BY <1>9, <3>1, <3>2
      <3>3. CASE u = url
        <4>1. url.page # Place(f, of) /\ url.page \in Nat
          <5>1. url.of = of /\ url.page \in Nat
            BY <1>2, <3>1, <3>3, UrlParts
          <5>2. Place(f, of) = url.page => f \in Range(items)
            BY <1>6, <5>1
          <5> QED BY <1>6, <2>1, <5>1, <5>2
        <4>2. url.page + 1 <= Place(f, of) /\ url.page < Length(url.of)
          BY <1>3, <2>2, <3>1, <3>3, <4>1 DEF Length
        <4>3. NextPage(url) \in Range(next.pending)
          BY <1>9, <1>15, <4>2, RangeOfOne
        <4>4. NextPage(url).of = of /\ NextPage(url).page = url.page + 1
          BY <1>2, <3>1, <3>3, UrlParts
        <4> QED BY <4>2, <4>3, <4>4
      <3> QED BY <1>2, <3>2, <3>3
    <2> QED BY <1>6, <2>3, <2>4
  <1> QED BY <1>7, <1>12, <1>13, <1>14, <1>15

LEMMA CountedUp ==
    /\ UpTo(0) = <<>>
    /\ \A n \in Nat : UpTo(n) \in Seq(Nat) /\ UpTo(n) \o <<n + 1>> = UpTo(n + 1)
  <1>1. ASSUME NEW n \in Nat PROVE UpTo(n) \in Seq(Nat) /\ Len(UpTo(n)) = n
    BY DEF UpTo
  <1>2. UpTo(0) = <<>>
    BY <1>1, EmptySeq
  <1>3. ASSUME NEW n \in Nat PROVE UpTo(n) \o <<n + 1>> = UpTo(n + 1)
    <2> DEFINE s == UpTo(n)
               t == UpTo(n) \o <<n + 1>>
    <2>1. s \in Seq(Nat) /\ Len(s) = n /\ \A i \in 1..n : s[i] = i
      BY <1>1 DEF UpTo
    <2>2. <<n + 1>> \in Seq(Nat) /\ Len(<<n + 1>>) = 1 /\ <<n + 1>>[1] = n + 1
      OBVIOUS
    <2> HIDE DEF s
    <2>3. /\ s \o <<n + 1>> \in Seq(Nat) /\ Len(s \o <<n + 1>>) = n + 1
          /\ \A i \in 1..(n + 1) : (s \o <<n + 1>>)[i] = IF i <= n THEN s[i] ELSE <<n + 1>>[i - n]
      BY <2>1, <2>2, ConcatProperties
    <2>4. \A i \in 1..(n + 1) : (s \o <<n + 1>>)[i] = i
      <3> TAKE i \in 1..(n + 1)
      <3>1. i <= n => s[i] = i
        BY <2>1
      <3>2. ~(i <= n) => i - n = 1 /\ i = n + 1
        OBVIOUS
      <3> QED BY <2>2, <2>3, <3>1, <3>2
    <2>5. UpTo(n + 1) \in Seq(Nat) /\ Len(UpTo(n + 1)) = n + 1
          /\ \A i \in 1..(n + 1) : UpTo(n + 1)[i] = i
      BY <1>1 DEF UpTo
    <2> QED BY <2>3, <2>4, <2>5, SeqEqual DEF s
  <1> QED BY <1>1, <1>2, <1>3

LEMMA LinkIsSeq ==
    ASSUME NEW url \in Url, NEW link \in {GoodLink(url)} \cup OddLinks(url), Follows(link, url)
    PROVE  link \in Seq(Url)
  <1>1. NextPage(url) \in Url /\ FirstPage(url.of) \in Url
    BY UrlParts
  <1>2. ASSUME NEW u \in Url PROVE <<u>> \in Seq(Url)
    OBVIOUS
  <1>3. link = <<>> \/ link = <<NextPage(url)>> \/ link = <<FirstPage(url.of)>>
    BY LinkFollowed
  <1> QED BY <1>1, <1>2, <1>3, EmptySeq

LEMMA AttachmentsVisited ==
    ASSUME NEW walk \in Walking, walk.pc = "pages", walk.pending # <<>>,
           OfAttachments(walk), Head(walk.pending) \notin walk.seen,
           NEW link \in {GoodLink(Head(walk.pending))} \cup OddLinks(Head(walk.pending)),
           Follows(link, Head(walk.pending)),
           NEW next, next = Visited(walk, link)
    PROVE  next \in Walking /\ OfAttachments(next)
  <1>1. /\ walk.pending \in Seq(Url) /\ walk.seen \in SUBSET Url
        /\ walk.disturbed \in BOOLEAN
    BY DEF Walking
  <1>2. PICK url \in Range(walk.pending) :
          /\ walk.pending = <<url>>
          /\ url.of = Attachments
          /\ url.page >= 1
          /\ url.page > 1 => FirstPage(Attachments) \in walk.seen
          /\ \/ url \in walk.seen
             \/ walk.found = UpTo(IF url.page <= AttachmentCount THEN url.page - 1 ELSE AttachmentCount)
    BY DEF OfAttachments
  <1>3. Head(walk.pending) = url /\ Tail(walk.pending) = <<>>
    BY <1>2
  <1>4. url \in Url /\ url.page \in Nat /\ AttachmentCount \in Nat
    BY <1>1, RangeOfSeq, UrlParts
  <1> DEFINE items == Served(url)
  <1>5. items = IF url.page <= AttachmentCount THEN <<url.page>> ELSE <<>>
    BY <1>2 DEF Served
  <1> HIDE DEF items
  <1>6. Below(items) = <<>>
    <2>1. ASSUME NEW f \in GraphFolder PROVE items # <<f>>
      <3>1. f # url.page
        BY <1>4
      <3>2. <<f>> # <<>> /\ <<f>> # <<url.page>>
        BY <3>1
      <3> QED BY <1>5, <3>2
    <2> QED BY <2>1 DEF Below
  <1>7. Unmet(items, walk.found) = items
    <2>1. items # <<>> => items[1] = url.page
      BY <1>5
    <2> QED BY <1>4, <2>1 DEF Unmet
  <1>8. /\ next.pending = link
        /\ next.seen = walk.seen \cup {url}
        /\ next.found = walk.found \o items
        /\ next = [pc |-> "pages", pending |-> next.pending, seen |-> next.seen,
                   found |-> next.found, disturbed |-> walk.disturbed]
    <2>1. /\ next.pending = Tail(walk.pending) \o Below(items) \o link
          /\ next.seen = walk.seen \cup {url}
          /\ next.found = walk.found \o Unmet(items, walk.found)
          /\ next = [pc |-> "pages", pending |-> next.pending, seen |-> next.seen,
                     found |-> next.found, disturbed |-> walk.disturbed]
      BY <1>3 DEF Visited, Walking, items
    <2>2. link \in Seq(Url)
      BY <1>3, <1>4, LinkIsSeq
    <2>3. (<<>> \o <<>>) \o link = link
      BY <2>2, ConcatEmptySeq
    <2> QED BY <1>3, <1>6, <1>7, <2>1, <2>3
  <1>9. walk.found = UpTo(IF url.page <= AttachmentCount THEN url.page - 1 ELSE AttachmentCount)
    BY <1>2, <1>3
  <1>10. next.found = UpTo(IF url.page <= AttachmentCount THEN url.page ELSE AttachmentCount)
    <2>1. CASE url.page <= AttachmentCount
      <3>1. url.page - 1 \in Nat /\ (url.page - 1) + 1 = url.page
        BY <1>2, <1>4
      <3>2. UpTo(url.page - 1) \o <<url.page>> = UpTo(url.page)
        BY <3>1, CountedUp
      <3> QED BY <1>5, <1>8, <1>9, <2>1, <3>2
    <2>2. CASE ~(url.page <= AttachmentCount)
      <3>1. UpTo(AttachmentCount) \o <<>> = UpTo(AttachmentCount)
        BY <1>4, CountedUp, ConcatEmptySeq
      <3> QED BY <1>5, <1>8, <1>9, <2>2, <3>1
    <2> QED BY <2>1, <2>2
  <1>11. FirstPage(Attachments) \in next.seen
    <2>1. url.page = 1 => url = FirstPage(Attachments)
      BY <1>2, <1>4, UrlParts
    <2> QED BY <1>2, <1>4, <1>8, <2>1
  <1>12. NextPage(url) \in Url /\ NextPage(url).of = Attachments
         /\ NextPage(url).page = url.page + 1
         /\ FirstPage(Attachments) \in Url /\ FirstPage(Attachments).of = Attachments
         /\ FirstPage(Attachments).page = 1
    BY <1>2, <1>4, UrlParts
  <1>13. \/ link = <<>> /\ ~(url.page < AttachmentCount)
         \/ link = <<NextPage(url)>>
         \/ link = <<FirstPage(Attachments)>> /\ url.page # 1
    BY <1>2, <1>3, <1>4, LinkFollowed DEF Length
  <1>14. next \in Walking
    <2>1. link \in Seq(Url)
      BY <1>3, <1>4, LinkIsSeq
    <2>2. next.found \in Seq(Nat)
      BY <1>4, <1>10, CountedUp
    <2>3. next.found \in Seq(GraphFolder \cup Nat)
      BY <2>2, SeqMonotonic
    <2>4. next.seen \in SUBSET Url
      BY <1>1, <1>4, <1>8
    <2>5. [pc |-> "pages", pending |-> next.pending, seen |-> next.seen,
           found |-> next.found, disturbed |-> walk.disturbed] \in Walking
      BY <1>1, <1>8, <2>1, <2>3, <2>4 DEF Walking
    <2> QED BY <1>8, <2>5
  <1>15. CASE link = <<>> /\ ~(url.page < AttachmentCount)
    <2>1. next.found = UpTo(AttachmentCount)
      BY <1>4, <1>10, <1>15
    <2> QED BY <1>8, <1>11, <1>14, <1>15, <2>1 DEF OfAttachments
  <1>16. CASE link = <<NextPage(url)>>
    <2> DEFINE u == NextPage(url)
    <2>1. u \in Range(next.pending) /\ next.pending = <<u>>
      BY <1>8, <1>16, RangeOfOne
    <2>2. u.of = Attachments /\ u.page >= 1
      BY <1>4, <1>12
    <2>3. next.found = UpTo(IF u.page <= AttachmentCount THEN u.page - 1 ELSE AttachmentCount)
      <3>1. u.page <= AttachmentCount => url.page <= AttachmentCount /\ u.page - 1 = url.page
        BY <1>4, <1>12
      <3>2. ~(u.page <= AttachmentCount) /\ url.page <= AttachmentCount => url.page = AttachmentCount
        BY <1>4, <1>12
      <3> QED BY <1>10, <3>1, <3>2
    <2> HIDE DEF u
    <2> QED BY <1>11, <1>14, <2>1, <2>2, <2>3 DEF OfAttachments
  <1>17. CASE link = <<FirstPage(Attachments)>> /\ url.page # 1
    <2> DEFINE u == FirstPage(Attachments)
    <2>1. u \in Range(next.pending) /\ next.pending = <<u>>
      BY <1>8, <1>17, RangeOfOne
    <2>2. u.of = Attachments /\ u.page >= 1 /\ u \in next.seen
      BY <1>11, <1>12
    <2>3. u.page > 1 => FirstPage(Attachments) \in next.seen
      BY <1>11
    <2> HIDE DEF u
    <2> QED BY <1>14, <2>1, <2>2, <2>3 DEF OfAttachments
  <1> QED BY <1>13, <1>15, <1>16, <1>17

-----------------------------------------------------------------------------
(* The steps of a listing                                                  *)

LEMMA SoundKept ==
    ASSUME UNCHANGED <<parentOf, hidden, wellKnown>>, NEW l \in Lister,
           NEW walk, listing'[l] = walk, Sound(walk)
    PROVE  Sound(listing[l])'
  <1>1. Visible' = Visible
    BY DEF Visible
  <1>2. \A of : Children(of)' = Children(of)
    BY DEF Children
  <1>3. \A f, of : Place(f, of)' = Place(f, of)
    BY DEF Place, Children
  <1>4. OfFolders(walk) => OfFolders(listing[l])'
    BY <1>1 DEF OfFolders
  <1>5. WillFind(walk) => WillFind(listing[l])'
    BY <1>2, <1>3 DEF WillFind, Doomed
  <1>6. OfAttachments(walk) => OfAttachments(listing[l])'
    BY DEF OfAttachments
  <1> QED BY <1>1, <1>4, <1>5, <1>6 DEF Sound

LEMMA OneListing ==
    ASSUME FolderIInv, NEW l \in Lister, NEW walk \in ListingState, Sound(walk),
           listing' = [listing EXCEPT ![l] = walk],
           UNCHANGED <<parentOf, hidden, wellKnown>>,
           oddities' \in 0..MaxOddities, roleIds' = roleIds \/ roleIds' = {wellKnown}
    PROVE  FolderIInv'
  <1>1. listing \in [Lister -> ListingState]
    BY DEF FolderIInv, FolderTypeOK, ListingState
  <1>2. listing' \in [Lister -> ListingState]
    BY <1>1
  <1>3. roleIds' \subseteq {wellKnown} /\ wellKnown \subseteq GraphFolder
    BY DEF FolderIInv, FolderTypeOK
  <1>4. roleIds' \subseteq SUBSET GraphFolder /\ Cardinality(roleIds') <= 1
    <2>1. roleIds' = {} \/ roleIds' = {wellKnown}
      BY <1>3
    <2>2. Cardinality({}) = 0 /\ Cardinality({wellKnown}) = 1
      BY FS_EmptySet, FS_Singleton
    <2>3. Cardinality(roleIds') <= 1
      BY <2>1, <2>2
    <2> QED BY <1>3, <2>3
  <1>5. FolderTypeOK'
    BY <1>2, <1>4 DEF FolderIInv, FolderTypeOK, ListingState, IsTree
  <1>6. ASSUME NEW k \in Lister PROVE Sound(listing[k])'
    <2>1. CASE k = l
      <3>1. listing'[k] = walk
        BY <1>1, <2>1
      <3> QED BY <3>1, SoundKept
    <2>2. CASE k # l
      <3>1. listing'[k] = listing[k] /\ Sound(listing[k])
        BY <1>1, <2>2 DEF FolderIInv
      <3> QED BY <3>1, SoundKept
    <2> QED BY <2>1, <2>2
  <1> QED BY <1>3, <1>5, <1>6 DEF FolderIInv

LEMMA FailedIsSound ==
    [pc |-> "failed"] \in ListingState /\ Sound([pc |-> "failed"])
  BY DEF ListingState, Sound

LEMMA HungIsSound ==
    [pc |-> "hung"] \in ListingState /\ Sound([pc |-> "hung"])
  BY DEF ListingState, Sound

LEMMA OddOnce ==
    ASSUME FolderTypeOK, Odd
    PROVE  oddities' \in 0..MaxOddities
  BY DEF FolderTypeOK, Odd

LEMMA OfWalk ==
    ASSUME FolderIInv, NEW l \in Lister, listing[l].pc \in {"pages", "roles", "well_known"}
    PROVE  listing[l] \in Walking /\ Sound(listing[l])
  BY DEF FolderIInv, FolderTypeOK, Ended

LEMMA StartListingKeeps ==
    ASSUME FolderIInv, NEW l \in Lister, NEW of \in {Root, Attachments}, StartListing(l, of)
    PROVE  FolderIInv'
  <1> DEFINE walk == [pc |-> "pages", pending |-> <<FirstPage(of)>>, seen |-> {},
                      found |-> <<>>, disturbed |-> FALSE]
  <1>1. FirstPage(of) \in Url /\ FirstPage(of).of = of /\ FirstPage(of).page = 1
    BY UrlParts
  <1>2. <<FirstPage(of)>> \in Seq(Url) /\ <<>> \in Seq(GraphFolder \cup Nat)
    BY <1>1
  <1>3. walk \in ListingState
    BY <1>2 DEF ListingState, Walking
  <1>4. Range(walk.pending) = {FirstPage(of)} /\ Range(walk.found) = {}
    BY RangeOfOne
  <1>5. ASSUME of = Root PROVE Sound(walk)
    <2>1. OfFolders(walk)
      <3>1. walk.found \in Seq(GraphFolder) /\ IsInjective(walk.found)
        BY EmptySeq DEF IsInjective
      <3> QED BY <1>1, <1>4, <1>5, <3>1 DEF OfFolders, Root, Attachments
    <2>2. WillFind(walk)
      <3>1. \A f \in Children(Root) : 1 <= Place(f, Root)
        BY PlaceInPages, ChildrenFinite
      <3> QED BY <1>1, <1>4, <1>5, <3>1 DEF WillFind
    <2> QED BY <2>1, <2>2 DEF Sound
  <1>6. ASSUME of = Attachments PROVE Sound(walk)
    <2> DEFINE u == FirstPage(of)
    <2>1. walk.found = UpTo(IF u.page <= AttachmentCount THEN u.page - 1 ELSE AttachmentCount)
      <3>1. (IF u.page <= AttachmentCount THEN u.page - 1 ELSE AttachmentCount) = 0
        BY <1>1
      <3> QED BY <3>1, CountedUp
    <2>2. OfAttachments(walk)
      BY <1>1, <1>4, <1>6, <2>1 DEF OfAttachments
    <2> QED BY <2>2 DEF Sound
  <1>7. Sound(walk)
    BY <1>5, <1>6
  <1>8. listing' = [listing EXCEPT ![l] = walk] /\ UNCHANGED <<parentOf, hidden, wellKnown>>
        /\ oddities' \in 0..MaxOddities /\ roleIds' = roleIds
    BY DEF StartListing, FolderIInv, FolderTypeOK
  <1> HIDE DEF walk
  <1> QED BY <1>3, <1>7, <1>8, OneListing

LEMMA VisitPageKeeps ==
    ASSUME FolderIInv, NEW l \in Lister, VisitPage(l)
    PROVE  FolderIInv'
  <1> DEFINE walk == listing[l]
             url == Head(walk.pending)
  <1>1. PICK link \in {GoodLink(url)} \cup OddLinks(url) :
          /\ IF link = GoodLink(url) THEN UNCHANGED oddities ELSE Odd
          /\ IF Follows(link, url) /\ Len(Visited(walk, link).found) <= MaxItems(url.of)
             THEN listing' = [listing EXCEPT ![l] = Visited(@, link)]
             ELSE Fails(l)
    BY DEF VisitPage
  <1>2. /\ walk.pc = "pages" /\ walk.pending # <<>> /\ url \notin walk.seen
        /\ UNCHANGED <<parentOf, hidden, wellKnown, roleIds>>
    BY DEF VisitPage, Unvisitable
  <1>3. oddities' \in 0..MaxOddities
    BY <1>1, OddOnce DEF FolderIInv, FolderTypeOK
  <1>4. CASE Fails(l)
    BY <1>2, <1>3, <1>4, FailedIsSound, OneListing DEF Fails
  <1>5. CASE Follows(link, url) /\ listing' = [listing EXCEPT ![l] = Visited(@, link)]
    <2> DEFINE next == Visited(walk, link)
    <2>1. walk \in Walking /\ Sound(walk) /\ FolderTypeOK
      BY <1>2, OfWalk DEF FolderIInv
    <2>2. next.pc = "pages"
      BY <1>2, <2>1 DEF Visited, Walking
    <2>3. listing' = [listing EXCEPT ![l] = next]
      BY <1>5
    <2> HIDE DEF next, walk, url
    <2>4. CASE OfFolders(walk) /\ WillFind(walk)
      <3>1. next \in Walking /\ OfFolders(next) /\ WillFind(next)
        BY <1>1, <1>2, <1>5, <2>1, <2>4, FoldersVisited DEF next, url
      <3>2. Sound(next)
        BY <2>2, <3>1 DEF Sound
      <3> QED BY <1>2, <1>3, <2>3, <3>1, <3>2, OneListing DEF ListingState
    <2>5. CASE OfAttachments(walk)
      <3>1. next \in Walking /\ OfAttachments(next)
        BY <1>1, <1>2, <1>5, <2>1, <2>5, AttachmentsVisited DEF next, url
      <3>2. Sound(next)
        BY <2>2, <3>1 DEF Sound
      <3> QED BY <1>2, <1>3, <2>3, <3>1, <3>2, OneListing DEF ListingState
    <2> QED BY <1>2, <2>1, <2>4, <2>5 DEF Sound
  <1> QED BY <1>1, <1>4, <1>5

LEMMA EndPagesKeeps ==
    ASSUME FolderIInv, NEW l \in Lister, EndPages(l)
    PROVE  FolderIInv'
  <1> DEFINE walk == listing[l]
  <1>1. /\ walk.pc = "pages" /\ walk.pending = <<>>
        /\ UNCHANGED <<parentOf, hidden, wellKnown, roleIds>>
        /\ oddities' \in 0..MaxOddities
    BY DEF EndPages, FolderIInv, FolderTypeOK
  <1>2. walk \in Walking /\ Sound(walk) /\ FolderTypeOK
    BY <1>1, OfWalk DEF FolderIInv
  <1>3. Range(walk.pending) = {}
    BY <1>1, RangeOfOne
  <1>4. CASE FirstPage(Attachments) \in walk.seen
    <2> DEFINE end == [pc |-> "attached", found |-> walk.found]
    <2>1. walk.found = UpTo(AttachmentCount)
      <3>1. ~OfFolders(walk)
        <4>1. FirstPage(Attachments).of = Attachments
          BY UrlParts
        <4> QED BY <1>4, <4>1 DEF OfFolders
      <3> QED BY <1>1, <1>2, <1>3, <3>1 DEF Sound, OfAttachments
    <2>2. walk.found \in Seq(Nat)
      BY <2>1, CountedUp
    <2>3. end \in ListingState /\ Sound(end)
      BY <2>1, <2>2 DEF ListingState, Ended, Sound
    <2>4. listing' = [listing EXCEPT ![l] = end]
      BY <1>4 DEF EndPages
    <2> HIDE DEF end
    <2> QED BY <1>1, <2>3, <2>4, OneListing
  <1>5. CASE FirstPage(Attachments) \notin walk.seen
    <2> DEFINE next == [walk EXCEPT !.pc = "roles"]
    <2>1. next \in Walking /\ next.pc = "roles" /\ next.found = walk.found
          /\ next.disturbed = walk.disturbed
      BY <1>2 DEF Walking
    <2>2. OfFolders(walk) /\ WillFind(walk)
      BY <1>1, <1>2, <1>3, <1>5 DEF Sound, OfAttachments
    <2>3. ~walk.disturbed => Range(walk.found) = Visible
      <3>1. SUFFICES ASSUME ~walk.disturbed PROVE Range(walk.found) = Visible
        OBVIOUS
      <3>2. \A of \in Range(walk.found) \cup {Root} : Children(of) \subseteq Range(walk.found)
        BY <1>3, <2>2, <3>1 DEF WillFind, Doomed
      <3>3. Visible \subseteq Range(walk.found)
        BY <1>2, <3>2, VisibleReached
      <3> QED BY <2>2, <3>1, <3>3 DEF OfFolders
    <2>4. listing' = [listing EXCEPT ![l] = next]
      BY <1>5 DEF EndPages
    <2> HIDE DEF next
    <2>5. Sound(next)
      BY <2>1, <2>2, <2>3 DEF Sound, OfFolders
    <2> QED BY <1>1, <2>1, <2>4, <2>5, OneListing DEF ListingState
  <1> QED BY <1>4, <1>5

LEMMA ReadRolesKeeps ==
    ASSUME FolderIInv, NEW l \in Lister, ReadRoles(l)
    PROVE  FolderIInv'
  <1> DEFINE walk == listing[l]
  <1>1. /\ walk.pc = "roles"
        /\ UNCHANGED <<parentOf, hidden, wellKnown, roleIds>>
        /\ oddities' \in 0..MaxOddities
    BY DEF ReadRoles, FolderIInv, FolderTypeOK
  <1>2. walk \in Walking /\ Sound(walk) /\ wellKnown \subseteq GraphFolder
    BY <1>1, OfWalk DEF FolderIInv, FolderTypeOK
  <1>3. CASE roleIds = {}
    <2> DEFINE next == [walk EXCEPT !.pc = "well_known"]
    <2>1. next \in Walking /\ next.pc = "well_known" /\ next.found = walk.found
          /\ next.disturbed = walk.disturbed
      BY <1>2 DEF Walking
    <2>2. listing' = [listing EXCEPT ![l] = next]
      BY <1>3 DEF ReadRoles
    <2> HIDE DEF next
    <2>3. Sound(next)
      BY <1>1, <1>2, <2>1 DEF Sound
    <2> QED BY <1>1, <2>1, <2>2, <2>3, OneListing DEF ListingState
  <1>4. CASE roleIds # {}
    <2> DEFINE end == Listed(walk, walk.found, UNION roleIds)
    <2>1. UNION roleIds = wellKnown
      BY <1>4 DEF FolderIInv
    <2>2. /\ end.pc = "listed" /\ end.found = walk.found /\ end.roles = wellKnown
          /\ end.disturbed = walk.disturbed
      BY <2>1 DEF Listed
    <2>3. end \in ListingState
      BY <1>1, <1>2, <2>1 DEF Listed, ListingState, Ended, Sound, Walking
    <2>4. listing' = [listing EXCEPT ![l] = end]
      BY <1>4 DEF ReadRoles
    <2> HIDE DEF end
    <2>5. Sound(end)
      BY <1>1, <1>2, <2>2 DEF Sound
    <2> QED BY <1>1, <2>3, <2>4, <2>5, OneListing
  <1> QED BY <1>3, <1>4

\* What is appended is not there yet.
LEMMA WellKnownAdded ==
    ASSUME FolderTypeOK, NEW found \in Seq(GraphFolder), IsInjective(found)
    PROVE  /\ WithWellKnown(found) \in Seq(GraphFolder)
           /\ IsInjective(WithWellKnown(found))
           /\ Range(found) \subseteq Range(WithWellKnown(found))
           /\ Range(WithWellKnown(found)) \subseteq Range(found) \cup wellKnown
  <1> DEFINE missing == wellKnown \ Range(found)
             n == Cardinality(missing)
             order == CHOOSE s \in [1..n -> missing] : IsInjective(s)
  <1>1. missing \subseteq GraphFolder /\ IsFiniteSet(missing)
    BY FS_Subset DEF FolderTypeOK
  <1>2. n \in Nat /\ \E s \in [1..n -> missing] : IsInjective(s)
    BY <1>1, FS_CardinalityType DEF ExistsBijection, Bijection, Injection
  <1>3. order \in [1..n -> missing] /\ IsInjective(order)
    BY <1>2
  <1>4. WithWellKnown(found) = found \o order
    BY DEF WithWellKnown
  <1> HIDE DEF n, order
  <1>5. order \in Seq(missing)
    BY <1>2, <1>3
  <1>6. order \in Seq(GraphFolder) /\ Range(order) \subseteq missing
    BY <1>1, <1>5, SeqMonotonic, RangeOfSeq
  <1>7. Range(found) \cap Range(order) = {}
    BY <1>6
  <1> QED BY <1>3, <1>4, <1>6, <1>7, ConcatProperties, RangeConcatenation, InjectiveConcat

LEMMA AskWellKnownKeeps ==
    ASSUME FolderIInv, NEW l \in Lister, AskWellKnown(l)
    PROVE  FolderIInv'
  <1> DEFINE walk == listing[l]
             found == WithWellKnown(walk.found)
             end == Listed(walk, found, wellKnown)
  <1>1. /\ walk.pc = "well_known" /\ roleIds' = {wellKnown}
        /\ UNCHANGED <<parentOf, hidden, wellKnown>>
        /\ oddities' \in 0..MaxOddities
        /\ listing' = [listing EXCEPT ![l] = end]
    BY DEF AskWellKnown, FolderIInv, FolderTypeOK
  <1>2. walk \in Walking /\ Sound(walk) /\ FolderTypeOK
    BY <1>1, OfWalk DEF FolderIInv
  <1>3. /\ walk.found \in Seq(GraphFolder) /\ IsInjective(walk.found)
        /\ ~walk.disturbed => Range(walk.found) = Visible
    BY <1>1, <1>2 DEF Sound
  <1>4. /\ found \in Seq(GraphFolder) /\ IsInjective(found)
        /\ Range(walk.found) \subseteq Range(found)
        /\ Range(found) \subseteq Range(walk.found) \cup wellKnown
    BY <1>2, <1>3, WellKnownAdded
  <1> HIDE DEF found
  <1>5. end.pc = "listed" /\ end.found = found /\ end.roles = wellKnown
        /\ end.disturbed = walk.disturbed
    BY DEF Listed
  <1>6. end \in ListingState
    BY <1>2, <1>4 DEF Listed, ListingState, Ended, Walking, FolderTypeOK
  <1> HIDE DEF end
  <1>7. Sound(end)
    BY <1>3, <1>4, <1>5 DEF Sound
  <1> QED BY <1>1, <1>6, <1>7, OneListing

LEMMA MoveFolderKeeps ==
    ASSUME FolderIInv, NEW f \in GraphFolder, NEW to \in GraphFolder \cup {Root},
           MoveFolder(f, to)
    PROVE  FolderIInv'
  <1>1. /\ parentOf' = [parentOf EXCEPT ![f] = to] /\ IsTree(parentOf')
        /\ UNCHANGED <<hidden, wellKnown, roleIds>>
        /\ oddities' \in 0..MaxOddities
    BY OddOnce DEF MoveFolder, FolderIInv
  <1>2. ASSUME NEW l \in Lister PROVE listing'[l] \in ListingState /\ Sound(listing[l])'
    <2> DEFINE walk == listing[l]
    <2>1. walk \in ListingState /\ Sound(walk)
      BY DEF FolderIInv, FolderTypeOK, ListingState
    <2>2. CASE walk.pc \in {"pages", "roles", "well_known", "listed"}
      <3> DEFINE next == [walk EXCEPT !.disturbed = TRUE]
      <3>1. listing'[l] = next
        BY <2>2 DEF MoveFolder
      <3>2. walk \in Walking \/ (walk \in Ended /\ walk.pc = "listed")
        BY <2>1, <2>2 DEF ListingState, Ended
      <3>3. CASE walk \in Walking
        <4>1. /\ next \in Walking /\ next.pc = walk.pc /\ next.disturbed = TRUE
              /\ next.found = walk.found /\ next.pending = walk.pending
              /\ next.seen = walk.seen
          BY <3>3 DEF Walking
        <4> HIDE DEF next
        <4>2. OfFolders(walk) => OfFolders(listing[l])'
          BY <3>1, <4>1 DEF OfFolders
        <4>3. WillFind(listing[l])'
          BY <3>1, <4>1 DEF WillFind
        <4>4. OfAttachments(walk) => OfAttachments(listing[l])'
          BY <3>1, <4>1 DEF OfAttachments
        <4>5. walk.pc \in {"pages", "roles", "well_known"}
          BY <3>3 DEF Walking
        <4> QED BY <2>1, <3>1, <4>1, <4>2, <4>3, <4>4, <4>5 DEF Sound, ListingState
      <3>4. CASE walk \in Ended /\ walk.pc = "listed"
        <4>1. /\ next \in Ended /\ next.pc = "listed" /\ next.disturbed = TRUE
              /\ next.found = walk.found /\ next.roles = walk.roles
          BY <3>4 DEF Ended
        <4> HIDE DEF next
        <4> QED BY <1>1, <2>1, <3>1, <3>4, <4>1 DEF Sound, ListingState
      <3> QED BY <3>2, <3>3, <3>4
    <2>3. CASE walk.pc \notin {"pages", "roles", "well_known", "listed"}
      <3>1. listing'[l] = walk
        BY <2>3 DEF MoveFolder
      <3> QED BY <2>1, <2>3, <3>1 DEF Sound
    <2> QED BY <2>2, <2>3
  <1>3. listing' \in [Lister -> ListingState]
    <2>1. listing' = [l \in Lister |-> listing'[l]]
      BY DEF MoveFolder
    <2> QED BY <1>2, <2>1
  <1>4. FolderTypeOK'
    BY <1>1, <1>3 DEF FolderIInv, FolderTypeOK, ListingState
  <1> QED BY <1>1, <1>2, <1>4 DEF FolderIInv

LEMMA FolderIInvInit == FolderInit => FolderIInv
  <1> SUFFICES ASSUME FolderInit PROVE FolderIInv
    OBVIOUS
  <1>1. \A l \in Lister : Sound(listing[l])
    BY DEF FolderInit, Sound
  <1>2. FolderTypeOK
    BY FS_EmptySet DEF FolderInit, FolderTypeOK
  <1> QED BY <1>1, <1>2 DEF FolderIInv, FolderInit

LEMMA FolderIInvNext == FolderIInv /\ [FolderNext]_folderVars => FolderIInv'
  <1> SUFFICES ASSUME FolderIInv, [FolderNext]_folderVars PROVE FolderIInv'
    OBVIOUS
  <1>1. ASSUME NEW l \in Lister, NEW of \in {Root, Attachments}, StartListing(l, of)
        PROVE  FolderIInv'
    BY <1>1, StartListingKeeps
  <1>2. ASSUME NEW l \in Lister, ListingStep(l) PROVE FolderIInv'
    <2>1. CASE VisitPage(l)
      BY <2>1, VisitPageKeeps
    <2>2. CASE RefuseVisit(l)
      <3>1. oddities' \in 0..MaxOddities
        BY <2>2 DEF RefuseVisit, FolderIInv, FolderTypeOK
      <3> QED BY <2>2, <3>1, FailedIsSound, OneListing DEF RefuseVisit, Fails
    <2>3. CASE EndPages(l)
      BY <2>3, EndPagesKeeps
    <2>4. CASE ReadRoles(l)
      BY <2>4, ReadRolesKeeps
    <2>5. CASE AskWellKnown(l)
      BY <2>5, AskWellKnownKeeps
    <2> QED BY <1>2, <2>1, <2>2, <2>3, <2>4, <2>5 DEF ListingStep
  <1>3. ASSUME NEW l \in Lister, FailRequest(l) PROVE FolderIInv'
    <2>1. oddities' \in 0..MaxOddities
      BY <1>3, OddOnce DEF FailRequest, FolderIInv
    <2> QED BY <1>3, <2>1, FailedIsSound, OneListing DEF FailRequest, Fails
  <1>4. ASSUME NEW f \in GraphFolder, NEW to \in GraphFolder \cup {Root}, MoveFolder(f, to)
        PROVE  FolderIInv'
    BY <1>4, MoveFolderKeeps
  <1>6. ASSUME NEW l \in Lister, WaitForGoa(l) PROVE FolderIInv'
    <2>1. oddities' \in 0..MaxOddities
      BY <1>6, OddOnce DEF WaitForGoa, FolderIInv
    <2> QED BY <1>6, <2>1, HungIsSound, OneListing DEF WaitForGoa
  <1>5. CASE UNCHANGED folderVars
    <2>1. FolderTypeOK' /\ roleIds' \subseteq {wellKnown'}
      BY <1>5 DEF folderVars, FolderIInv, FolderTypeOK, IsTree
    <2>2. ASSUME NEW l \in Lister PROVE Sound(listing[l])'
      BY <1>5, SoundKept DEF folderVars, FolderIInv
    <2> QED BY <2>1, <2>2 DEF FolderIInv
  <1> QED BY <1>1, <1>2, <1>3, <1>4, <1>5, <1>6 DEF FolderNext

\* Every reachable state of the listings has the declared types; the folders stay a
\* tree, and a provider knows one set of well-known folders.
THEOREM FolderTypeCorrect == FolderSpec => []FolderTypeOK
  <1>1. FolderIInv => FolderTypeOK
    BY DEF FolderIInv
  <1> QED BY <1>1, FolderIInvInit, FolderIInvNext, PTL DEF FolderSpec

\* A listing that succeeds has every visible folder once, or every attachment,
\* whatever links the server sent and whoever lists at the same time.
THEOREM ListingComplete == FolderSpec => []ListsTree
  <1>1. FolderIInv => ListsTree
    BY DEF FolderIInv, Sound, ListsTree, UpTo
  <1> QED BY <1>1, FolderIInvInit, FolderIInvNext, PTL DEF FolderSpec

=============================================================================
