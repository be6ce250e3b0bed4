---------------------------- MODULE GraphRequest ----------------------------
(***************************************************************************)
(* mail.action over several Microsoft accounts: access tokens, authorized  *)
(* requests and the batch of messages.                                     *)
(*                                                                         *)
(* An account's provider has one token source, a cache behind a mutex that *)
(* GNOME Online Accounts (GOA) fills.  Every request takes a token, cached *)
(* or new; a request the server answers with 401 is sent once more with a  *)
(* token that did not come from the cache.  An action is recorded, then    *)
(* its messages are changed at their servers one request at a time,        *)
(* account by account, up to the first error, and only an action without   *)
(* error is applied to the local rows.                                     *)
(***************************************************************************)
EXTENDS Integers, Sequences, FiniteSets

CONSTANTS
    ActionRequest,    \* the mail.action requests
    ActionMessage,    \* the messages each of them is about
    GraphAccount,     \* Microsoft accounts
    AccountOf,        \* the account of each message
    MaxActionFaults   \* bound: revoked tokens, failures, aborts, crashes

Nobody == "nobody"

\* An action without messages is refused (validate_mail_action).
ASSUME ActionAssumption ==
    /\ Nobody \notin ActionRequest
    /\ IsFiniteSet(ActionMessage)
    /\ ActionMessage # {}
    /\ AccountOf \in [ActionMessage -> GraphAccount]
    /\ MaxActionFaults \in Nat

VARIABLES
    goa,            \* per account, the last token GOA issued (external)
    refusedBelow,   \* per account, the oldest token the server takes (external)
    cached,         \* GoaTokenSource.cached
    cacheOwner,     \* who holds its mutex
    action,         \* what each request is doing
    actionOps,      \* table operations: the state of each action's row
    took,           \* per request and message, how often its server changed it (external)
    changedBy,      \* per message, the last action applied to its local row
    actionFaults

actionVars == <<goa, refusedBelow, cached, cacheOwner, action, actionOps, took, changedBy,
                actionFaults>>
-----------------------------------------------------------------------------
\* The tokens of an account are numbered as GOA issues them; there is no token 0.
NoToken == [token |-> 0, fresh |-> FALSE]

\* The orders apply_provider_action can take the messages in: one account after
\* the other, as a hash map yields them.
Batch ==
    {order \in [1..Cardinality(ActionMessage) -> ActionMessage] :
        /\ \A i, j \in DOMAIN order : order[i] = order[j] => i = j
        /\ \A i, j, k \in DOMAIN order :
             i < j /\ j < k /\ AccountOf[order[i]] = AccountOf[order[k]]
                => AccountOf[order[j]] = AccountOf[order[i]]}

\* "hung": GOA is asked and never answers where no deadline is.
Acting ==
    [pc : {"token", "goa", "hung", "send"}, todo : Seq(ActionMessage), force : BOOLEAN, token : Nat,
     refused : Nat]

ActionState ==
    Acting
        \cup [pc : {"idle", "applied", "answered", "failed", "dropped"}]
        \cup [pc : {"unauthorized"}, token : Nat, refused : Nat]

ActionTypeOK ==
    /\ goa \in [GraphAccount -> [issued : Nat, attention : BOOLEAN]]
    /\ refusedBelow \in [GraphAccount -> Nat]
    /\ cached \in [GraphAccount -> [token : Nat, fresh : BOOLEAN]]
    /\ cacheOwner \in [GraphAccount -> ActionRequest \cup {Nobody}]
    /\ action \in [ActionRequest -> ActionState]
    /\ actionOps \in [ActionRequest -> {"none", "pending", "succeeded", "failed"}]
    /\ took \in [ActionRequest -> [ActionMessage -> Nat]]
    /\ changedBy \in [ActionMessage -> ActionRequest \cup {Nobody}]
    /\ actionFaults \in 0..MaxActionFaults

ActionInit ==
    /\ goa = [a \in GraphAccount |-> [issued |-> 1, attention |-> FALSE]]
    /\ refusedBelow = [a \in GraphAccount |-> 1]
    /\ cached = [a \in GraphAccount |-> NoToken]
    /\ cacheOwner = [a \in GraphAccount |-> Nobody]
    /\ action = [r \in ActionRequest |-> [pc |-> "idle"]]
    /\ actionOps = [r \in ActionRequest |-> "none"]
    /\ took = [r \in ActionRequest |-> [m \in ActionMessage |-> 0]]
    /\ changedBy = [m \in ActionMessage |-> Nobody]
    /\ actionFaults = 0

ActionFault == actionFaults < MaxActionFaults /\ actionFaults' = actionFaults + 1

-----------------------------------------------------------------------------
(* The action: recorded, sent, applied                                     *)

ForMessages(order) ==
    [pc |-> "token", todo |-> order, force |-> FALSE, token |-> 0, refused |-> 0]

RecordAction(r) ==
    /\ action[r].pc = "idle"
    /\ actionOps' = [actionOps EXCEPT ![r] = "pending"]
    /\ \E order \in Batch : action' = [action EXCEPT ![r] = ForMessages(order)]
    /\ UNCHANGED <<goa, refusedBelow, cached, cacheOwner, took, changedBy, actionFaults>>

Account(r) == AccountOf[Head(action[r].todo)]

\* Mutant of FinishAction: the local rows are changed whatever the servers said.
FinishActionLocally(r) ==
    /\ action[r].pc \in {"applied", "failed", "unauthorized"}
    /\ actionOps[r] = "pending"
    /\ changedBy' = [m \in ActionMessage |-> r]
    /\ \/ /\ action[r].pc = "applied"
          /\ actionOps' = [actionOps EXCEPT ![r] = "succeeded"]
          /\ action' = [action EXCEPT ![r] = [pc |-> "answered"]]
       \/ /\ action[r].pc # "applied"
          /\ actionOps' = [actionOps EXCEPT ![r] = "failed"]
          /\ UNCHANGED action
    /\ UNCHANGED <<goa, refusedBelow, cached, cacheOwner, took, actionFaults>>

\* finish_mail_action settles the row and changes the local rows in one
\* transaction, the latter only after a success.
FinishAction(r) ==
    /\ action[r].pc \in {"applied", "failed", "unauthorized"}
    /\ actionOps[r] = "pending"
    /\ \/ /\ action[r].pc = "applied"
          /\ actionOps' = [actionOps EXCEPT ![r] = "succeeded"]
          /\ changedBy' = [m \in ActionMessage |-> r]
          /\ action' = [action EXCEPT ![r] = [pc |-> "answered"]]
       \/ /\ action[r].pc # "applied"
          /\ actionOps' = [actionOps EXCEPT ![r] = "failed"]
          /\ UNCHANGED <<changedBy, action>>
    /\ UNCHANGED <<goa, refusedBelow, cached, cacheOwner, took, actionFaults>>

-----------------------------------------------------------------------------
(* A token for the next request (GoaTokenSource.access_token)              *)

\* Mutant of UseCached: a forced token may come from the cache.
UseCachedAnyway(r) == cached[Account(r)].fresh

\* A fresh token comes from the cache, unless the server refused one.
UseCached(r) == ~action[r].force /\ cached[Account(r)].fresh

TakeToken(r) ==
    /\ action[r].pc = "token"
    /\ cacheOwner[Account(r)] = Nobody
    /\ \/ /\ UseCached(r)
          /\ action' = [action EXCEPT ![r].pc = "send", ![r].token = cached[Account(r)].token]
          /\ UNCHANGED cacheOwner
       \/ /\ ~UseCached(r)
          /\ cacheOwner' = [cacheOwner EXCEPT ![Account(r)] = r]
          /\ action' = [action EXCEPT ![r].pc = "goa"]
    /\ UNCHANGED <<goa, refusedBelow, cached, actionOps, took, changedBy, actionFaults>>

\* EnsureCredentials renews a token the server no longer takes (external);
\* GetAccessToken returns the last one.  The cache keeps it.
Renewed(a) == IF goa[a].issued < refusedBelow[a] THEN refusedBelow[a] ELSE goa[a].issued

AskGoa(r) ==
    /\ action[r].pc = "goa"
    /\ ~goa[Account(r)].attention
    /\ goa' = [goa EXCEPT ![Account(r)].issued = Renewed(Account(r))]
    /\ cached' = [cached EXCEPT ![Account(r)] =
                    [token |-> Renewed(Account(r)), fresh |-> TRUE]]
    /\ cacheOwner' = [cacheOwner EXCEPT ![Account(r)] = Nobody]
    /\ action' = [action EXCEPT ![r].pc = "send", ![r].token = Renewed(Account(r))]
    /\ UNCHANGED <<refusedBelow, actionOps, took, changedBy, actionFaults>>

\* GOA wants the user, answers with an error, or takes 15 seconds.
GoaFails(r) ==
    /\ action[r].pc = "goa"
    /\ IF goa[Account(r)].attention THEN UNCHANGED actionFaults ELSE ActionFault
    /\ cacheOwner' = [cacheOwner EXCEPT ![Account(r)] = Nobody]
    /\ action' = [action EXCEPT ![r] = [pc |-> "failed"]]
    /\ UNCHANGED <<goa, refusedBelow, cached, actionOps, took, changedBy>>

\* The session bus or GOA says nothing to what has no deadline: the connection to
\* the bus, the proxies and the property AttentionNeeded.  The request keeps the
\* mutex of the cache.
GoaSilent(r) ==
    /\ action[r].pc = "goa"
    /\ ActionFault
    /\ action' = [action EXCEPT ![r].pc = "hung"]
    /\ UNCHANGED <<goa, refusedBelow, cached, cacheOwner, actionOps, took, changedBy>>

-----------------------------------------------------------------------------
(* The request                                                             *)

Accepted(r) == action[r].token >= refusedBelow[Account(r)]

Changes(r) == took' = [took EXCEPT ![r][Head(action[r].todo)] = @ + 1]

Done(r) ==
    IF Len(action[r].todo) = 1 THEN [pc |-> "applied"] ELSE ForMessages(Tail(action[r].todo))

Answer(r) ==
    /\ action[r].pc = "send"
    /\ Accepted(r)
    /\ Changes(r)
    /\ action' = [action EXCEPT ![r] = Done(r)]
    /\ UNCHANGED <<goa, refusedBelow, cached, cacheOwner, actionOps, changedBy, actionFaults>>

\* 401: once more with a forced token, then an authentication error.
AfterRefusal(r) ==
    IF action[r].force
    THEN [pc |-> "unauthorized", token |-> action[r].token, refused |-> action[r].refused]
    ELSE [action[r] EXCEPT !.pc = "token", !.force = TRUE, !.refused = action[r].token]

Unauthorized(r) ==
    /\ action[r].pc = "send"
    /\ ~Accepted(r)
    /\ action' = [action EXCEPT ![r] = AfterRefusal(r)]
    /\ UNCHANGED <<goa, refusedBelow, cached, cacheOwner, actionOps, took, changedBy,
                   actionFaults>>

\* Any other error, also one that hides what the server did, ends the action.
AfterFailure(r) == [pc |-> "failed"]

LoseAnswer(r) ==
    /\ action[r].pc = "send"
    /\ ActionFault
    /\ (Accepted(r) /\ Changes(r)) \/ UNCHANGED took
    /\ action' = [action EXCEPT ![r] = AfterFailure(r)]
    /\ UNCHANGED <<goa, refusedBelow, cached, cacheOwner, actionOps, changedBy>>

-----------------------------------------------------------------------------
(* Time, the user, disconnections and restarts                             *)

\* The cached token is within 30 seconds of its end.
GrowStale(a) ==
    /\ cached[a].fresh
    /\ cached' = [cached EXCEPT ![a].fresh = FALSE]
    /\ UNCHANGED <<goa, refusedBelow, cacheOwner, action, actionOps, took, changedBy,
                   actionFaults>>

\* The token expires, or the server revokes it before.
Revoke(a) ==
    /\ ActionFault
    /\ refusedBelow[a] <= goa[a].issued
    /\ refusedBelow' = [refusedBelow EXCEPT ![a] = goa[a].issued + 1]
    /\ UNCHANGED <<goa, cached, cacheOwner, action, actionOps, took, changedBy>>

NeedAttention(a) ==
    /\ ~goa[a].attention
    /\ ActionFault
    /\ goa' = [goa EXCEPT ![a].attention = TRUE]
    /\ UNCHANGED <<refusedBelow, cached, cacheOwner, action, actionOps, took, changedBy>>

Unfinished(r) == actionOps[r] = "pending" /\ action[r].pc # "dropped"

\* The client disconnects: the row stays pending, nothing repeats the action.
AbortAction(r) ==
    /\ Unfinished(r)
    /\ ActionFault
    /\ action' = [action EXCEPT ![r] = [pc |-> "dropped"]]
    /\ cacheOwner' = [a \in GraphAccount |-> IF cacheOwner[a] = r THEN Nobody ELSE cacheOwner[a]]
    /\ UNCHANGED <<goa, refusedBelow, cached, actionOps, took, changedBy>>

RestartDaemon ==
    /\ \E r \in ActionRequest : Unfinished(r)
    /\ ActionFault
    /\ action' = [r \in ActionRequest |->
                    IF Unfinished(r) THEN [pc |-> "dropped"] ELSE action[r]]
    /\ cached' = [a \in GraphAccount |-> NoToken]
    /\ cacheOwner' = [a \in GraphAccount |-> Nobody]
    /\ UNCHANGED <<goa, refusedBelow, actionOps, took, changedBy>>

ActionStep(r) ==
    TakeToken(r) \/ AskGoa(r) \/ GoaFails(r) \/ Answer(r) \/ Unauthorized(r) \/ FinishAction(r)

ActionNext ==
    \/ \E r \in ActionRequest :
         RecordAction(r) \/ ActionStep(r) \/ GoaSilent(r) \/ LoseAnswer(r) \/ AbortAction(r)
    \/ \E a \in GraphAccount : GrowStale(a) \/ Revoke(a) \/ NeedAttention(a)
    \/ RestartDaemon

ActionSpec == ActionInit /\ [][ActionNext]_actionVars

\* The server answers, or the timeout of its request does; so does GOA where its
\* calls have a deadline.  A request that GoaSilent holds has no step.
ActionFairness == \A r \in ActionRequest : WF_actionVars(ActionStep(r))

-----------------------------------------------------------------------------
(* Properties                                                              *)

\* A request that fails for its authorization was refused two different tokens,
\* the second newer than the first, also when other requests renew the cache in
\* between: request_with_accept forces the second token past the cache.
RefusedTwice ==
    \A r \in ActionRequest :
        action[r].pc = "unauthorized" => action[r].refused < action[r].token

\* No message is changed twice for one action, whatever answers are lost: only a
\* 401, which changed nothing, is sent again.  A local row shows an action only if
\* the action succeeded as a whole, and one that is recorded as done was done on
\* every server.
LocalFollowsServer ==
    /\ \A r \in ActionRequest, m \in ActionMessage : took[r][m] <= 1
    /\ \A m \in ActionMessage :
         changedBy[m] # Nobody => actionOps[changedBy[m]] = "succeeded"
    /\ \A r \in ActionRequest :
         actionOps[r] = "succeeded" => \A m \in ActionMessage : took[r][m] = 1

\* A request GOA never answers, and those that wait for the mutex it keeps.
HeldByGoa(r) ==
    \/ action[r].pc = "hung"
    \/ /\ action[r].pc = "token"
       /\ \E q \in ActionRequest : cacheOwner[Account(r)] = q /\ action[q].pc = "hung"

\* Every mail.action is settled, dropped or held up by GOA: the token cache is given
\* back on every other path, a refused request is repeated once, and GOA's silence
\* about one account holds up no action that only other accounts are left for.
ActionsAtRest == \A r \in ActionRequest : Unfinished(r) => HeldByGoa(r)

=============================================================================
