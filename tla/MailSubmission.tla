--------------------------- MODULE MailSubmission ---------------------------
(***************************************************************************)
(* mail.send: from the outgoing operation to the delivery and the removal  *)
(* of the draft, over each of the transports an account can have.          *)
(*                                                                         *)
(* The daemon writes a pending operation, has the provider send, settles   *)
(* the operation and removes the draft.  A password account submits over   *)
(* lettre, a GNOME account over one pooled XOAUTH2 connection that is      *)
(* tried again only if it was reused and failed before DATA, a Microsoft   *)
(* account by writing a draft at the server and sending it.  A client that *)
(* disconnects drops its request where it waits, which may be in the       *)
(* middle of an SMTP transaction; the connection stays in the pool.        *)
(*                                                                         *)
(* Commands and replies on the pooled connection have a deadline each, but *)
(* not the TLS handshake that opens it nor the access token it needs, and  *)
(* both are awaited under the pool's mutex.                                *)
(***************************************************************************)
EXTENDS Integers, Sequences, FiniteSets

CONSTANTS
    SendRequest,    \* the mail.send requests
    Draft,          \* saved drafts
    DraftOf,        \* the draft each request names, or NoDraft
    Replying,       \* the requests that answer a message
    MaxEdits,       \* bound: drafts saved or deleted by the user
    MaxSendFaults   \* bound: lost connections, refusals, aborts, crashes

NoDraft == "none"

Unheld == "unheld"

ASSUME SendAssumption ==
    /\ Unheld \notin SendRequest
    /\ DraftOf \in [SendRequest -> Draft \cup {NoDraft}]
    /\ Replying \subseteq SendRequest
    /\ MaxEdits \in Nat
    /\ MaxSendFaults \in Nat

VARIABLES
    transport,      \* how the account sends; the factory chose it
    drafts,         \* table drafts
    sendOps,        \* table operations: the state of each request's row
    send,           \* what each request is doing
    pool,           \* Xoauth2SmtpTransport.connection
    poolOwner,      \* who holds its mutex
    smtp,           \* the pooled connection's other end (external)
    graphDraft,     \* the drafts of a Microsoft account (external)
    delivered,      \* messages accepted for delivery (external)
    userRemoved,    \* history: drafts the user deleted
    edits,
    sendFaults

sendVars == <<transport, drafts, sendOps, send, pool, poolOwner, smtp, graphDraft, delivered,
              userRemoved, edits, sendFaults>>
-----------------------------------------------------------------------------
Transport == {"lettre", "xoauth2", "graph", "missing"}

\* The steps of an SMTP transaction.  "END" is the final dot and its answer.
Stage == {"MAIL", "RCPT", "DATA", "BODY", "END"}

\* The reply a stage expects.
Expected(stage) == IF stage = "DATA" THEN 354 ELSE 250

Reply == {250, 354, 503, 550}

\* What the server makes of the pooled connection: the phase of its mail
\* transaction, whose envelope it took, the text it took as the message, and
\* the replies the client has not read.  "line" is a command taken as text and
\* "part" a message cut off.  "pending" is a final dot the client has written
\* and not flushed.
Quiet == [phase |-> "idle", env |-> NoDraft, text |-> <<>>, replies |-> <<>>,
          pending |-> FALSE, alive |-> TRUE]

Connection ==
    [phase : {"idle", "mail", "rcpt", "data"}, env : SendRequest \cup {NoDraft},
     text : Seq(SendRequest \cup {"part", "line"}), replies : Seq(Reply), pending : BOOLEAN,
     alive : BOOLEAN]

\* "hung": an answer is awaited that never comes, without a deadline.
Waiting == {"parent", "lettre", "lock", "connect", "write", "flush", "read", "create", "update",
            "submit", "hung"}

SendState ==
    [pc : {"idle", "aborted"}]
        \cup [pc : Waiting, stage : Stage, reused : BOOLEAN, attempt : 0..1]
        \cup [pc : {"sent", "failed", "settled"}]
        \cup [pc : {"answered"}, ok : BOOLEAN]

SendTypeOK ==
    /\ transport \in Transport
    /\ drafts \subseteq Draft
    /\ sendOps \in [SendRequest -> {"none", "pending", "succeeded", "failed"}]
    /\ send \in [SendRequest -> SendState]
    /\ pool \in BOOLEAN
    /\ poolOwner \in SendRequest \cup {Unheld}
    /\ smtp \in Connection
    /\ graphDraft \in [SendRequest -> {"none", "empty", "written", "sent"}]
    /\ delivered \in Seq([env : SendRequest, text : Seq(SendRequest \cup {"part", "line"})])
    /\ userRemoved \subseteq Draft
    /\ edits \in 0..MaxEdits
    /\ sendFaults \in 0..MaxSendFaults

\* "missing": the provider could not be restored.
SendInit ==
    /\ transport \in Transport
    /\ drafts = Draft
    /\ sendOps = [r \in SendRequest |-> "none"]
    /\ send = [r \in SendRequest |-> [pc |-> "idle"]]
    /\ pool = FALSE
    /\ poolOwner = Unheld
    /\ smtp = Quiet
    /\ graphDraft = [r \in SendRequest |-> "none"]
    /\ delivered = <<>>
    /\ userRemoved = {}
    /\ edits = 0
    /\ sendFaults = 0

-----------------------------------------------------------------------------
(* The request: operation, provider, draft                                 *)

SendFault == sendFaults < MaxSendFaults /\ sendFaults' = sendFaults + 1

At(pc) == [pc |-> pc, stage |-> "MAIL", reused |-> FALSE, attempt |-> 0]

\* An answer to a message takes the Message-ID of its parent over IMAP first.
FirstStep(r) ==
    CASE transport = "graph"   -> At("create")
      [] transport # "graph" /\ r \in Replying -> At("parent")
      [] transport = "lettre" /\ r \notin Replying -> At("lettre")
      [] transport = "xoauth2" /\ r \notin Replying -> At("lock")

\* queue_outgoing commits before the provider is looked up: without a provider
\* the operation stays pending.
QueueOutgoing(r) ==
    /\ send[r].pc = "idle"
    /\ sendOps' = [sendOps EXCEPT ![r] = "pending"]
    /\ send' = [send EXCEPT ![r] = IF transport = "missing"
                                   THEN [pc |-> "answered", ok |-> FALSE]
                                   ELSE FirstStep(r)]
    /\ UNCHANGED <<transport, drafts, pool, poolOwner, smtp, graphDraft, delivered,
                   userRemoved, edits, sendFaults>>

FetchParent(r) ==
    /\ send[r].pc = "parent"
    /\ \/ /\ send' = [send EXCEPT ![r] = At(IF transport = "lettre" THEN "lettre" ELSE "lock")]
          /\ UNCHANGED sendFaults
       \/ SendFault /\ send' = [send EXCEPT ![r] = [pc |-> "failed"]]
    /\ UNCHANGED <<transport, drafts, sendOps, pool, poolOwner, smtp, graphDraft, delivered,
                   userRemoved, edits>>

\* finish_operation settles the row with the provider's answer.
FinishOperation(r) ==
    /\ send[r].pc \in {"sent", "failed"}
    /\ sendOps' = [sendOps EXCEPT ![r] = IF send[r].pc = "sent" THEN "succeeded" ELSE "failed"]
    /\ send' = [send EXCEPT ![r] = IF send[r].pc = "sent" THEN [pc |-> "settled"]
                                   ELSE [pc |-> "answered", ok |-> FALSE]]
    /\ UNCHANGED <<transport, drafts, pool, poolOwner, smtp, graphDraft, delivered,
                   userRemoved, edits, sendFaults>>

\* A draft that is gone already, or cannot be deleted, does not fail the send.
RemoveDraft(r) ==
    /\ send[r].pc = "settled"
    /\ \/ drafts' = drafts \ {DraftOf[r]} /\ UNCHANGED sendFaults
       \/ SendFault /\ UNCHANGED drafts
    /\ send' = [send EXCEPT ![r] = [pc |-> "answered", ok |-> TRUE]]
    /\ UNCHANGED <<transport, sendOps, pool, poolOwner, smtp, graphDraft, delivered,
                   userRemoved, edits>>

Deliver(r, text) == delivered' = Append(delivered, [env |-> r, text |-> text])

-----------------------------------------------------------------------------
(* Password accounts: lettre (external)                                    *)

SubmitLettre(r) ==
    /\ send[r].pc = "lettre"
    /\ \/ Deliver(r, <<r>>) /\ send' = [send EXCEPT ![r] = [pc |-> "sent"]]
          /\ UNCHANGED sendFaults
       \/ SendFault /\ send' = [send EXCEPT ![r] = [pc |-> "failed"]]
          /\ (UNCHANGED delivered \/ Deliver(r, <<r>>))
    /\ UNCHANGED <<transport, drafts, sendOps, pool, poolOwner, smtp, graphDraft, userRemoved,
                   edits>>

-----------------------------------------------------------------------------
(* GNOME accounts: the pooled XOAUTH2 connection                           *)

\* The mutex is taken, and kept until the request is done with the connection.
\* An open connection is used as it is.
TakePool(r) ==
    /\ send[r].pc = "lock"
    /\ poolOwner = Unheld
    /\ poolOwner' = r
    /\ send' = [send EXCEPT ![r].pc = IF pool THEN "write" ELSE "connect", ![r].stage = "MAIL",
                            ![r].reused = pool]
    /\ UNCHANGED <<transport, drafts, sendOps, pool, smtp, graphDraft, delivered, userRemoved,
                   edits, sendFaults>>

\* TCP, TLS, EHLO, the access token and AUTH.
Connect(r) ==
    /\ send[r].pc = "connect"
    /\ pool' = TRUE
    /\ smtp' = Quiet
    /\ send' = [send EXCEPT ![r].pc = "write", ![r].stage = "MAIL", ![r].reused = FALSE]
    /\ UNCHANGED <<transport, drafts, sendOps, poolOwner, graphDraft, delivered, userRemoved,
                   edits, sendFaults>>

\* One of them fails; so does a TCP connection, a line or a reply after 30 seconds.
ConnectRefused(r) ==
    /\ send[r].pc = "connect"
    /\ SendFault
    /\ poolOwner' = Unheld
    /\ send' = [send EXCEPT ![r] = [pc |-> "failed"]]
    /\ UNCHANGED <<transport, drafts, sendOps, pool, smtp, graphDraft, delivered, userRemoved,
                   edits>>

\* What the server answers a command line, and its phase after it (external).
Accepts(stage, phase) ==
    \/ stage = "MAIL" /\ phase = "idle"
    \/ stage = "RCPT" /\ phase \in {"mail", "rcpt"}
    \/ stage = "DATA" /\ phase = "rcpt"

PhaseAfter(stage) == CASE stage = "MAIL" -> "mail" [] stage = "RCPT" -> "rcpt" [] stage = "DATA" -> "data"

\* A line that arrives inside a message is text of that message.
Heard(c, r, stage, refuse) ==
    CASE ~c.alive -> c
      [] c.alive /\ c.phase = "data" -> [c EXCEPT !.text = Append(@, "line")]
      [] c.alive /\ c.phase # "data" /\ refuse -> [c EXCEPT !.replies = Append(@, 550)]
      [] c.alive /\ c.phase # "data" /\ ~refuse /\ ~Accepts(stage, c.phase) ->
            [c EXCEPT !.replies = Append(@, 503)]
      [] c.alive /\ c.phase # "data" /\ ~refuse /\ Accepts(stage, c.phase) ->
            [c EXCEPT !.replies = Append(@, Expected(stage)), !.phase = PhaseAfter(stage),
                      !.env = IF stage = "MAIL" THEN r ELSE @, !.text = <<>>]

\* The dot ends a message; anywhere else it is no command.
Completes(c) == c.pending /\ c.alive /\ c.phase = "data"

AfterDot(c, refuse) ==
    LET rest == [c EXCEPT !.pending = FALSE]
    IN  CASE ~c.pending \/ ~c.alive -> rest
          [] Completes(c) -> [rest EXCEPT !.phase = "idle", !.text = <<>>, !.env = NoDraft,
                                          !.replies = Append(@, IF refuse THEN 550 ELSE 250)]
          [] OTHER -> [rest EXCEPT !.replies = Append(@, 503)]

Flushed(refuse) ==
    IF Completes(smtp) /\ ~refuse THEN Deliver(smtp.env, smtp.text) ELSE UNCHANGED delivered

NextStage(stage) ==
    CASE stage = "MAIL" -> "RCPT" [] stage = "RCPT" -> "DATA" [] stage = "DATA" -> "BODY"

\* Mutant of WriteLine: the next line follows without waiting for a reply.
WriteLinePipelined(r) ==
    /\ send[r].pc = "write"
    /\ send[r].stage \in {"MAIL", "RCPT", "DATA"}
    /\ \E refuse \in BOOLEAN :
         /\ IF refuse THEN SendFault ELSE UNCHANGED sendFaults
         /\ smtp' = Heard(AfterDot(smtp, FALSE), r, send[r].stage, refuse)
    /\ Flushed(FALSE)
    /\ send' = [send EXCEPT ![r].stage = NextStage(@)]
    /\ UNCHANGED <<transport, drafts, sendOps, pool, poolOwner, graphDraft, userRemoved, edits>>

\* smtp_line: what an earlier request left in the buffer goes out first.
WriteLine(r) ==
    /\ send[r].pc = "write"
    /\ send[r].stage \in {"MAIL", "RCPT", "DATA"}
    /\ \E refuse \in BOOLEAN :
         /\ IF refuse THEN SendFault ELSE UNCHANGED sendFaults
         /\ smtp' = Heard(AfterDot(smtp, FALSE), r, send[r].stage, refuse)
    /\ Flushed(FALSE)
    /\ send' = [send EXCEPT ![r].pc = "read"]
    /\ UNCHANGED <<transport, drafts, sendOps, pool, poolOwner, graphDraft, userRemoved, edits>>

\* The message and the dot are written, then flushed.
WriteBody(r) ==
    /\ send[r].pc = "write"
    /\ send[r].stage = "BODY"
    /\ smtp' = IF smtp.alive /\ smtp.phase = "data"
               THEN [smtp EXCEPT !.text = Append(@, r), !.pending = TRUE] ELSE smtp
    /\ send' = [send EXCEPT ![r].pc = "flush", ![r].stage = "END"]
    /\ UNCHANGED <<transport, drafts, sendOps, pool, poolOwner, graphDraft, delivered,
                   userRemoved, edits, sendFaults>>

FlushDot(r) ==
    /\ send[r].pc = "flush"
    /\ \E refuse \in BOOLEAN :
         /\ IF refuse THEN SendFault ELSE UNCHANGED sendFaults
         /\ smtp' = AfterDot(smtp, refuse)
         /\ Flushed(refuse)
    /\ send' = [send EXCEPT ![r].pc = "read"]
    /\ UNCHANGED <<transport, drafts, sendOps, pool, poolOwner, graphDraft, userRemoved, edits>>

\* Mutant of AfterData: a failure after DATA is worth a second attempt too.
AfterDataIgnored(stage) == FALSE

\* The error drops the connection.  Only a reused one is worth a second attempt,
\* and only before DATA: after it the message may have been taken.
AfterData(stage) == stage \in {"BODY", "END"}

DropPool(r) ==
    /\ pool' = FALSE
    /\ smtp' = Quiet
    /\ IF AfterData(send[r].stage) \/ ~send[r].reused \/ send[r].attempt = 1
       THEN /\ send' = [send EXCEPT ![r] = [pc |-> "failed"]]
            /\ poolOwner' = Unheld
       ELSE /\ send' = [send EXCEPT ![r].pc = "connect", ![r].attempt = 1]
            /\ UNCHANGED poolOwner

\* Mutant of ReadReply: any reply to the final dot will do.
ReadReplyOfAnyKind(r) ==
    /\ send[r].pc = "read"
    /\ smtp.replies # <<>>
    /\ IF send[r].stage # "END" /\ Head(smtp.replies) # Expected(send[r].stage)
       THEN DropPool(r)
       ELSE /\ smtp' = [smtp EXCEPT !.replies = Tail(@)]
            /\ UNCHANGED pool
            /\ IF send[r].stage = "END"
               THEN send' = [send EXCEPT ![r] = [pc |-> "sent"]] /\ poolOwner' = Unheld
               ELSE /\ send' = [send EXCEPT ![r].pc = "write", ![r].stage = NextStage(@)]
                    /\ UNCHANGED poolOwner
    /\ UNCHANGED <<transport, drafts, sendOps, graphDraft, delivered, userRemoved, edits,
                   sendFaults>>

\* expect_smtp: a reply with the expected code moves on, any other is an error.
ReadReply(r) ==
    /\ send[r].pc = "read"
    /\ smtp.replies # <<>>
    /\ IF Head(smtp.replies) # Expected(send[r].stage)
       THEN DropPool(r)
       ELSE /\ smtp' = [smtp EXCEPT !.replies = Tail(@)]
            /\ UNCHANGED pool
            /\ IF send[r].stage = "END"
               THEN send' = [send EXCEPT ![r] = [pc |-> "sent"]] /\ poolOwner' = Unheld
               ELSE /\ send' = [send EXCEPT ![r].pc = "write", ![r].stage = NextStage(@)]
                    /\ UNCHANGED poolOwner
    /\ UNCHANGED <<transport, drafts, sendOps, graphDraft, delivered, userRemoved, edits,
                   sendFaults>>

\* The write or the read fails, or takes 30 seconds; nothing to wait for does so
\* for certain.
LoseReply(r) ==
    /\ send[r].pc \in {"write", "flush", "read"}
    /\ IF send[r].pc = "read" /\ smtp.replies = <<>> THEN UNCHANGED sendFaults ELSE SendFault
    /\ DropPool(r)
    /\ UNCHANGED <<transport, drafts, sendOps, graphDraft, delivered, userRemoved, edits>>

\* The server closes the connection, and what it answered may be lost with it.
CloseSmtp ==
    /\ pool /\ smtp.alive
    /\ SendFault
    /\ \E left \in {smtp.replies, <<>>} :
         smtp' = [smtp EXCEPT !.alive = FALSE, !.phase = "idle", !.text = <<>>, !.env = NoDraft,
                              !.replies = left]
    /\ UNCHANGED <<transport, drafts, sendOps, send, pool, poolOwner, graphDraft, delivered,
                   userRemoved, edits>>

-----------------------------------------------------------------------------
(* Microsoft accounts: a draft at the server, then its submission          *)

\* A request that waits without a deadline keeps the mutex it has: the pool's or, on
\* the way to Graph, the token cache's.
SomeoneHung == \E q \in SendRequest : send[q].pc = "hung"

\* One request to Graph: it takes effect and answers, or fails with or without
\* having taken effect.
GraphCall(r, effect, next) ==
    /\ ~SomeoneHung
    /\ \/ /\ graphDraft' = [graphDraft EXCEPT ![r] = effect]
          /\ send' = [send EXCEPT ![r] = next]
          /\ UNCHANGED sendFaults
       \/ /\ SendFault
          /\ send' = [send EXCEPT ![r] = [pc |-> "failed"]]
          /\ graphDraft' \in {graphDraft, [graphDraft EXCEPT ![r] = effect]}

CreateDraft(r) ==
    /\ send[r].pc = "create"
    /\ IF r \in Replying THEN GraphCall(r, "empty", At("update"))
                         ELSE GraphCall(r, "written", At("submit"))
    /\ UNCHANGED <<transport, drafts, sendOps, pool, poolOwner, smtp, delivered, userRemoved,
                   edits>>

UpdateDraft(r) ==
    /\ send[r].pc = "update"
    /\ GraphCall(r, "written", At("submit"))
    /\ UNCHANGED <<transport, drafts, sendOps, pool, poolOwner, smtp, delivered, userRemoved,
                   edits>>

SubmitDraft(r) ==
    /\ send[r].pc = "submit"
    /\ GraphCall(r, "sent", [pc |-> "sent"])
    /\ IF graphDraft'[r] = "sent"
       THEN Deliver(r, IF graphDraft[r] = "written" THEN <<r>> ELSE <<>>)
       ELSE UNCHANGED delivered
    /\ UNCHANGED <<transport, drafts, sendOps, pool, poolOwner, smtp, userRemoved, edits>>

-----------------------------------------------------------------------------
(* Silence, disconnections, restarts and the user's own drafts             *)

\* Whoever the request waits for falls silent, and no deadline ends the wait: a
\* server that takes the TCP connection and says nothing in the TLS handshake, GOA
\* before a token for SMTP or for a request to Graph, or lettre, which is given no
\* deadline.  The request keeps the mutex it has.
FallSilent(r) ==
    /\ send[r].pc \in {"connect", "lettre", "create", "update", "submit"}
    /\ SendFault
    /\ send' = [send EXCEPT ![r].pc = "hung"]
    /\ UNCHANGED delivered \/ (send[r].pc = "lettre" /\ Deliver(r, <<r>>))
    /\ UNCHANGED <<transport, drafts, sendOps, pool, poolOwner, smtp, graphDraft, userRemoved,
                   edits>>

\* The client disconnects and its request is dropped where it waits.  A message
\* being written may be cut off; the connection stays in the pool.
AbortSend(r) ==
    /\ send[r].pc \in Waiting \cup {"sent", "failed", "settled"}
    /\ SendFault
    /\ send' = [send EXCEPT ![r] = [pc |-> "aborted"]]
    /\ poolOwner' = IF poolOwner = r THEN Unheld ELSE poolOwner
    /\ smtp' \in {smtp} \cup
         (IF send[r].pc = "write" /\ send[r].stage = "BODY" /\ smtp.alive
          THEN {[smtp EXCEPT !.text = Append(@, "part")]} ELSE {})
    /\ UNCHANGED <<transport, drafts, sendOps, pool, graphDraft, delivered, userRemoved, edits>>

\* The daemon dies: its tables stay, its connection and its requests do not.
CrashSends ==
    /\ \E r \in SendRequest : send[r].pc \notin {"idle", "answered", "aborted"}
    /\ SendFault
    /\ send' = [r \in SendRequest |->
                  IF send[r].pc \in {"idle", "answered"} THEN send[r] ELSE [pc |-> "aborted"]]
    /\ pool' = FALSE
    /\ poolOwner' = Unheld
    /\ smtp' = Quiet
    /\ UNCHANGED <<transport, drafts, sendOps, graphDraft, delivered, userRemoved, edits>>

\* draft.save under an id it has already, and draft.delete.
EditDraft(d) ==
    /\ edits < MaxEdits
    /\ edits' = edits + 1
    /\ \/ drafts' = drafts \cup {d} /\ userRemoved' = userRemoved \ {d}
       \/ d \in drafts /\ drafts' = drafts \ {d} /\ userRemoved' = userRemoved \cup {d}
    /\ UNCHANGED <<transport, sendOps, send, pool, poolOwner, smtp, graphDraft, delivered,
                   sendFaults>>

SendStep(r) ==
    \/ FetchParent(r) \/ FinishOperation(r) \/ RemoveDraft(r) \/ SubmitLettre(r)
    \/ TakePool(r) \/ Connect(r)
    \/ WriteLine(r) \/ WriteBody(r) \/ FlushDot(r) \/ ReadReply(r) \/ LoseReply(r)
    \/ CreateDraft(r) \/ UpdateDraft(r) \/ SubmitDraft(r)

SendNext ==
    \/ \E r \in SendRequest :
         \/ QueueOutgoing(r)
         \/ SendStep(r)
         \/ ConnectRefused(r)
         \/ FallSilent(r)
         \/ AbortSend(r)
    \/ CloseSmtp
    \/ CrashSends
    \/ \E d \in Draft : EditDraft(d)

SendSpec == SendInit /\ [][SendNext]_sendVars

\* A server answers what it hears, and where it does not the deadline of the TCP
\* connection, the write, the read or the request to Graph ends the wait.  Nothing
\* is assumed of a request that waits without a deadline: no step of it is left.
SendFairness == \A r \in SendRequest : WF_sendVars(SendStep(r))

-----------------------------------------------------------------------------
(* Properties                                                              *)

DeliveriesOf(r) == {i \in DOMAIN delivered : delivered[i].env = r}

\* One mail.send delivers its message at most once, however its connection breaks
\* and whatever an earlier request left on it: send repeats a transaction only
\* before DATA was answered.
DeliveredOnce == \A r \in SendRequest : Cardinality(DeliveriesOf(r)) <= 1

\* What is delivered is one request's message under that request's envelope, never
\* a part of one, nor a command or another message appended to it: a transaction
\* cut off in the pool is noticed before the next one sends its text.
NeverMixed == \A i \in DOMAIN delivered : delivered[i].text = <<delivered[i].env>>

\* Only a delivered message counts as sent: its operation succeeds, its draft is
\* removed and no copy of it is left at a Microsoft account's server.
SentMeansDelivered ==
    /\ \A r \in SendRequest :
         sendOps[r] = "succeeded" =>
            /\ DeliveriesOf(r) # {}
            /\ transport = "graph" => graphDraft[r] = "sent"
    /\ \A d \in Draft \ (drafts \cup userRemoved) :
         \E r \in SendRequest : DraftOf[r] = d /\ DeliveriesOf(r) # {}

\* A request that waits without a deadline, and those that wait for what it keeps:
\* the pool's mutex, or the token cache's on the way to Graph.
HeldUp(r) ==
    \/ send[r].pc = "hung"
    \/ send[r].pc \in {"lock", "create", "update", "submit"} /\ SomeoneHung

\* Every mail.send is answered, dropped or held up by one that waits without a
\* deadline: the pool's mutex is released on every other path, and the second
\* attempt is the last.
SendAtRest ==
    \A r \in SendRequest : send[r].pc \in {"idle", "answered", "aborted"} \/ HeldUp(r)

=============================================================================
