---------------------------- MODULE ImapSession ----------------------------
(***************************************************************************)
(* The pooled IMAP connections of one account (AsyncImapTransport) and the *)
(* requests that share them.                                               *)
(*                                                                         *)
(* An account has one connection for mailbox work and one for message      *)
(* bodies, its lanes.  A lane is a mutex that holds an authenticated       *)
(* session or nothing; an operation holds the mutex from before it         *)
(* connects until its last command is answered.  A lost connection or a    *)
(* command that times out empties the lane, and an operation that only     *)
(* reads is then tried once more.  A request is a sequence of operations.  *)
(*                                                                         *)
(* The server holds one message the requests are about, which the requests *)
(* know by the id it had in the first generation of its mailbox.  A        *)
(* command is executed by the server some time after it was sent, also     *)
(* when nobody waits for its answer any more.                              *)
(***************************************************************************)
EXTENDS Integers, Sequences, FiniteSets

CONSTANTS
    ImapRequest,    \* requests to the account's provider
    MaxImapFaults   \* bound: lost connections, time-outs, refusals, aborts, renumberings

Free == "free"

ASSUME ImapAssumption ==
    /\ Free \notin ImapRequest
    /\ MaxImapFaults \in Nat

VARIABLES
    serverCaps,     \* which of MOVE and UIDPLUS the server has (external)
    mail,           \* the message at the server (external)
    validity,       \* the mailbox's UIDVALIDITY (external)
    archive,        \* the server's archive folder (external)
    late,           \* commands sent that nobody waits for (external)
    session,        \* the session in each lane
    owner,          \* who holds each lane's mutex
    special,        \* SpecialUseMailboxes.archive
    req,            \* what each request is doing
    applied,        \* history: how often a request changed the server
    imapFaults

imapVars == <<serverCaps, mail, validity, archive, late, session, owner, special, req,
              applied, imapFaults>>
-----------------------------------------------------------------------------
Lane == {"session", "detail_session"}

\* "unanswered": the answer to a command of an aborted request is still to come.
NoSession == [open |-> FALSE, alive |-> FALSE, unanswered |-> FALSE]
Session == [open : BOOLEAN, alive : BOOLEAN, unanswered : BOOLEAN]
Fresh == [open |-> TRUE, alive |-> TRUE, unanswered |-> FALSE]

\* Names the archive folder has had; it may be renamed once.
Folder == {"archive", "renamed"}
NoFolder == "none"

\* The operations on a session, and the requests made of them.
Operation == {"list", "status", "select", "store", "move", "fetch"}

Kind == {"mark_read", "archive", "get", "list"}

LaneOf(op) == IF op = "fetch" THEN "detail_session" ELSE "session"

\* Mutant of RetrySafe: every operation is tried again.
RetrySafeAlways(op) == TRUE

\* The retry_safe argument of run_session_operation.
RetrySafe(op) == op \notin {"store", "move"}

\* Mutant of Commands: the message is deleted before it is copied.
CommandsDeleteFirst(op) ==
    CASE op = "list"   -> <<"LIST">>
      [] op = "status" -> <<"STATUS">>
      [] op = "select" -> <<"SELECT">>
      [] op = "fetch"  -> <<"SELECT", "FETCH">>
      [] op = "store"  -> <<"SELECT", "STORE">>
      [] op = "move" /\ "MOVE" \in serverCaps -> <<"SELECT", "MOVE">>
      [] op = "move" /\ "MOVE" \notin serverCaps -> <<"SELECT", "DELETE", "EXPUNGE", "COPY">>

\* The commands of an operation.  CAPABILITY and the second STATUS read only
\* and are left to the command before them.
Commands(op) ==
    CASE op = "list"   -> <<"LIST">>
      [] op = "status" -> <<"STATUS">>
      [] op = "select" -> <<"SELECT">>
      [] op = "fetch"  -> <<"SELECT", "FETCH">>
      [] op = "store"  -> <<"SELECT", "STORE">>
      [] op = "move" /\ "MOVE" \in serverCaps -> <<"SELECT", "MOVE">>
      [] op = "move" /\ "MOVE" \notin serverCaps ->
            <<"SELECT", "COPY", "DELETE">>
                \o (IF "UIDPLUS" \in serverCaps THEN <<"EXPUNGE">> ELSE <<>>)

Command == {"LIST", "STATUS", "SELECT", "FETCH", "STORE", "MOVE", "COPY", "DELETE", "EXPUNGE"}

\* The commands that must not be sent twice for one request.
Mutation == {"STORE", "MOVE", "COPY"}

Idle == [pc |-> "idle"]

\* "todo" are the operations still to do, the current one first; "to" the folder
\* an archive found; "chosen" the UIDVALIDITY the last SELECT answered; "read"
\* the generation of the message a FETCH answered.
Working ==
    [pc : {"lock", "sent", "served"}, kind : Kind,
     todo : Seq(Operation), at : 1..4, retried : BOOLEAN,
     to : Folder \cup {NoFolder}, chosen : Nat, read : Nat]

Settled ==
    [pc : {"answered"}, kind : Kind, ok : BOOLEAN, read : Nat] \cup [pc : {"aborted"}, kind : Kind]

ImapTypeOK ==
    /\ serverCaps \subseteq {"MOVE", "UIDPLUS"}
    /\ mail \in [source : {"there", "deleted", "gone"}, copies : Nat]
    /\ validity \in 1..2
    /\ archive \in Folder
    /\ late \subseteq [req : ImapRequest, cmd : Command, to : Folder \cup {NoFolder},
                       lane : Lane \cup {Free}]
    /\ session \in [Lane -> Session]
    /\ owner \in [Lane -> ImapRequest \cup {Free}]
    /\ special \in Folder \cup {NoFolder}
    /\ req \in [ImapRequest -> {Idle} \cup Working \cup Settled]
    /\ \A l \in Lane, r \in ImapRequest :
         owner[l] = r <=> /\ req[r].pc \in {"sent", "served"}
                          /\ LaneOf(req[r].todo[1]) = l
    /\ applied \in [ImapRequest -> Nat]
    /\ imapFaults \in 0..MaxImapFaults

ImapInit ==
    /\ serverCaps \in {{"MOVE"}, {"UIDPLUS"}, {}}
    /\ mail = [source |-> "there", copies |-> 0]
    /\ validity = 1
    /\ archive = "archive"
    /\ late = {}
    /\ session = [l \in Lane |-> NoSession]
    /\ owner = [l \in Lane |-> Free]
    /\ special = NoFolder
    /\ req = [r \in ImapRequest |-> Idle]
    /\ applied = [r \in ImapRequest |-> 0]
    /\ imapFaults = 0

-----------------------------------------------------------------------------
(* A request and the lane of its current operation                         *)

Current(r) == req[r].todo[1]

LaneFor(r) == LaneOf(Current(r))

CommandOf(r) == Commands(Current(r))[req[r].at]

Fault == imapFaults < MaxImapFaults /\ imapFaults' = imapFaults + 1

\* An archive looks the folder up only when no listing has told it yet.
Program(kind) ==
    CASE kind = "mark_read" -> <<"select", "store">>
      [] kind = "get"       -> <<"fetch">>
      [] kind = "list"      -> <<"list", "status">>
      [] kind = "archive"   ->
            IF special = NoFolder THEN <<"list", "status", "select", "move">>
                                  ELSE <<"select", "move">>

Begin(r, kind) ==
    /\ req[r] = Idle
    /\ req' = [req EXCEPT ![r] =
                 [pc |-> "lock", kind |-> kind, todo |-> Program(kind), at |-> 1,
                  retried |-> FALSE, to |-> special, chosen |-> 0, read |-> 0]]
    /\ UNCHANGED <<serverCaps, mail, validity, archive, late, session, owner, special,
                   applied, imapFaults>>

\* The mutex is free.  A session in the lane is used as it is, dead or not; an
\* empty lane is connected first.  The operation's first command goes out.
LockSession(r) ==
    /\ req[r].pc = "lock"
    /\ owner[LaneFor(r)] = Free
    /\ owner' = [owner EXCEPT ![LaneFor(r)] = r]
    /\ session' = [session EXCEPT ![LaneFor(r)] = IF @.open THEN @ ELSE Fresh]
    /\ req' = [req EXCEPT ![r].pc = "sent"]
    /\ UNCHANGED <<serverCaps, mail, validity, archive, late, special, applied, imapFaults>>

Answered(r, ok) == [pc |-> "answered", kind |-> req[r].kind, ok |-> ok, read |-> req[r].read]

\* What a failed or timed-out connection makes of the request; the mutex is
\* released either way (session_error_action).
RetryOrFail(r) ==
    IF RetrySafe(Current(r)) /\ ~req[r].retried
    THEN [req[r] EXCEPT !.pc = "lock", !.at = 1, !.retried = TRUE]
    ELSE Answered(r, FALSE)

\* An authentication failure is not retried.
ConnectFails(r) ==
    /\ req[r].pc = "lock"
    /\ owner[LaneFor(r)] = Free
    /\ ~session[LaneFor(r)].open
    /\ Fault
    /\ \E next \in {RetryOrFail(r), Answered(r, FALSE)} : req' = [req EXCEPT ![r] = next]
    /\ UNCHANGED <<serverCaps, mail, validity, archive, late, session, owner, special, applied>>

-----------------------------------------------------------------------------
(* The server (external)                                                   *)

\* A command about an earlier generation of the mailbox finds other messages.
Effect(cmd, to) ==
    IF validity # 1 THEN mail
    ELSE CASE cmd = "MOVE" /\ mail.source # "gone" ->
                 [mail EXCEPT !.source = "gone", !.copies = @ + 1]
           [] cmd = "COPY" /\ mail.source # "gone" -> [mail EXCEPT !.copies = @ + 1]
           [] cmd = "DELETE" /\ mail.source # "gone" -> [mail EXCEPT !.source = "deleted"]
           [] cmd = "EXPUNGE" /\ mail.source = "deleted" -> [mail EXCEPT !.source = "gone"]
           [] OTHER -> mail

Refused(cmd, to) == cmd \in {"MOVE", "COPY"} /\ to # archive

Counted(r, cmd) ==
    applied' = [applied EXCEPT ![r] = IF cmd \in Mutation THEN @ + 1 ELSE @]

\* Commands of one connection are executed in the order they were sent.
Serve(r) ==
    /\ req[r].pc = "sent"
    /\ session[LaneFor(r)].alive
    /\ \A e \in late : e.lane # LaneFor(r)
    /\ ~Refused(CommandOf(r), req[r].to)
    /\ mail' = Effect(CommandOf(r), req[r].to)
    /\ Counted(r, CommandOf(r))
    /\ req' = [req EXCEPT ![r].pc = "served",
                 ![r].chosen = IF CommandOf(r) = "SELECT" THEN validity ELSE @,
                 ![r].read = IF CommandOf(r) = "FETCH" THEN validity ELSE @,
                 ![r].to = IF CommandOf(r) = "LIST" THEN archive ELSE @]
    /\ UNCHANGED <<serverCaps, validity, archive, late, session, owner, special, imapFaults>>

\* The answer nobody waited for comes when its command is executed.
ServeLate(e) ==
    /\ e \in late
    /\ late' = late \ {e}
    /\ IF Refused(e.cmd, e.to)
       THEN UNCHANGED <<mail, applied>>
       ELSE mail' = Effect(e.cmd, e.to) /\ Counted(e.req, e.cmd)
    /\ UNCHANGED <<serverCaps, validity, archive, session, owner, special, req, imapFaults>>

\* The commands under way, when the connection of a lane is no more.
Orphaned(l) == {[e EXCEPT !.lane = IF @ = l THEN Free ELSE @] : e \in late}

\* The server closes the connection of a lane.
CloseLane(l) ==
    /\ session[l].alive
    /\ Fault
    /\ session' = [session EXCEPT ![l].alive = FALSE]
    /\ late' = Orphaned(l)
    /\ UNCHANGED <<serverCaps, mail, validity, archive, owner, special, req, applied>>

\* A mailbox does not change its UIDVALIDITY under a session that selected it:
\* that is IMAP's rule for servers, on which fetch_message and move_uids rely
\* between their SELECT and what follows.  So every session ends.
Renumber ==
    /\ validity = 1
    /\ Fault
    /\ validity' = 2
    /\ session' = [l \in Lane |-> [session[l] EXCEPT !.alive = FALSE]]
    /\ late' = {[e EXCEPT !.lane = Free] : e \in late}
    /\ UNCHANGED <<serverCaps, mail, archive, owner, special, req, applied>>

RenameArchive ==
    /\ archive = "archive"
    /\ Fault
    /\ archive' = "renamed"
    /\ UNCHANGED <<serverCaps, mail, validity, late, session, owner, special, req, applied>>

-----------------------------------------------------------------------------
(* The end of a command                                                    *)

\* An answer read to its end leaves nothing unanswered before it.
Settle(l) == session' = [session EXCEPT ![l].unanswered = FALSE]

\* What is left of a command that was sent, not executed, and changes something.
Left(r, lane) ==
    IF req[r].pc = "sent" /\ CommandOf(r) \in Mutation \cup {"DELETE", "EXPUNGE"}
    THEN {[req |-> r, cmd |-> CommandOf(r), to |-> req[r].to, lane |-> lane]}
    ELSE {}

\* The operation failed and its session is not to blame.
Return(r) ==
    /\ req' = [req EXCEPT ![r] = Answered(r, FALSE)]
    /\ owner' = [owner EXCEPT ![LaneFor(r)] = Free]

\* Mutant of Renumbered: fetch_message does not compare UIDVALIDITY.
RenumberedUnlessFetch(r) ==
    /\ req[r].kind \in {"mark_read", "archive"}
    /\ Current(r) = "select"
    /\ CommandOf(r) = "SELECT"
    /\ req[r].chosen # 1

\* validate_ids and fetch_message: the mailbox was renumbered.
Renumbered(r) ==
    /\ req[r].kind \in {"mark_read", "archive", "get"}
    /\ Current(r) \in {"select", "fetch"}
    /\ CommandOf(r) = "SELECT"
    /\ req[r].chosen # 1

NextCommand(r) ==
    /\ req[r].at < Len(Commands(Current(r)))
    /\ req' = [req EXCEPT ![r].pc = "sent", ![r].at = @ + 1]
    /\ UNCHANGED <<owner, special>>

\* The next operation waits for its lane, or the request is answered; a listing
\* is remembered when it is done with its counts.
GoOn(r) ==
    /\ special' = IF Current(r) = "status" THEN req[r].to ELSE special
    /\ req' = [req EXCEPT ![r] =
                 IF Len(req[r].todo) = 1 THEN Answered(r, TRUE)
                 ELSE [req[r] EXCEPT !.pc = "lock", !.at = 1, !.retried = FALSE,
                                     !.todo = Tail(@)]]

NextOperation(r) ==
    /\ req[r].at = Len(Commands(Current(r)))
    /\ owner' = [owner EXCEPT ![LaneFor(r)] = Free]
    /\ GoOn(r)

ReadAnswer(r) ==
    /\ req[r].pc = "served"
    /\ session[LaneFor(r)].alive
    /\ Settle(LaneFor(r))
    /\ \/ /\ Renumbered(r)
          /\ Return(r)
          /\ UNCHANGED special
       \/ /\ ~Renumbered(r)
          /\ NextCommand(r) \/ NextOperation(r)
    /\ UNCHANGED <<serverCaps, mail, validity, archive, late, applied, imapFaults>>

\* The error is the command's own and its session stays.  The counts are best
\* effort: a listing whose STATUS fails goes on without them.
FailCommand(r) ==
    IF Current(r) = "status"
    THEN owner' = [owner EXCEPT ![LaneFor(r)] = Free] /\ GoOn(r)
    ELSE Return(r) /\ UNCHANGED special

\* A NO or BAD.
Refuse(r) ==
    /\ req[r].pc = "sent"
    /\ session[LaneFor(r)].alive
    /\ \A e \in late : e.lane # LaneFor(r)
    /\ IF Refused(CommandOf(r), req[r].to) THEN UNCHANGED imapFaults ELSE Fault
    /\ Settle(LaneFor(r))
    /\ FailCommand(r)
    /\ UNCHANGED <<serverCaps, mail, validity, archive, late, applied>>

\* The NO an aborted request left unread is taken for this command's answer.  (An
\* OK is taken under its own tag only: that one the client library skips.)
MistakeAnswer(r) ==
    /\ req[r].pc \in {"sent", "served"}
    /\ session[LaneFor(r)].alive
    /\ session[LaneFor(r)].unanswered
    /\ Fault
    /\ late' = late \cup Left(r, LaneFor(r))
    /\ FailCommand(r)
    /\ UNCHANGED <<serverCaps, mail, validity, archive, session, applied>>

\* Mutant of Invalidate: the mutex is kept.
InvalidateKeepsLane(r) ==
    /\ session' = [session EXCEPT ![LaneFor(r)] = NoSession]
    /\ \E left \in {Left(r, Free), {}} :
         late' = Orphaned(LaneFor(r)) \cup left
    /\ UNCHANGED owner

\* The session is dropped, and the mutex with it.  The server may have received
\* the command or not.
Invalidate(r) ==
    /\ session' = [session EXCEPT ![LaneFor(r)] = NoSession]
    /\ \E left \in {Left(r, Free), {}} :
         late' = Orphaned(LaneFor(r)) \cup left
    /\ owner' = [owner EXCEPT ![LaneFor(r)] = Free]

\* The connection is lost, or was lost already.
LoseConnection(r) ==
    /\ req[r].pc \in {"sent", "served"}
    /\ session[LaneFor(r)].alive => imapFaults < MaxImapFaults
    /\ imapFaults' = IF session[LaneFor(r)].alive THEN imapFaults + 1 ELSE imapFaults
    /\ Invalidate(r)
    /\ req' = [req EXCEPT ![r] = RetryOrFail(r)]
    /\ UNCHANGED <<serverCaps, mail, validity, archive, special, applied>>

\* A listing whose STATUS times out goes on without the counts, and the
\* connection is not used again.
TimeOut(r) ==
    /\ req[r].pc \in {"sent", "served"}
    /\ Fault
    /\ Invalidate(r)
    /\ IF Current(r) = "status"
       THEN GoOn(r)
       ELSE req' = [req EXCEPT ![r] = RetryOrFail(r)] /\ UNCHANGED special
    /\ UNCHANGED <<serverCaps, mail, validity, archive, applied>>

\* The client disconnects: the request's future is dropped where it waits.  A
\* session in the lane stays there.
Abort(r) ==
    /\ req[r].pc \in {"lock", "sent", "served"}
    /\ Fault
    /\ owner' = [owner EXCEPT ![LaneFor(r)] = IF @ = r THEN Free ELSE @]
    /\ session' = [session EXCEPT ![LaneFor(r)].unanswered =
                     @ \/ req[r].pc \in {"sent", "served"}]
    /\ late' = late \cup (IF session[LaneFor(r)].alive THEN Left(r, LaneFor(r)) ELSE {})
    /\ req' = [req EXCEPT ![r] = [pc |-> "aborted", kind |-> req[r].kind]]
    /\ UNCHANGED <<serverCaps, mail, validity, archive, special, applied>>

Step(r) == LockSession(r) \/ Serve(r) \/ ReadAnswer(r) \/ Refuse(r)
             \/ LoseConnection(r)

ImapNext ==
    \/ \E r \in ImapRequest :
         \/ \E kind \in Kind : Begin(r, kind)
         \/ Step(r)
         \/ ConnectFails(r)
         \/ MistakeAnswer(r)
         \/ TimeOut(r)
         \/ Abort(r)
    \/ \E e \in late : ServeLate(e)
    \/ \E l \in Lane : CloseLane(l)
    \/ Renumber
    \/ RenameArchive

ImapSpec == ImapInit /\ [][ImapNext]_imapVars

\* The server executes what it received and answers; a command nobody answers
\* times out.  An aborted request waits for nothing.
ImapFairness ==
    /\ \A r \in ImapRequest : WF_imapVars(Step(r))
    /\ WF_imapVars(\E e \in late : ServeLate(e))

-----------------------------------------------------------------------------
(* Properties                                                              *)

\* A request changes the server at most once, however often its connection
\* breaks and whenever its commands are executed: run_session_operation repeats
\* no operation that stores flags or moves messages.
MutatesOnce == \A r \in ImapRequest : applied[r] <= 1

\* The message is never in neither mailbox: move_uids copies before it deletes
\* and expunges, wherever the sequence is cut off.
NothingLost == mail.source = "gone" => mail.copies > 0

\* A body that mail.get was answered is of the generation that was asked for,
\* also after a reconnection: fetch_message checks UIDVALIDITY and reads the
\* body in one operation on one session.
BodyOfAsked ==
    \A r \in ImapRequest : req[r].pc = "answered" /\ req[r].kind = "get" /\ req[r].ok
                             => req[r].read = 1

\* Every request is answered or aborted: a lane is given back on every path and
\* an operation is repeated once at most.
ImapAtRest == \A r \in ImapRequest : req[r].pc \in {"idle", "answered", "aborted"}

=============================================================================
