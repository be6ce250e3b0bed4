--------------------------- MODULE ImapSmtpProofs ---------------------------
(***************************************************************************)
(* Proofs about the two protocols of imap_smtp.rs, for any requests and    *)
(* any number of faults.  IMAP: no request changes the mailbox twice, no   *)
(* message is lost on its way to the archive, and a body is of the message *)
(* asked for.  SMTP: a message is delivered once at most, whole and alone, *)
(* what counts as sent was delivered, and the operation's row says what    *)
(* the request was told.                                                   *)
(***************************************************************************)
EXTENDS ImapSession, MailSubmission, FiniteSetTheorems, SequenceTheorems, TLAPS

USE ImapAssumption

-----------------------------------------------------------------------------
(* The IMAP session: the inductive invariant                               *)

\* What can be left to do of a request.
Todo ==
    {<<"select", "store">>, <<"store">>, <<"fetch">>, <<"list", "status">>, <<"status">>,
     <<"list", "status", "select", "move">>, <<"status", "select", "move">>,
     <<"select", "move">>, <<"move">>}

Active == {"lock", "sent", "served"}

InLane == {"sent", "served"}

Doing ==
    [pc : Active, kind : Kind, todo : Todo, at : 1..4, retried : BOOLEAN,
     to : Folder \cup {NoFolder}, chosen : Nat, read : Nat]

LateCommand == [req : ImapRequest, cmd : Command, to : Folder \cup {NoFolder},
                lane : Lane \cup {Free}]

\* A request that waits for a lane starts its operation anew.
DoingInv(r) ==
    /\ req[r].at <= Len(Commands(Current(r)))
    /\ req[r].pc = "lock" => req[r].at = 1
    /\ req[r].kind = "get" => req[r].todo = <<"fetch">>

LaneTyped ==
    /\ serverCaps \subseteq {"MOVE", "UIDPLUS"}
    /\ mail \in [source : {"there", "deleted", "gone"}, copies : Nat]
    /\ validity \in 1..2
    /\ archive \in Folder
    /\ late \subseteq LateCommand
    /\ session \in [Lane -> Session]
    /\ owner \in [Lane -> ImapRequest \cup {Free}]
    /\ special \in Folder \cup {NoFolder}
    /\ req \in [ImapRequest -> {Idle} \cup Doing \cup Settled]
    /\ \A r \in ImapRequest : req[r].pc \in Active => DoingInv(r)
    /\ applied \in [ImapRequest -> Nat]
    /\ imapFaults \in 0..MaxImapFaults

\* A lane is held by the request whose commands go over it, and by nobody else.
Owned ==
    \A l \in Lane, r \in ImapRequest :
        owner[l] = r <=> req[r].pc \in InLane /\ LaneFor(r) = l

\* The command that must not be sent twice has been executed.
Mutated(r) ==
    /\ Current(r) \in {"store", "move"}
    /\ req[r].at > 2 \/ (req[r].at = 2 /\ req[r].pc = "served")

\* As long as a request goes on, nothing of it is left over; what it leaves when
\* it ends is not of the kind it has had executed.
OnceInv(r) ==
    /\ applied[r] <= 1
    /\ req[r].pc = "idle" => applied[r] = 0
    /\ req[r].pc \in Active => applied[r] = 0 \/ Mutated(r)
    /\ req[r].pc \in {"idle"} \cup Active => \A e \in late : e.req # r
    /\ \A e \in late : e.req = r /\ e.cmd \in Mutation => applied[r] = 0

\* A request leaves one command behind.
OneEach(commands) == \A e, f \in commands : e.req = f.req => e = f

\* The message has been copied, as the first step of a move.
PastCopy(r) ==
    /\ req[r].pc \in Active
    /\ Current(r) = "move"
    /\ "MOVE" \notin serverCaps
    /\ req[r].at > 2 \/ (req[r].at = 2 /\ req[r].pc = "served")

\* Whoever sends a deletion has had its copy made.
CopyInv ==
    /\ mail.source # "there" => mail.copies > 0
    /\ validity = 1 =>
         /\ \A r \in ImapRequest : PastCopy(r) => mail.copies > 0
         /\ \A e \in late : e.cmd = "DELETE" => mail.copies > 0

\* A session lives in one generation of the mailbox, so that what its SELECT
\* answered is what its FETCH finds.
BodyInv(r) ==
    /\ req[r].pc \in InLane /\ req[r].kind = "get" =>
         /\ req[r].at = 2 => req[r].chosen = 1
         /\ (req[r].at = 2 \/ req[r].pc = "served") /\ session[LaneFor(r)].alive
              => req[r].chosen = validity
         /\ req[r].at = 2 /\ req[r].pc = "served" => req[r].read = 1
    /\ req[r].pc = "answered" /\ req[r].kind = "get" /\ req[r].ok => req[r].read = 1

SessionInv ==
    /\ LaneTyped
    /\ Owned
    /\ \A r \in ImapRequest : OnceInv(r) /\ BodyInv(r)
    /\ OneEach(late)
    /\ CopyInv

-----------------------------------------------------------------------------
(* Operations and their commands                                           *)

LEMMA TodoShape ==
  ASSUME NEW t \in Todo
  PROVE  /\ t \in Seq(Operation) /\ t[1] \in Operation
         /\ Len(t) = 1 \/ (Len(t) # 1 /\ Tail(t) \in Todo)
         /\ t[1] \in {"store", "move", "fetch"} => Len(t) = 1
         /\ t[1] = "fetch" => t = <<"fetch">>
         /\ t = <<"fetch">> => t[1] = "fetch"
  <1>1. ASSUME NEW op \in {"store", "fetch", "status", "move"}, t = <<op>>
        PROVE  t \in Seq(Operation) /\ Len(t) = 1 /\ t[1] = op
    BY <1>1 DEF Operation
  <1>2. ASSUME NEW op \in {"select", "list"}, NEW next \in {"store", "status", "move"},
               t = <<op, next>>
        PROVE  t \in Seq(Operation) /\ Len(t) = 2 /\ t[1] = op /\ Tail(t) = <<next>>
    BY <1>2 DEF Operation
  <1>3. CASE t \in {<<"store">>, <<"fetch">>, <<"status">>, <<"move">>}
    BY <1>1, <1>3 DEF Operation
  <1>4. CASE t \in {<<"select", "store">>, <<"list", "status">>, <<"select", "move">>}
    <2>1. PICK op \in {"select", "list"}, next \in {"store", "status", "move"} : t = <<op, next>>
      BY <1>4
    <2>2. t \in Seq(Operation) /\ Len(t) = 2 /\ t[1] = op /\ Tail(t) = <<next>>
      BY <1>2, <2>1
    <2>3. Tail(t) \in Todo
      BY <2>2 DEF Todo
    <2> QED BY <2>2, <2>3 DEF Operation
  <1>5. CASE t = <<"status", "select", "move">>
    <2>1. t \in Seq(Operation) /\ Len(t) = 3 /\ t[1] = "status" /\ Tail(t) = <<"select", "move">>
      BY <1>5 DEF Operation
    <2> QED BY <2>1 DEF Operation, Todo
  <1>6. CASE t = <<"list", "status", "select", "move">>
    <2>1. /\ t \in Seq(Operation) /\ Len(t) = 4 /\ t[1] = "list"
          /\ Tail(t) = <<"status", "select", "move">>
      BY <1>6 DEF Operation
    <2> QED BY <2>1 DEF Operation, Todo
  <1> QED BY <1>3, <1>4, <1>5, <1>6 DEF Todo

LEMMA ProgramTodo ==
  ASSUME NEW kind \in Kind
  PROVE  Program(kind) \in Todo /\ (kind = "get" => Program(kind) = <<"fetch">>)
  BY DEF Kind, Program, Todo

LEMMA CommandPlaces ==
  ASSUME NEW op \in Operation
  PROVE  /\ Len(Commands(op)) \in 1..4
         /\ op \in {"list", "status", "select"} => Len(Commands(op)) = 1
         /\ op \in {"store", "fetch"} => Len(Commands(op)) = 2
         /\ Commands(op)[1] \in {"LIST", "STATUS", "SELECT"}
         /\ op = "fetch" => Commands(op)[1] = "SELECT" /\ Commands(op)[2] = "FETCH"
         /\ op = "store" => Commands(op)[2] = "STORE"
         /\ op = "move" /\ "MOVE" \in serverCaps =>
              Len(Commands(op)) = 2 /\ Commands(op)[2] = "MOVE"
         /\ op = "move" /\ "MOVE" \notin serverCaps =>
              /\ Len(Commands(op)) >= 3
              /\ Commands(op)[2] = "COPY" /\ Commands(op)[3] = "DELETE"
              /\ Len(Commands(op)) = 4 => Commands(op)[4] = "EXPUNGE"
  <1>1. CASE op # "move"
    BY <1>1 DEF Operation, Commands
  <1>2. CASE op = "move" /\ "MOVE" \in serverCaps
    BY <1>2 DEF Commands
  <1>3. CASE op = "move" /\ "MOVE" \notin serverCaps /\ "UIDPLUS" \in serverCaps
    <2>1. Commands(op) = <<"SELECT", "COPY", "DELETE">> \o <<"EXPUNGE">>
      BY <1>3 DEF Commands
    <2>2. Len(Commands(op)) = 4
      BY <2>1
    <2>3. /\ Commands(op)[1] = "SELECT" /\ Commands(op)[2] = "COPY"
          /\ Commands(op)[3] = "DELETE" /\ Commands(op)[4] = "EXPUNGE"
      BY <2>1
    <2> QED BY <1>3, <2>2, <2>3
  <1>4. CASE op = "move" /\ "MOVE" \notin serverCaps /\ "UIDPLUS" \notin serverCaps
    <2>1. Commands(op) = <<"SELECT", "COPY", "DELETE">> \o <<>>
      BY <1>4 DEF Commands
    <2>2. <<"SELECT", "COPY", "DELETE">> \o <<>> = <<"SELECT", "COPY", "DELETE">>
      OBVIOUS
    <2> QED BY <1>4, <2>1, <2>2
  <1> QED BY <1>1, <1>2, <1>3, <1>4

\* What a command is tells where its request is, and the other way round.
LEMMA CommandAt ==
  ASSUME NEW op \in Operation, NEW at \in 1..4, at <= Len(Commands(op))
  PROVE  /\ Commands(op)[at] \in Command
         /\ at = 1 => Commands(op)[at] \in {"LIST", "STATUS", "SELECT"}
         /\ Commands(op)[at] \in Mutation => op \in {"store", "move"} /\ at = 2
         /\ op \in {"store", "move"} /\ at = 2 => Commands(op)[at] \in Mutation
         /\ Commands(op)[at] = "FETCH" => op = "fetch" /\ at = 2
         /\ Commands(op)[at] = "SELECT" => at = 1
         /\ Commands(op)[at] \in {"DELETE", "EXPUNGE"} =>
              op = "move" /\ "MOVE" \notin serverCaps /\ at > 2
         /\ Commands(op)[at] = "COPY" => op = "move" /\ "MOVE" \notin serverCaps /\ at = 2
         /\ Commands(op)[at] = "MOVE" => op = "move" /\ "MOVE" \in serverCaps
         /\ op = "move" /\ "MOVE" \notin serverCaps /\ at = 2 => Commands(op)[at] = "COPY"
         /\ at > 2 => op = "move" /\ "MOVE" \notin serverCaps
  <1>1. CASE op \in {"list", "status", "select"}
    BY <1>1, CommandPlaces DEF Command, Mutation
  <1>2. CASE op \in {"store", "fetch"}
    BY <1>2, CommandPlaces DEF Command, Mutation
  <1>3. CASE op = "move" /\ "MOVE" \in serverCaps
    <2>1. /\ Len(Commands(op)) = 2
          /\ Commands(op)[1] \in {"LIST", "STATUS", "SELECT"} /\ Commands(op)[2] = "MOVE"
      BY <1>3, CommandPlaces
    <2>2. at = 1 \/ at = 2
      BY <2>1
    <2> QED BY <1>3, <2>1, <2>2 DEF Command, Mutation
  <1>4. CASE op = "move" /\ "MOVE" \notin serverCaps
    <2>1. \/ at = 1 /\ Commands(op)[at] \in {"LIST", "STATUS", "SELECT"}
          \/ at = 2 /\ Commands(op)[at] = "COPY"
          \/ at = 3 /\ Commands(op)[at] = "DELETE"
          \/ at = 4 /\ Commands(op)[at] = "EXPUNGE"
      BY <1>4, CommandPlaces
    <2> QED BY <1>4, <2>1 DEF Command, Mutation
  <1> QED BY <1>1, <1>2, <1>3, <1>4 DEF Operation

LEMMA CommandsSame ==
  ASSUME serverCaps' = serverCaps, NEW op
  PROVE  Commands(op)' = Commands(op)
  BY DEF Commands

-----------------------------------------------------------------------------
(* A step and what it leaves alone                                         *)

\* Commands that are left over keep their request, and lose their lane at most.
Unlaned(e, lanes) == [e EXCEPT !.lane = IF @ \in lanes THEN Free ELSE @]

LEMMA LateKept ==
  ASSUME NEW commands \in SUBSET LateCommand, OneEach(commands), NEW lanes \in SUBSET Lane,
         late' \subseteq {Unlaned(e, lanes) : e \in commands}
  PROVE  /\ late' \subseteq LateCommand
         /\ OneEach(late')
         /\ \A e \in late' : \E f \in commands : e.req = f.req /\ e.cmd = f.cmd
  <1>1. ASSUME NEW e \in commands
        PROVE  /\ Unlaned(e, lanes) \in LateCommand
               /\ Unlaned(e, lanes).req = e.req /\ Unlaned(e, lanes).cmd = e.cmd
    BY <1>1 DEF Unlaned, LateCommand
  <1> QED BY <1>1 DEF OneEach

\* The commands of the other requests stay, and the one that goes on or ends
\* leaves nothing of a kind it has had executed.
LEMMA OthersKeep ==
  ASSUME SessionInv, NEW r \in ImapRequest,
         LaneTyped', Owned', OnceInv(r)', BodyInv(r)',
         UNCHANGED <<serverCaps, validity>>,
         \A q \in ImapRequest \ {r} : req'[q] = req[q] /\ applied'[q] = applied[q],
         OneEach(late'),
         \A e \in late' : e.req # r => \E f \in late : e.req = f.req /\ e.cmd = f.cmd,
         \A l \in Lane : session'[l].alive => session[l].alive \/ owner[l] \in {Free, r},
         mail'.copies >= mail.copies,
         mail'.source # "there" => mail'.copies > 0,
         validity = 1 =>
           /\ PastCopy(r)' => mail'.copies > 0
           /\ \A e \in late' : e.req = r /\ e.cmd = "DELETE" => mail'.copies > 0
  PROVE  SessionInv'
  <1>1. ASSUME NEW q \in ImapRequest \ {r}
        PROVE  /\ OnceInv(q)' /\ BodyInv(q)'
               /\ PastCopy(q)' => PastCopy(q)
    <2>1. req'[q] = req[q] /\ applied'[q] = applied[q] /\ OnceInv(q) /\ BodyInv(q)
      BY DEF SessionInv
    <2>2. Current(q)' = Current(q) /\ LaneFor(q)' = LaneFor(q)
      BY <2>1 DEF Current, LaneFor
    <2>3. (Mutated(q)' <=> Mutated(q)) /\ (PastCopy(q)' <=> PastCopy(q))
      BY <2>1, <2>2 DEF Mutated, PastCopy
    <2>4. \A e \in late' : e.req = q => \E f \in late : f.req = q /\ e.cmd = f.cmd
      OBVIOUS
    <2>5. OnceInv(q)'
      BY <2>1, <2>3, <2>4 DEF OnceInv
    <2>6. ASSUME req[q].pc \in InLane, session'[LaneFor(q)].alive
          PROVE  session[LaneFor(q)].alive
      <3>1. LaneFor(q) \in Lane
        BY DEF LaneFor, LaneOf, Lane
      <3>2. owner[LaneFor(q)] = q
        BY <2>6, <3>1 DEF SessionInv, Owned
      <3> QED BY <2>6, <3>1, <3>2, ImapAssumption
    <2>7. BodyInv(q)'
      BY <2>1, <2>2, <2>6 DEF BodyInv
    <2> QED BY <2>3, <2>5, <2>7
  <1>2. mail.copies \in Nat /\ mail'.copies \in Nat
    BY DEF SessionInv, LaneTyped
  <1>3. CopyInv'
    <2>1. ASSUME validity = 1, NEW q \in ImapRequest, PastCopy(q)' PROVE mail'.copies > 0
      BY <1>1, <1>2, <2>1 DEF SessionInv, CopyInv
    <2>2. ASSUME validity = 1, NEW e \in late', e.cmd = "DELETE" PROVE mail'.copies > 0
      BY <1>2, <2>2 DEF SessionInv, CopyInv
    <2> QED BY <2>1, <2>2 DEF CopyInv
  <1> QED BY <1>1, <1>3 DEF SessionInv

\* The typing of a request at work.
LEMMA DoingTyped ==
  ASSUME SessionInv, NEW r \in ImapRequest, req[r].pc \in Active
  PROVE  /\ req[r] \in Doing /\ DoingInv(r)
         /\ Current(r) \in Operation /\ LaneFor(r) \in Lane
         /\ CommandOf(r) \in Command
         /\ \A e \in late : e.req # r
  <1>1. req[r] \in {Idle} \cup Doing \cup Settled /\ DoingInv(r)
    BY DEF SessionInv, LaneTyped
  <1>2. req[r] \in Doing
    BY <1>1 DEF Idle, Doing, Settled, Active
  <1>3. Current(r) \in Operation
    BY <1>2, TodoShape DEF Current, Doing
  <1>4. CommandOf(r) \in Command
    BY <1>1, <1>2, <1>3, CommandAt DEF CommandOf, DoingInv, Doing
  <1> QED BY <1>1, <1>2, <1>3, <1>4 DEF LaneFor, LaneOf, Lane, SessionInv, OnceInv

LEMMA OneMoves ==
  ASSUME SessionInv, NEW r \in ImapRequest, NEW x \in {Idle} \cup Doing \cup Settled,
         req' = [req EXCEPT ![r] = x], serverCaps' = serverCaps,
         x.pc \in Active => DoingInv(r)'
  PROVE  /\ req' \in [ImapRequest -> {Idle} \cup Doing \cup Settled]
         /\ \A q \in ImapRequest : req'[q].pc \in Active => DoingInv(q)'
         /\ req'[r] = x
         /\ \A q \in ImapRequest \ {r} : req'[q] = req[q]
  <1>1. req \in [ImapRequest -> {Idle} \cup Doing \cup Settled]
    BY DEF SessionInv, LaneTyped
  <1>2. req'[r] = x /\ \A q \in ImapRequest \ {r} : req'[q] = req[q]
    BY <1>1
  <1>3. ASSUME NEW q \in ImapRequest \ {r}, req'[q].pc \in Active PROVE DoingInv(q)'
    <2>1. req'[q] = req[q] /\ DoingInv(q)
      BY <1>2, <1>3 DEF SessionInv, LaneTyped
    <2>2. Current(q)' = Current(q)
      BY <2>1 DEF Current
    <2>3. Commands(Current(q))' = Commands(Current(q))
      BY <2>2, CommandsSame
    <2> QED BY <2>1, <2>2, <2>3 DEF DoingInv
  <1> QED BY <1>1, <1>2, <1>3

\* What a request leaves behind has not been executed, and it is a deletion only
\* after the copy.
LEMMA LeftUndone ==
  ASSUME SessionInv, NEW r \in ImapRequest, req[r].pc \in Active,
         NEW lane \in Lane \cup {Free}
  PROVE  /\ Left(r, lane) \in SUBSET LateCommand
         /\ \A e \in Left(r, lane) : e.req = r
         /\ \A e, f \in Left(r, lane) : e = f
         /\ \A e \in Left(r, lane) : e.cmd \in Mutation => applied[r] = 0
         /\ \A e \in Left(r, lane) : e.cmd = "DELETE" => PastCopy(r)
         /\ Current(r) \notin {"store", "move"} => Left(r, lane) = {}
         /\ OneEach(late \cup Left(r, lane))
  <1> DEFINE e == [req |-> r, cmd |-> CommandOf(r), to |-> req[r].to, lane |-> lane]
  <1>1. /\ req[r] \in Doing /\ DoingInv(r) /\ Current(r) \in Operation
        /\ CommandOf(r) \in Command /\ \A f \in late : f.req # r
    BY DoingTyped
  <1>2. req[r].at \in 1..4 /\ req[r].at <= Len(Commands(Current(r)))
    BY <1>1 DEF DoingInv, Doing
  <1>3. e \in LateCommand /\ e.req = r /\ e.cmd = CommandOf(r)
    BY <1>1 DEF LateCommand, Doing
  <1>4. Left(r, lane) = {} \/ (Left(r, lane) = {e} /\ req[r].pc = "sent")
    BY DEF Left
  <1>5. CommandOf(r) \in Mutation => req[r].at = 2
    BY <1>1, <1>2, CommandAt DEF CommandOf
  <1>6. req[r].pc = "sent" /\ CommandOf(r) \in Mutation => applied[r] = 0
    BY <1>2, <1>5 DEF SessionInv, OnceInv, Mutated
  <1>7. CommandOf(r) = "DELETE" => PastCopy(r)
    BY <1>1, <1>2, CommandAt DEF CommandOf, PastCopy
  <1>8. Current(r) \notin {"store", "move"} => CommandOf(r) \notin Mutation \cup {"DELETE", "EXPUNGE"}
    BY <1>1, <1>2, CommandAt DEF CommandOf
  <1>9. Current(r) \notin {"store", "move"} => Left(r, lane) = {}
    BY <1>8 DEF Left
  <1> HIDE DEF e
  <1> QED BY <1>1, <1>3, <1>4, <1>6, <1>7, <1>9 DEF SessionInv, OneEach

\* A request that ends gives its lane back and leaves one command at most.
LEMMA EndKeeps ==
  ASSUME SessionInv, NEW r \in ImapRequest, req[r].pc \in Active, NEW x \in Settled,
         x.pc = "answered" /\ x.kind = "get" /\ x.ok => x.read = 1,
         req' = [req EXCEPT ![r] = x],
         owner' = [l \in Lane |-> IF owner[l] = r THEN Free ELSE owner[l]],
         session' \in [Lane -> Session],
         \A l \in Lane : session'[l].alive => session[l].alive,
         late' \subseteq LateCommand, OneEach(late'),
         \A e \in late' : \E f \in late \cup Left(r, Free) : e.req = f.req /\ e.cmd = f.cmd,
         UNCHANGED <<serverCaps, mail, validity, archive, applied>>,
         special' \in Folder \cup {NoFolder}, imapFaults' \in 0..MaxImapFaults
  PROVE  SessionInv'
  <1>1. x.pc \notin Active /\ x.pc # "idle"
    BY DEF Settled, Active
  <1>2. /\ req' \in [ImapRequest -> {Idle} \cup Doing \cup Settled]
        /\ \A q \in ImapRequest : req'[q].pc \in Active => DoingInv(q)'
        /\ req'[r] = x
        /\ \A q \in ImapRequest \ {r} : req'[q] = req[q]
    BY <1>1, OneMoves
  <1>3. LaneTyped'
    <2>1. owner' \in [Lane -> ImapRequest \cup {Free}]
      BY DEF SessionInv, LaneTyped
    <2> QED BY <1>2, <2>1 DEF SessionInv, LaneTyped
  <1>4. Owned'
    <2> SUFFICES ASSUME NEW l \in Lane, NEW q \in ImapRequest
                 PROVE  owner'[l] = q <=> req'[q].pc \in InLane /\ LaneFor(q)' = l
      BY DEF Owned
    <2>1. CASE q = r
      BY <1>1, <1>2, <2>1, ImapAssumption DEF InLane, Active
    <2>2. CASE q # r
      <3>1. req'[q] = req[q] /\ LaneFor(q)' = LaneFor(q)
        BY <1>2, <2>2 DEF LaneFor, Current
      <3>2. owner'[l] = q <=> owner[l] = q
        BY <2>2, ImapAssumption
      <3> QED BY <3>1, <3>2 DEF SessionInv, Owned
    <2> QED BY <2>1, <2>2
  <1>5. /\ \A e \in Left(r, Free) : e.req = r
        /\ \A e \in Left(r, Free) : e.cmd \in Mutation => applied[r] = 0
        /\ \A e \in Left(r, Free) : e.cmd = "DELETE" => PastCopy(r)
        /\ \A e \in late : e.req # r
    BY LeftUndone, DoingTyped
  <1>6. OnceInv(r)'
    BY <1>1, <1>2, <1>5 DEF OnceInv, SessionInv
  <1>7. BodyInv(r)'
    BY <1>1, <1>2 DEF BodyInv, InLane, Active
  <1>8. ~PastCopy(r)'
    BY <1>1, <1>2 DEF PastCopy
  <1>9. validity = 1 => \A e \in late' : e.req = r /\ e.cmd = "DELETE" => mail'.copies > 0
    BY <1>5 DEF SessionInv, CopyInv
  <1>10. mail'.copies >= mail.copies /\ (mail'.source # "there" => mail'.copies > 0)
    BY DEF SessionInv, CopyInv, LaneTyped
  <1>11. \A e \in late' : e.req # r => \E f \in late : e.req = f.req /\ e.cmd = f.cmd
    BY <1>5
  <1>12. \A q \in ImapRequest \ {r} : req'[q] = req[q] /\ applied'[q] = applied[q]
    BY <1>2
  <1> QED BY <1>3, <1>4, <1>6, <1>7, <1>8, <1>9, <1>10, <1>11, <1>12, OthersKeep

\* A request that waits for a lane holds none and has changed nothing.
LEMMA WaitKeeps ==
  ASSUME SessionInv, NEW r \in ImapRequest,
         applied[r] = 0, \A e \in late : e.req # r,
         NEW x \in Doing, x.pc = "lock", x.at = 1,
         x.kind = "get" => x.todo = <<"fetch">>,
         req' = [req EXCEPT ![r] = x],
         owner' = [l \in Lane |-> IF owner[l] = r THEN Free ELSE owner[l]],
         session' \in [Lane -> Session],
         \A l \in Lane : session'[l].alive => session[l].alive,
         late' \subseteq LateCommand, OneEach(late'),
         \A e \in late' : \E f \in late : e.req = f.req /\ e.cmd = f.cmd,
         UNCHANGED <<serverCaps, mail, validity, archive, applied>>,
         special' \in Folder \cup {NoFolder}, imapFaults' \in 0..MaxImapFaults
  PROVE  SessionInv'
  <1>1. x \in {Idle} \cup Doing \cup Settled /\ req \in [ImapRequest -> {Idle} \cup Doing \cup Settled]
    BY DEF SessionInv, LaneTyped
  <1>2. req'[r] = x
    BY <1>1
  <1>3. DoingInv(r)'
    <2>1. x.todo \in Todo /\ Current(r)' = x.todo[1]
      BY <1>2 DEF Current, Doing
    <2>2. PICK n \in 1..4 : Len(Commands(x.todo[1])) = n
      BY <2>1, TodoShape, CommandPlaces
    <2>3. Commands(Current(r))' = Commands(x.todo[1])
      BY <2>1, CommandsSame
    <2>4. 1 <= n /\ Len(Commands(Current(r)))' = n
      BY <2>2, <2>3
    <2>5. req'[r].at = 1 /\ (req'[r].kind = "get" => req'[r].todo = <<"fetch">>)
      BY <1>2
    <2> QED BY <2>4, <2>5, Zenon DEF DoingInv
  <1>4. /\ req' \in [ImapRequest -> {Idle} \cup Doing \cup Settled]
        /\ \A q \in ImapRequest : req'[q].pc \in Active => DoingInv(q)'
        /\ \A q \in ImapRequest \ {r} : req'[q] = req[q]
    BY <1>1, <1>3, OneMoves
  <1>5. LaneTyped'
    <2>1. owner' \in [Lane -> ImapRequest \cup {Free}]
      BY DEF SessionInv, LaneTyped
    <2> QED BY <1>4, <2>1 DEF SessionInv, LaneTyped
  <1>6. Owned'
    <2> SUFFICES ASSUME NEW l \in Lane, NEW q \in ImapRequest
                 PROVE  owner'[l] = q <=> req'[q].pc \in InLane /\ LaneFor(q)' = l
      BY DEF Owned
    <2>1. CASE q = r
      BY <1>2, <2>1, ImapAssumption DEF InLane
    <2>2. CASE q # r
      <3>1. req'[q] = req[q] /\ LaneFor(q)' = LaneFor(q)
        BY <1>4, <2>2 DEF LaneFor, Current
      <3>2. owner'[l] = q <=> owner[l] = q
        BY <2>2, ImapAssumption
      <3> QED BY <3>1, <3>2 DEF SessionInv, Owned
    <2> QED BY <2>1, <2>2
  <1>7. \A e \in late' : e.req # r
    OBVIOUS
  <1>8. OnceInv(r)' /\ BodyInv(r)' /\ ~PastCopy(r)'
    BY <1>2, <1>7 DEF OnceInv, BodyInv, PastCopy, InLane
  <1>9. mail'.copies >= mail.copies /\ (mail'.source # "there" => mail'.copies > 0)
    BY DEF SessionInv, CopyInv, LaneTyped
  <1>10. \A q \in ImapRequest \ {r} : req'[q] = req[q] /\ applied'[q] = applied[q]
    BY <1>4
  <1> QED BY <1>5, <1>6, <1>7, <1>8, <1>9, <1>10, OthersKeep

\* A request that goes on in its lane keeps it.
LEMMA GoKeeps ==
  ASSUME SessionInv, NEW r \in ImapRequest, req[r].pc \in Active,
         NEW x \in Doing, x.pc \in InLane,
         x.todo = req[r].todo, x.kind = req[r].kind,
         x.at <= Len(Commands(Current(r))),
         req' = [req EXCEPT ![r] = x],
         owner' \in [Lane -> ImapRequest \cup {Free}],
         owner'[LaneFor(r)] = r,
         owner[LaneFor(r)] \in {Free, r},
         \A l \in Lane \ {LaneFor(r)} : owner'[l] = owner[l],
         session' \in [Lane -> Session],
         \A l \in Lane \ {LaneFor(r)} : session'[l].alive => session[l].alive,
         UNCHANGED <<serverCaps, validity, archive, late, special, imapFaults>>,
         applied' \in [ImapRequest -> Nat],
         \A q \in ImapRequest \ {r} : applied'[q] = applied[q],
         applied'[r] <= 1, applied'[r] = 0 \/ Mutated(r)',
         mail' \in [source : {"there", "deleted", "gone"}, copies : Nat],
         mail'.copies >= mail.copies,
         mail'.source # "there" => mail'.copies > 0,
         validity = 1 /\ PastCopy(r)' => mail'.copies > 0,
         BodyInv(r)'
  PROVE  SessionInv'
  <1>1. /\ req[r] \in Doing /\ DoingInv(r) /\ LaneFor(r) \in Lane
        /\ \A e \in late : e.req # r
    BY DoingTyped
  <1>2. x \in {Idle} \cup Doing \cup Settled /\ req \in [ImapRequest -> {Idle} \cup Doing \cup Settled]
    BY DEF SessionInv, LaneTyped
  <1>3. req'[r] = x /\ Current(r)' = Current(r) /\ LaneFor(r)' = LaneFor(r)
    BY <1>2 DEF Current, LaneFor
  <1>4. DoingInv(r)'
    <2>1. Commands(Current(r))' = Commands(Current(r))
      BY <1>3, CommandsSame
    <2> QED BY <1>1, <1>3, <2>1 DEF DoingInv, InLane
  <1>5. /\ req' \in [ImapRequest -> {Idle} \cup Doing \cup Settled]
        /\ \A q \in ImapRequest : req'[q].pc \in Active => DoingInv(q)'
        /\ \A q \in ImapRequest \ {r} : req'[q] = req[q]
    BY <1>2, <1>4, OneMoves
  <1>6. LaneTyped'
    BY <1>5 DEF SessionInv, LaneTyped
  <1>7. Owned'
    <2> SUFFICES ASSUME NEW l \in Lane, NEW q \in ImapRequest
                 PROVE  owner'[l] = q <=> req'[q].pc \in InLane /\ LaneFor(q)' = l
      BY DEF Owned
    <2>1. CASE q = r
      <3>1. l # LaneFor(r) => owner[l] # r
        BY DEF SessionInv, Owned
      <3> QED BY <1>3, <2>1, <3>1
    <2>2. CASE q # r
      <3>1. req'[q] = req[q] /\ LaneFor(q)' = LaneFor(q)
        BY <1>5, <2>2 DEF LaneFor, Current
      <3>2. owner'[l] = q <=> owner[l] = q
        BY <2>2, <1>1, ImapAssumption
      <3> QED BY <3>1, <3>2 DEF SessionInv, Owned
    <2> QED BY <2>1, <2>2
  <1>8. OnceInv(r)'
    BY <1>1, <1>3 DEF OnceInv, InLane, Active
  <1>9. OneEach(late') /\ \A e \in late' : e.req # r
    BY <1>1 DEF SessionInv
  <1>10. \A q \in ImapRequest \ {r} : req'[q] = req[q] /\ applied'[q] = applied[q]
    BY <1>5
  <1>11. \A l \in Lane : session'[l].alive => session[l].alive \/ owner[l] \in {Free, r}
    OBVIOUS
  <1>12. \A e \in late' : e.req # r => \E f \in late : e.req = f.req /\ e.cmd = f.cmd
    OBVIOUS
  <1> QED BY <1>6, <1>7, <1>8, <1>9, <1>10, <1>11, <1>12, OthersKeep

-----------------------------------------------------------------------------
(* How an operation ends                                                   *)

Freed(r) == [l \in Lane |-> IF owner[l] = r THEN Free ELSE owner[l]]

LEMMA LaneFreed ==
  ASSUME SessionInv, NEW r \in ImapRequest, req[r].pc \in InLane
  PROVE  [owner EXCEPT ![LaneFor(r)] = Free] = Freed(r)
  <1>1. owner \in [Lane -> ImapRequest \cup {Free}] /\ LaneFor(r) \in Lane
    BY DoingTyped DEF SessionInv, LaneTyped, Active, InLane
  <1>2. \A l \in Lane : owner[l] = r <=> LaneFor(r) = l
    BY DEF SessionInv, Owned
  <1> QED BY <1>1, <1>2 DEF Freed

LEMMA NoLane ==
  ASSUME SessionInv, NEW r \in ImapRequest, req[r].pc \notin InLane
  PROVE  owner = Freed(r)
  <1>1. owner \in [Lane -> ImapRequest \cup {Free}]
    BY DEF SessionInv, LaneTyped
  <1>2. \A l \in Lane : owner[l] # r
    BY DEF SessionInv, Owned
  <1> QED BY <1>1, <1>2 DEF Freed

LEMMA LeftAlike ==
  ASSUME NEW r, NEW lane, NEW e \in Left(r, lane)
  PROVE  /\ e.lane = lane
         /\ \E f \in Left(r, Free) : e.req = f.req /\ e.cmd = f.cmd
  <1> DEFINE f == [req |-> r, cmd |-> CommandOf(r), to |-> req[r].to, lane |-> Free]
  <1>1. /\ req[r].pc = "sent" /\ CommandOf(r) \in Mutation \cup {"DELETE", "EXPUNGE"}
        /\ e = [req |-> r, cmd |-> CommandOf(r), to |-> req[r].to, lane |-> lane]
    BY DEF Left
  <1>2. e.lane = lane /\ e.req = r /\ e.cmd = CommandOf(r)
    BY <1>1
  <1>3. f \in Left(r, Free) /\ f.req = r /\ f.cmd = CommandOf(r)
    BY <1>1 DEF Left
  <1> QED BY <1>2, <1>3

\* The command left over keeps its connection.
LEMMA LateGrows ==
  ASSUME SessionInv, NEW r \in ImapRequest, req[r].pc \in Active,
         NEW lane \in Lane \cup {Free}, late' \subseteq late \cup Left(r, lane)
  PROVE  /\ late' \subseteq LateCommand /\ OneEach(late')
         /\ \A e \in late' : \E f \in late \cup Left(r, Free) : e.req = f.req /\ e.cmd = f.cmd
  BY LeftUndone, LeftAlike DEF OneEach, SessionInv, LaneTyped

\* The connection is no more, and the command left over has none.
LEMMA LateOrphaned ==
  ASSUME SessionInv, NEW r \in ImapRequest, req[r].pc \in Active, NEW l \in Lane,
         NEW left \in {Left(r, Free), {}}, late' = Orphaned(l) \cup left
  PROVE  /\ late' \subseteq LateCommand /\ OneEach(late')
         /\ \A e \in late' : \E f \in late \cup left : e.req = f.req /\ e.cmd = f.cmd
  <1> DEFINE commands == late \cup left
  <1>1. left \in SUBSET LateCommand /\ \A e \in left : e.lane = Free
    <2>1. left = {} \/ left = Left(r, Free)
      OBVIOUS
    <2>2. Left(r, Free) \in SUBSET LateCommand
      BY LeftUndone
    <2>3. \A e \in Left(r, Free) : e.lane = Free
      BY LeftAlike
    <2> QED BY <2>1, <2>2, <2>3
  <1>2. commands \in SUBSET LateCommand /\ OneEach(commands)
    BY <1>1, LeftUndone DEF SessionInv, LaneTyped, OneEach
  <1>3. \A e \in left : Unlaned(e, {l}) = e
    <2> SUFFICES ASSUME NEW e \in left PROVE Unlaned(e, {l}) = e
      OBVIOUS
    <2>1. e \in LateCommand /\ e.lane = Free
      BY <1>1
    <2> QED BY <2>1 DEF Unlaned, LateCommand
  <1>4. Orphaned(l) = {Unlaned(e, {l}) : e \in late}
    BY DEF Orphaned, Unlaned
  <1>5. late' \subseteq {Unlaned(e, {l}) : e \in commands}
    BY <1>3, <1>4
  <1>6. {l} \in SUBSET Lane
    OBVIOUS
  <1> HIDE DEF commands
  <1>7. /\ late' \subseteq LateCommand
        /\ OneEach(late')
        /\ \A e \in late' : \E f \in commands : e.req = f.req /\ e.cmd = f.cmd
    BY <1>2, <1>5, <1>6, LateKept
  <1> QED BY <1>7 DEF commands

LEMMA AnsweredTyped ==
  ASSUME SessionInv, NEW r \in ImapRequest, req[r].pc \in Active, NEW ok \in BOOLEAN
  PROVE  /\ Answered(r, ok) \in Settled
         /\ Answered(r, ok).ok = ok /\ Answered(r, ok).read = req[r].read
         /\ Answered(r, ok).kind = req[r].kind
  <1>1. req[r] \in Doing
    BY DoingTyped
  <1> QED BY <1>1 DEF Answered, Settled, Doing

LEMMA RestartTyped ==
  ASSUME NEW d \in Doing
  PROVE  LET x == [d EXCEPT !.pc = "lock", !.at = 1, !.retried = TRUE]
         IN  x \in Doing /\ x.pc = "lock" /\ x.at = 1 /\ x.kind = d.kind /\ x.todo = d.todo
  <1> DEFINE a == [d EXCEPT !.pc = "lock"]
             b == [a EXCEPT !.at = 1]
             c == [b EXCEPT !.retried = TRUE]
  <1>1. a \in Doing /\ a.pc = "lock" /\ a.kind = d.kind /\ a.todo = d.todo
    BY DEF Doing, Active
  <1> HIDE DEF a
  <1>2. b \in Doing /\ b.pc = "lock" /\ b.at = 1 /\ b.kind = d.kind /\ b.todo = d.todo
    BY <1>1 DEF Doing
  <1> HIDE DEF b
  <1>3. c \in Doing /\ c.pc = "lock" /\ c.at = 1 /\ c.kind = d.kind /\ c.todo = d.todo
    BY <1>2 DEF Doing
  <1>4. [d EXCEPT !.pc = "lock", !.at = 1, !.retried = TRUE] = c
    BY DEF a, b
  <1> HIDE DEF c
  <1> QED BY <1>3, <1>4

LEMMA AdvanceTyped ==
  ASSUME NEW d \in Doing, Tail(d.todo) \in Todo
  PROVE  LET x == [d EXCEPT !.pc = "lock", !.at = 1, !.retried = FALSE, !.todo = Tail(@)]
         IN  x \in Doing /\ x.pc = "lock" /\ x.at = 1 /\ x.kind = d.kind
  <1> DEFINE a == [d EXCEPT !.pc = "lock"]
             b == [a EXCEPT !.at = 1]
             c == [b EXCEPT !.retried = FALSE]
             e == [c EXCEPT !.todo = Tail(@)]
  <1>1. a \in Doing /\ a.pc = "lock" /\ a.kind = d.kind /\ a.todo = d.todo
    BY DEF Doing, Active
  <1> HIDE DEF a
  <1>2. b \in Doing /\ b.pc = "lock" /\ b.at = 1 /\ b.kind = d.kind /\ b.todo = d.todo
    BY <1>1 DEF Doing
  <1> HIDE DEF b
  <1>3. c \in Doing /\ c.pc = "lock" /\ c.at = 1 /\ c.kind = d.kind /\ c.todo = d.todo
    BY <1>2 DEF Doing
  <1> HIDE DEF c
  <1>4. e \in Doing /\ e.pc = "lock" /\ e.at = 1 /\ e.kind = d.kind
    BY <1>3 DEF Doing
  <1>5. [d EXCEPT !.pc = "lock", !.at = 1, !.retried = FALSE, !.todo = Tail(@)] = e
    BY DEF a, b, c
  <1> HIDE DEF e
  <1> QED BY <1>4, <1>5

\* An operation that failed is answered, or tried once more if it only reads.
LEMMA RetryOrFailKeeps ==
  ASSUME SessionInv, NEW r \in ImapRequest, req[r].pc \in Active,
         req' = [req EXCEPT ![r] = RetryOrFail(r)],
         owner' = Freed(r),
         session' \in [Lane -> Session],
         \A l \in Lane : session'[l].alive => session[l].alive,
         late' \subseteq LateCommand, OneEach(late'),
         \A e \in late' : \E f \in late \cup Left(r, Free) : e.req = f.req /\ e.cmd = f.cmd,
         UNCHANGED <<serverCaps, mail, validity, archive, applied>>,
         special' \in Folder \cup {NoFolder}, imapFaults' \in 0..MaxImapFaults
  PROVE  SessionInv'
  <1>1. CASE RetrySafe(Current(r)) /\ ~req[r].retried
    <2> DEFINE x == [req[r] EXCEPT !.pc = "lock", !.at = 1, !.retried = TRUE]
    <2>1. req[r] \in Doing /\ DoingInv(r) /\ \A e \in late : e.req # r
      BY DoingTyped
    <2>2. x \in Doing /\ x.pc = "lock" /\ x.at = 1 /\ (x.kind = "get" => x.todo = <<"fetch">>)
      BY <2>1, RestartTyped DEF DoingInv
    <2>3. req' = [req EXCEPT ![r] = x]
      BY <1>1 DEF RetryOrFail
    <2>4. Current(r) \notin {"store", "move"}
      BY <1>1 DEF RetrySafe
    <2>5. Left(r, Free) = {}
      BY <2>4, LeftUndone
    <2>6. applied[r] = 0
      BY <2>4 DEF SessionInv, OnceInv, Mutated
    <2> HIDE DEF x
    <2>8. \A e \in late' : \E f \in late : e.req = f.req /\ e.cmd = f.cmd
      BY <2>5
    <2> QED BY <2>1, <2>2, <2>3, <2>6, <2>8, WaitKeeps DEF Freed
  <1>2. CASE ~(RetrySafe(Current(r)) /\ ~req[r].retried)
    BY <1>2, AnsweredTyped, EndKeeps DEF RetryOrFail, Freed
  <1> QED BY <1>1, <1>2

\* The next operation waits for its lane, or the request is answered.
LEMMA NextOperationKeeps ==
  ASSUME SessionInv, NEW r \in ImapRequest, req[r].pc \in InLane,
         req[r].kind = "get" => req[r].read = 1,
         req' = [req EXCEPT ![r] =
                   IF Len(req[r].todo) = 1 THEN Answered(r, TRUE)
                   ELSE [req[r] EXCEPT !.pc = "lock", !.at = 1, !.retried = FALSE,
                                       !.todo = Tail(@)]],
         owner' = Freed(r),
         session' \in [Lane -> Session],
         \A l \in Lane : session'[l].alive => session[l].alive,
         late' \subseteq LateCommand, OneEach(late'),
         \A e \in late' : \E f \in late : e.req = f.req /\ e.cmd = f.cmd,
         UNCHANGED <<serverCaps, mail, validity, archive, applied>>,
         special' \in Folder \cup {NoFolder}, imapFaults' \in 0..MaxImapFaults
  PROVE  SessionInv'
  <1>1. /\ req[r].pc \in Active
        /\ req[r] \in Doing /\ DoingInv(r) /\ \A e \in late : e.req # r
    BY DoingTyped DEF Active, InLane
  <1>2. CASE Len(req[r].todo) = 1
    BY <1>1, <1>2, AnsweredTyped, EndKeeps DEF Freed
  <1>3. CASE Len(req[r].todo) # 1
    <2> DEFINE x == [req[r] EXCEPT !.pc = "lock", !.at = 1, !.retried = FALSE, !.todo = Tail(@)]
    <2>1. /\ Tail(req[r].todo) \in Todo
          /\ req[r].todo[1] \notin {"store", "move", "fetch"}
          /\ req[r].todo # <<"fetch">>
      BY <1>1, <1>3, TodoShape DEF Doing
    <2>2. x \in Doing /\ x.pc = "lock" /\ x.at = 1 /\ x.kind # "get"
      BY <1>1, <2>1, AdvanceTyped DEF DoingInv
    <2>3. req' = [req EXCEPT ![r] = x]
      BY <1>3
    <2>4. applied[r] = 0
      BY <1>1, <2>1 DEF SessionInv, OnceInv, Mutated, Current
    <2> HIDE DEF x
    <2> QED BY <1>1, <2>2, <2>3, <2>4, WaitKeeps DEF Freed
  <1> QED BY <1>2, <1>3

-----------------------------------------------------------------------------
(* The steps of a request                                                  *)

LEMMA BeginKeeps ==
  ASSUME SessionInv, NEW r \in ImapRequest, NEW kind \in Kind, Begin(r, kind)
  PROVE  SessionInv'
  <1> DEFINE x == [pc |-> "lock", kind |-> kind, todo |-> Program(kind), at |-> 1,
                   retried |-> FALSE, to |-> special, chosen |-> 0, read |-> 0]
  <1>1. req[r].pc = "idle"
    BY DEF Begin, Idle
  <1>2. applied[r] = 0 /\ \A e \in late : e.req # r
    BY <1>1 DEF SessionInv, OnceInv
  <1>3. x \in Doing /\ x.pc = "lock" /\ x.at = 1 /\ (x.kind = "get" => x.todo = <<"fetch">>)
    BY ProgramTodo DEF Doing, Active, SessionInv, LaneTyped
  <1>4. req' = [req EXCEPT ![r] = x]
    BY DEF Begin
  <1> HIDE DEF x
  <1>5. /\ UNCHANGED <<serverCaps, mail, validity, archive, late, session, owner, special,
                       applied, imapFaults>>
    BY DEF Begin
  <1>6. owner = Freed(r)
    BY <1>1, NoLane DEF InLane
  <1>7. /\ session' \in [Lane -> Session] /\ late' \subseteq LateCommand /\ OneEach(late')
        /\ special' \in Folder \cup {NoFolder} /\ imapFaults' \in 0..MaxImapFaults
    BY <1>5 DEF SessionInv, LaneTyped
  <1> QED BY <1>2, <1>3, <1>4, <1>5, <1>6, <1>7, WaitKeeps DEF Freed

LEMMA ConnectFailsKeeps ==
  ASSUME SessionInv, NEW r \in ImapRequest, ConnectFails(r)
  PROVE  SessionInv'
  <1>1. /\ req[r].pc = "lock" /\ req[r].pc \in Active /\ req[r].pc \notin InLane
        /\ imapFaults' \in 0..MaxImapFaults
        /\ UNCHANGED <<serverCaps, mail, validity, archive, late, session, owner, special, applied>>
    BY DEF ConnectFails, Active, InLane, Fault, SessionInv, LaneTyped
  <1>2. owner' = Freed(r)
    BY <1>1, NoLane
  <1>3. /\ session' \in [Lane -> Session] /\ late' \subseteq LateCommand /\ OneEach(late')
        /\ special' \in Folder \cup {NoFolder}
        /\ \A l \in Lane : session'[l].alive => session[l].alive
        /\ \A e \in late' : \E f \in late \cup Left(r, Free) : e.req = f.req /\ e.cmd = f.cmd
    BY <1>1 DEF SessionInv, LaneTyped
  <1>4. CASE req' = [req EXCEPT ![r] = RetryOrFail(r)]
    BY <1>1, <1>2, <1>3, <1>4, RetryOrFailKeeps
  <1>5. CASE req' = [req EXCEPT ![r] = Answered(r, FALSE)]
    BY <1>1, <1>2, <1>3, <1>5, AnsweredTyped, EndKeeps DEF Freed
  <1> QED BY <1>4, <1>5 DEF ConnectFails

LEMMA LockSessionKeeps ==
  ASSUME SessionInv, NEW r \in ImapRequest, LockSession(r)
  PROVE  SessionInv'
  <1> DEFINE x == [req[r] EXCEPT !.pc = "sent"]
  <1>1. /\ req[r].pc = "lock" /\ req[r].pc \in Active
        /\ owner[LaneFor(r)] = Free
        /\ owner' = [owner EXCEPT ![LaneFor(r)] = r]
        /\ session' = [session EXCEPT ![LaneFor(r)] = IF session[LaneFor(r)].open THEN session[LaneFor(r)] ELSE Fresh]
        /\ UNCHANGED <<serverCaps, mail, validity, archive, late, special, applied, imapFaults>>
    BY DEF LockSession, Active
  <1>2. /\ req[r] \in Doing /\ DoingInv(r) /\ Current(r) \in Operation /\ LaneFor(r) \in Lane
        /\ req \in [ImapRequest -> {Idle} \cup Doing \cup Settled]
        /\ owner \in [Lane -> ImapRequest \cup {Free}] /\ session \in [Lane -> Session]
        /\ mail \in [source : {"there", "deleted", "gone"}, copies : Nat]
        /\ applied \in [ImapRequest -> Nat]
    BY <1>1, DoingTyped DEF SessionInv, LaneTyped
  <1>3. /\ x \in Doing /\ x.pc = "sent" /\ x.at = 1
        /\ x.todo = req[r].todo /\ x.kind = req[r].kind
    BY <1>1, <1>2 DEF Doing, Active, DoingInv
  <1>4. req' = [req EXCEPT ![r] = x]
    BY DEF LockSession
  <1>5. x.at <= Len(Commands(Current(r)))
    BY <1>1, <1>2, <1>3 DEF DoingInv
  <1> HIDE DEF x
  <1>6. req'[r] = x
    BY <1>2, <1>4
  <1>7. BodyInv(r)' /\ ~PastCopy(r)'
    BY <1>3, <1>6 DEF BodyInv, PastCopy
  <1>8. applied'[r] = 0
    BY <1>1, <1>2 DEF SessionInv, OnceInv, Mutated, DoingInv
  <1>9. Fresh \in Session
    BY DEF Fresh, Session
  <1>10. /\ session' \in [Lane -> Session]
         /\ \A k \in Lane \ {LaneFor(r)} : session'[k] = session[k] /\ owner'[k] = owner[k]
         /\ owner'[LaneFor(r)] = r /\ owner' \in [Lane -> ImapRequest \cup {Free}]
    BY <1>1, <1>2, <1>9
  <1>11. mail'.copies >= mail.copies /\ (mail'.source # "there" => mail'.copies > 0)
    BY <1>1, <1>2 DEF SessionInv, CopyInv
  <1>12. x.pc \in InLane
    BY <1>3 DEF InLane
  <1>13. /\ UNCHANGED <<serverCaps, validity, archive, late, special, imapFaults>>
         /\ applied' \in [ImapRequest -> Nat]
         /\ \A q \in ImapRequest \ {r} : applied'[q] = applied[q]
         /\ applied'[r] <= 1
         /\ mail' \in [source : {"there", "deleted", "gone"}, copies : Nat]
         /\ owner[LaneFor(r)] \in {Free, r}
         /\ \A k \in Lane \ {LaneFor(r)} : session'[k].alive => session[k].alive
    BY <1>1, <1>2, <1>8, <1>10
  <1> QED
    BY <1>1, <1>3, <1>4, <1>5, <1>7, <1>8, <1>10, <1>11, <1>12, <1>13, GoKeeps

\* What the server does with a command, a deletion being sent after its copy.
LEMMA EffectFacts ==
  ASSUME SessionInv, NEW cmd, NEW to, mail' = Effect(cmd, to),
         validity = 1 /\ cmd = "DELETE" => mail.copies > 0
  PROVE  /\ mail' \in [source : {"there", "deleted", "gone"}, copies : Nat]
         /\ mail'.copies >= mail.copies
         /\ mail'.source # "there" => mail'.copies > 0
         /\ validity = 1 /\ cmd = "COPY" => mail'.copies > 0
  <1>1. /\ mail \in [source : {"there", "deleted", "gone"}, copies : Nat]
        /\ mail.source # "there" => mail.copies > 0
    BY DEF SessionInv, LaneTyped, CopyInv
  <1>2. CASE mail' = mail /\ ~(validity = 1 /\ cmd = "COPY" /\ mail.source # "gone")
    BY <1>1, <1>2
  <1>3. CASE mail' = [mail EXCEPT !.source = "gone", !.copies = mail.copies + 1]
    <2> DEFINE gone == [mail EXCEPT !.source = "gone"]
               copied == [gone EXCEPT !.copies = mail.copies + 1]
    <2>1. gone \in [source : {"there", "deleted", "gone"}, copies : Nat]
      BY <1>1
    <2> HIDE DEF gone
    <2>2. /\ copied \in [source : {"there", "deleted", "gone"}, copies : Nat]
          /\ copied.copies = mail.copies + 1
      BY <1>1, <2>1
    <2>3. mail' = copied
      BY <1>3 DEF gone
    <2> HIDE DEF copied
    <2> QED BY <1>1, <2>2, <2>3
  <1>4. CASE mail' = [mail EXCEPT !.copies = mail.copies + 1]
    BY <1>1, <1>4
  <1>5. CASE mail' = [mail EXCEPT !.source = "deleted"] /\ validity = 1 /\ cmd = "DELETE"
    BY <1>1, <1>5
  <1>6. CASE mail' = [mail EXCEPT !.source = "gone"] /\ cmd = "EXPUNGE" /\ mail.source = "deleted"
    BY <1>1, <1>6
  <1>7. CASE validity # 1
    BY <1>2, <1>7 DEF Effect
  <1>8. CASE validity = 1 /\ cmd = "MOVE"
    BY <1>2, <1>3, <1>8 DEF Effect
  <1>9. CASE validity = 1 /\ cmd = "COPY"
    BY <1>2, <1>4, <1>9 DEF Effect
  <1>10. CASE validity = 1 /\ cmd = "DELETE"
    BY <1>2, <1>5, <1>10 DEF Effect
  <1>11. CASE validity = 1 /\ cmd = "EXPUNGE"
    BY <1>2, <1>6, <1>11 DEF Effect
  <1>12. CASE validity = 1 /\ cmd \notin {"MOVE", "COPY", "DELETE", "EXPUNGE"}
    BY <1>2, <1>12 DEF Effect
  <1> QED BY <1>7, <1>8, <1>9, <1>10, <1>11, <1>12

AfterServe(r, chosen, read, to) ==
    [req EXCEPT ![r].pc = "served", ![r].chosen = chosen, ![r].read = read, ![r].to = to]

LEMMA ServedRecord ==
  ASSUME SessionInv, NEW r \in ImapRequest, req[r] \in Doing,
         NEW chosen \in Nat, NEW read \in Nat, NEW to \in Folder \cup {NoFolder},
         req' = AfterServe(r, chosen, read, to)
  PROVE  \E x \in Doing :
           /\ req' = [req EXCEPT ![r] = x]
           /\ x.pc = "served" /\ x.chosen = chosen /\ x.read = read
           /\ x.kind = req[r].kind /\ x.todo = req[r].todo /\ x.at = req[r].at
  <1> DEFINE f1 == [req EXCEPT ![r].pc = "served"]
             f2 == [f1 EXCEPT ![r].chosen = chosen]
             f3 == [f2 EXCEPT ![r].read = read]
             f4 == [f3 EXCEPT ![r].to = to]
             Same(f) == /\ f[r] \in Doing /\ f[r].pc = "served"
                        /\ f[r].kind = req[r].kind /\ f[r].todo = req[r].todo
                        /\ f[r].at = req[r].at
                        /\ DOMAIN f = ImapRequest /\ f = [q \in ImapRequest |-> f[q]]
                        /\ \A q \in ImapRequest \ {r} : f[q] = req[q]
  <1>1. req \in [ImapRequest -> {Idle} \cup Doing \cup Settled]
    BY DEF SessionInv, LaneTyped
  <1>2. Same(f1)
    BY <1>1 DEF Doing, Active
  <1> HIDE DEF f1
  <1>3. Same(f2) /\ f2[r].chosen = chosen
    BY <1>2 DEF Doing
  <1> HIDE DEF f2
  <1>4. Same(f3) /\ f3[r].chosen = chosen /\ f3[r].read = read
    BY <1>3 DEF Doing
  <1> HIDE DEF f3
  <1>5. Same(f4) /\ f4[r].chosen = chosen /\ f4[r].read = read
    BY <1>4 DEF Doing
  <1>6. req' = f4
    BY DEF f1, f2, f3, AfterServe
  <1> HIDE DEF f4
  <1>7. req' = [req EXCEPT ![r] = f4[r]]
    BY <1>1, <1>5, <1>6
  <1> QED BY <1>5, <1>7

LEMMA ServeKeeps ==
  ASSUME SessionInv, NEW r \in ImapRequest, Serve(r)
  PROVE  SessionInv'
  <1> DEFINE cmd == CommandOf(r)
             chosen == IF cmd = "SELECT" THEN validity ELSE req[r].chosen
             read == IF cmd = "FETCH" THEN validity ELSE req[r].read
             to == IF cmd = "LIST" THEN archive ELSE req[r].to
  <1>1. /\ req[r].pc = "sent" /\ req[r].pc \in Active /\ req[r].pc \in InLane
        /\ session[LaneFor(r)].alive
        /\ mail' = Effect(cmd, req[r].to)
        /\ applied' = [applied EXCEPT ![r] = IF cmd \in Mutation THEN applied[r] + 1 ELSE applied[r]]
        /\ UNCHANGED <<serverCaps, validity, archive, late, session, owner, special, imapFaults>>
    BY DEF Serve, Counted, Active, InLane
  <1>2. /\ req[r] \in Doing /\ DoingInv(r) /\ Current(r) \in Operation /\ LaneFor(r) \in Lane
        /\ owner \in [Lane -> ImapRequest \cup {Free}] /\ session \in [Lane -> Session]
        /\ applied \in [ImapRequest -> Nat] /\ validity \in Nat /\ archive \in Folder
        /\ req \in [ImapRequest -> {Idle} \cup Doing \cup Settled]
    BY <1>1, DoingTyped DEF SessionInv, LaneTyped
  <1>3. chosen \in Nat /\ read \in Nat /\ to \in Folder \cup {NoFolder}
    BY <1>2 DEF Doing
  <1>4. req' = AfterServe(r, chosen, read, to)
    BY DEF Serve, AfterServe
  <1> HIDE DEF to, chosen, read
  <1>5. PICK x \in Doing :
           /\ req' = [req EXCEPT ![r] = x]
           /\ x.pc = "served" /\ x.chosen = chosen /\ x.read = read
           /\ x.kind = req[r].kind /\ x.todo = req[r].todo /\ x.at = req[r].at
    BY <1>2, <1>3, <1>4, ServedRecord
  <1>6. req'[r] = x /\ Current(r)' = Current(r) /\ LaneFor(r)' = LaneFor(r)
    BY <1>2, <1>5 DEF Current, LaneFor
  <1>7. req[r].at \in 1..4 /\ req[r].at <= Len(Commands(Current(r)))
    BY <1>2 DEF Doing, DoingInv
  <1>8. /\ cmd \in Mutation => Current(r) \in {"store", "move"} /\ req[r].at = 2
        /\ cmd = "FETCH" => req[r].at = 2
        /\ cmd = "SELECT" => req[r].at = 1
        /\ cmd = "DELETE" => Current(r) = "move" /\ "MOVE" \notin serverCaps /\ req[r].at > 2
        /\ Current(r) = "move" /\ "MOVE" \notin serverCaps /\ req[r].at = 2 => cmd = "COPY"
    BY <1>2, <1>7, CommandAt DEF CommandOf
  <1>9. /\ applied' \in [ImapRequest -> Nat]
        /\ \A q \in ImapRequest \ {r} : applied'[q] = applied[q]
        /\ applied'[r] = IF cmd \in Mutation THEN applied[r] + 1 ELSE applied[r]
        /\ applied[r] \in Nat
    BY <1>1, <1>2
  <1>10. applied[r] <= 1 /\ (applied[r] = 0 \/ Mutated(r))
    BY <1>1 DEF SessionInv, OnceInv
  <1>11. Mutated(r) => Mutated(r)' /\ cmd \notin Mutation
    BY <1>1, <1>5, <1>6, <1>8 DEF Mutated
  <1>12. cmd \in Mutation => Mutated(r)'
    BY <1>5, <1>6, <1>8 DEF Mutated
  <1>13. applied'[r] <= 1 /\ (applied'[r] = 0 \/ Mutated(r)')
    BY <1>9, <1>10, <1>11, <1>12
  <1>14. PastCopy(r) /\ validity = 1 => mail.copies > 0
    BY DEF SessionInv, CopyInv
  <1>15. cmd = "DELETE" => PastCopy(r)
    BY <1>1, <1>8 DEF PastCopy
  <1>16. /\ mail' \in [source : {"there", "deleted", "gone"}, copies : Nat]
         /\ mail'.copies >= mail.copies
         /\ mail'.source # "there" => mail'.copies > 0
         /\ validity = 1 /\ cmd = "COPY" => mail'.copies > 0
    BY <1>1, <1>14, <1>15, EffectFacts
  <1>17. validity = 1 /\ PastCopy(r)' => mail'.copies > 0
    <2>1. PastCopy(r)' /\ req[r].at # 2 => PastCopy(r)
      BY <1>1, <1>5, <1>6 DEF PastCopy
    <2>2. PastCopy(r)' /\ req[r].at = 2 => cmd = "COPY"
      BY <1>1, <1>6, <1>8 DEF PastCopy
    <2>3. mail.copies \in Nat
      BY DEF SessionInv, LaneTyped
    <2> QED BY <1>14, <1>16, <2>1, <2>2, <2>3
  <1>18. BodyInv(r)'
    <2> SUFFICES ASSUME x.kind = "get"
                 PROVE  /\ x.at = 2 => x.chosen = 1
                        /\ x.chosen = validity
                        /\ x.at = 2 => x.read = 1
      BY <1>1, <1>5, <1>6 DEF BodyInv
    <2>1. Current(r) = "fetch"
      BY <1>2, <1>5, TodoShape DEF DoingInv, Current, Doing
    <2>2. \/ req[r].at = 1 /\ cmd = "SELECT"
          \/ req[r].at = 2 /\ cmd = "FETCH"
      BY <1>7, <2>1, CommandPlaces DEF CommandOf, Operation
    <2>3. req[r].at = 2 => req[r].chosen = 1 /\ req[r].chosen = validity
      BY <1>1, <1>5 DEF SessionInv, BodyInv
    <2> QED BY <1>5, <2>2, <2>3 DEF chosen, read
  <1> HIDE DEF cmd
  <1>19. /\ x.pc \in InLane /\ x.at <= Len(Commands(Current(r)))
         /\ owner[LaneFor(r)] = r /\ owner' = owner /\ session' = session
         /\ \A l \in Lane \ {LaneFor(r)} : session'[l].alive => session[l].alive
         /\ \A l \in Lane \ {LaneFor(r)} : owner'[l] = owner[l]
         /\ session' \in [Lane -> Session] /\ owner' \in [Lane -> ImapRequest \cup {Free}]
    BY <1>1, <1>2, <1>5, <1>7 DEF InLane, SessionInv, Owned
  <1> QED
    BY <1>1, <1>5, <1>9, <1>13, <1>16, <1>17, <1>18, <1>19, GoKeeps

LEMMA SettledTyped ==
  ASSUME SessionInv, NEW l \in Lane, Settle(l)
  PROVE  session' \in [Lane -> Session] /\ \A k \in Lane : session'[k].alive = session[k].alive
  <1> DEFINE x == [session[l] EXCEPT !.unanswered = FALSE]
  <1>1. session \in [Lane -> Session] /\ session[l] \in Session
    BY DEF SessionInv, LaneTyped
  <1>2. x \in Session /\ x.alive = session[l].alive
    BY <1>1 DEF Session
  <1>3. session' = [session EXCEPT ![l] = x]
    BY DEF Settle
  <1> HIDE DEF x
  <1> QED BY <1>1, <1>2, <1>3

\* The command's end is the request's.
LEMMA ReturnKeeps ==
  ASSUME SessionInv, NEW r \in ImapRequest, req[r].pc \in InLane, Return(r),
         session' \in [Lane -> Session],
         \A l \in Lane : session'[l].alive => session[l].alive,
         late' \subseteq LateCommand, OneEach(late'),
         \A e \in late' : \E f \in late \cup Left(r, Free) : e.req = f.req /\ e.cmd = f.cmd,
         UNCHANGED <<serverCaps, mail, validity, archive, applied, special>>,
         imapFaults' \in 0..MaxImapFaults
  PROVE  SessionInv'
  <1>1. req[r].pc \in Active
    BY DEF Active, InLane
  <1>2. owner' = Freed(r)
    BY LaneFreed DEF Return
  <1>3. req' = [req EXCEPT ![r] = Answered(r, FALSE)] /\ special' \in Folder \cup {NoFolder}
    BY DEF Return, SessionInv, LaneTyped
  <1>4. Answered(r, FALSE) \in Settled /\ Answered(r, FALSE).ok = FALSE
    BY <1>1, AnsweredTyped
  <1> QED BY <1>1, <1>2, <1>3, <1>4, EndKeeps DEF Freed

SentNext(r) == [req EXCEPT ![r].pc = "sent", ![r].at = @ + 1]

LEMMA SentRecord ==
  ASSUME SessionInv, NEW r \in ImapRequest, req[r] \in Doing, req[r].at + 1 \in 1..4,
         req' = SentNext(r)
  PROVE  \E x \in Doing :
           /\ req' = [req EXCEPT ![r] = x]
           /\ x.pc = "sent" /\ x.at = req[r].at + 1
           /\ x.kind = req[r].kind /\ x.todo = req[r].todo
           /\ x.chosen = req[r].chosen /\ x.read = req[r].read
  <1> DEFINE f1 == [req EXCEPT ![r].pc = "sent"]
             f2 == [f1 EXCEPT ![r].at = @ + 1]
             Same(f) == /\ f[r] \in Doing /\ f[r].pc = "sent"
                        /\ f[r].kind = req[r].kind /\ f[r].todo = req[r].todo
                        /\ f[r].chosen = req[r].chosen /\ f[r].read = req[r].read
                        /\ DOMAIN f = ImapRequest /\ f = [q \in ImapRequest |-> f[q]]
                        /\ \A q \in ImapRequest \ {r} : f[q] = req[q]
  <1>1. req \in [ImapRequest -> {Idle} \cup Doing \cup Settled]
    BY DEF SessionInv, LaneTyped
  <1>2. Same(f1) /\ f1[r].at = req[r].at
    BY <1>1 DEF Doing, Active
  <1> HIDE DEF f1
  <1>3. Same(f2) /\ f2[r].at = req[r].at + 1
    BY <1>2 DEF Doing
  <1>4. req' = f2
    BY DEF f1, SentNext
  <1> HIDE DEF f2
  <1>5. req' = [req EXCEPT ![r] = f2[r]]
    BY <1>1, <1>3, <1>4
  <1> QED BY <1>3, <1>5

\* The next command goes out: after a SELECT that has not been refused, and after
\* a copy.
LEMMA NextCommandKeeps ==
  ASSUME SessionInv, NEW r \in ImapRequest, req[r].pc = "served", session[LaneFor(r)].alive,
         ~Renumbered(r), NextCommand(r), Settle(LaneFor(r)),
         UNCHANGED <<serverCaps, mail, validity, archive, late, applied, imapFaults>>
  PROVE  SessionInv'
  <1>1. req[r].pc \in Active /\ req[r].pc \in InLane
    BY DEF Active, InLane
  <1>2. /\ req[r] \in Doing /\ DoingInv(r) /\ Current(r) \in Operation /\ LaneFor(r) \in Lane
        /\ req \in [ImapRequest -> {Idle} \cup Doing \cup Settled]
        /\ owner \in [Lane -> ImapRequest \cup {Free}]
        /\ applied \in [ImapRequest -> Nat]
        /\ mail \in [source : {"there", "deleted", "gone"}, copies : Nat]
    BY <1>1, DoingTyped DEF SessionInv, LaneTyped
  <1>3. /\ req[r].at \in 1..4 /\ req[r].at < Len(Commands(Current(r)))
        /\ Len(Commands(Current(r))) \in 1..4
        /\ req' = SentNext(r)
        /\ UNCHANGED <<owner, special>>
    BY <1>2, CommandPlaces DEF NextCommand, Doing, SentNext
  <1>12. req[r].at + 1 \in 1..4
    <2>1. PICK n \in 1..4 : Len(Commands(Current(r))) = n
      BY <1>3
    <2>2. PICK i \in 1..4 : req[r].at = i
      BY <1>3
    <2>3. i < n
      BY <1>3, <2>1, <2>2
    <2> QED BY <2>2, <2>3
  <1>4. PICK x \in Doing :
           /\ req' = [req EXCEPT ![r] = x]
           /\ x.pc = "sent" /\ x.at = req[r].at + 1
           /\ x.kind = req[r].kind /\ x.todo = req[r].todo
           /\ x.chosen = req[r].chosen /\ x.read = req[r].read
    BY <1>2, <1>3, <1>12, SentRecord
  <1>5. req'[r] = x /\ Current(r)' = Current(r) /\ LaneFor(r)' = LaneFor(r)
    BY <1>2, <1>4 DEF Current, LaneFor
  <1>6. applied'[r] <= 1 /\ (applied'[r] = 0 \/ Mutated(r)')
    <2>1. applied[r] <= 1 /\ (applied[r] = 0 \/ Mutated(r))
      BY <1>1 DEF SessionInv, OnceInv
    <2>2. Mutated(r) => Mutated(r)'
      BY <1>3, <1>4, <1>5 DEF Mutated
    <2> QED BY <2>1, <2>2
  <1>7. validity = 1 /\ PastCopy(r)' => mail'.copies > 0
    <2>1. PastCopy(r)' => PastCopy(r)
      BY <1>1, <1>3, <1>4, <1>5 DEF PastCopy
    <2> QED BY <2>1 DEF SessionInv, CopyInv
  <1>8. BodyInv(r)'
    <2> SUFFICES ASSUME x.kind = "get"
                 PROVE  /\ x.at = 2 => x.chosen = 1
                        /\ x.at = 2 /\ session'[LaneFor(r)].alive => x.chosen = validity
      BY <1>4, <1>5 DEF BodyInv
    <2>1. Current(r) = "fetch" /\ CommandOf(r) = "SELECT" /\ req[r].at = 1
      <3>1. Current(r) = "fetch"
        BY <1>2, <1>4, TodoShape DEF DoingInv, Current, Doing
      <3>3. Len(Commands(Current(r))) = 2
        BY <1>2, <3>1, CommandPlaces
      <3>2. req[r].at = 1
        BY <1>3, <3>3
      <3> QED BY <3>1, <3>2, CommandPlaces DEF CommandOf, Operation
    <2>2. req[r].chosen = 1
      BY <1>4, <2>1 DEF Renumbered
    <2>3. req[r].chosen = validity
      BY <1>1, <1>4 DEF SessionInv, BodyInv
    <2> QED BY <1>4, <2>2, <2>3
  <1>9. /\ session' \in [Lane -> Session]
        /\ \A l \in Lane \ {LaneFor(r)} : session'[l].alive => session[l].alive
    BY <1>2, SettledTyped
  <1>10. /\ x.pc \in InLane /\ x.at <= Len(Commands(Current(r)))
         /\ owner[LaneFor(r)] = r /\ owner'[LaneFor(r)] = r
         /\ owner' \in [Lane -> ImapRequest \cup {Free}]
         /\ \A l \in Lane \ {LaneFor(r)} : owner'[l] = owner[l]
    BY <1>1, <1>2, <1>3, <1>4 DEF InLane, SessionInv, Owned
  <1>11. /\ mail' \in [source : {"there", "deleted", "gone"}, copies : Nat]
         /\ mail'.copies >= mail.copies
         /\ mail'.source # "there" => mail'.copies > 0
         /\ applied' \in [ImapRequest -> Nat]
         /\ \A q \in ImapRequest \ {r} : applied'[q] = applied[q]
    BY <1>2 DEF SessionInv, CopyInv
  <1> QED
    BY <1>1, <1>3, <1>4, <1>6, <1>7, <1>8, <1>9, <1>10, <1>11, GoKeeps

LEMMA ReadAnswerKeeps ==
  ASSUME SessionInv, NEW r \in ImapRequest, ReadAnswer(r)
  PROVE  SessionInv'
  <1>1. /\ req[r].pc = "served" /\ req[r].pc \in InLane /\ req[r].pc \in Active
        /\ session[LaneFor(r)].alive /\ Settle(LaneFor(r))
        /\ UNCHANGED <<serverCaps, mail, validity, archive, late, applied, imapFaults>>
    BY DEF ReadAnswer, InLane, Active
  <1>2. /\ req[r] \in Doing /\ DoingInv(r) /\ Current(r) \in Operation /\ LaneFor(r) \in Lane
    BY <1>1, DoingTyped
  <1>3. /\ session' \in [Lane -> Session]
        /\ \A l \in Lane : session'[l].alive => session[l].alive
        /\ late' \subseteq LateCommand /\ OneEach(late')
        /\ \A e \in late' : \E f \in late : e.req = f.req /\ e.cmd = f.cmd
        /\ imapFaults' \in 0..MaxImapFaults
    BY <1>1, <1>2, SettledTyped DEF SessionInv, LaneTyped
  <1>4. CASE Return(r) /\ UNCHANGED special
    BY <1>1, <1>3, <1>4, ReturnKeeps
  <1>5. CASE ~Renumbered(r) /\ NextCommand(r)
    BY <1>1, <1>5, NextCommandKeeps
  <1>6. CASE ~Renumbered(r) /\ NextOperation(r)
    <2>1. owner' = Freed(r)
      BY <1>1, <1>6, LaneFreed DEF NextOperation
    <2>2. req[r].kind = "get" => req[r].read = 1
      <3> SUFFICES ASSUME req[r].kind = "get" PROVE req[r].read = 1
        OBVIOUS
      <3>1. Current(r) = "fetch"
        BY <1>2, TodoShape DEF DoingInv, Current, Doing
      <3>2. req[r].at = 2
        BY <1>6, <3>1, CommandPlaces DEF NextOperation, Operation
      <3> QED BY <1>1, <3>2 DEF SessionInv, BodyInv
    <2>3. special' \in Folder \cup {NoFolder}
      BY <1>2, <1>6 DEF NextOperation, GoOn, Doing, SessionInv, LaneTyped
    <2>4. req' = [req EXCEPT ![r] =
                   IF Len(req[r].todo) = 1 THEN Answered(r, TRUE)
                   ELSE [req[r] EXCEPT !.pc = "lock", !.at = 1, !.retried = FALSE,
                                       !.todo = Tail(@)]]
      BY <1>6 DEF NextOperation, GoOn
    <2> QED BY <1>1, <1>3, <2>1, <2>2, <2>3, <2>4, NextOperationKeeps
  <1> QED BY <1>4, <1>5, <1>6 DEF ReadAnswer

LEMMA ImapFaultCounted ==
  ASSUME SessionInv, Fault \/ imapFaults' = imapFaults
  PROVE  imapFaults' \in 0..MaxImapFaults
  BY DEF SessionInv, LaneTyped, Fault

\* A listing goes on without its counts, every other request fails.
LEMMA FailCommandKeeps ==
  ASSUME SessionInv, NEW r \in ImapRequest, req[r].pc \in InLane, FailCommand(r),
         session' \in [Lane -> Session],
         \A l \in Lane : session'[l].alive => session[l].alive,
         late' \subseteq LateCommand, OneEach(late'),
         \A e \in late' : \E f \in late \cup Left(r, Free) : e.req = f.req /\ e.cmd = f.cmd,
         UNCHANGED <<serverCaps, mail, validity, archive, applied>>,
         imapFaults' \in 0..MaxImapFaults
  PROVE  SessionInv'
  <1>1. req[r].pc \in Active
    BY DEF Active, InLane
  <1>2. req[r] \in Doing /\ DoingInv(r) /\ Current(r) \in Operation
    BY <1>1, DoingTyped
  <1>4. CASE Current(r) = "status"
    <2>1. /\ owner' = Freed(r)
          /\ req' = [req EXCEPT ![r] =
                   IF Len(req[r].todo) = 1 THEN Answered(r, TRUE)
                   ELSE [req[r] EXCEPT !.pc = "lock", !.at = 1, !.retried = FALSE,
                                       !.todo = Tail(@)]]
      BY <1>4, LaneFreed DEF FailCommand, GoOn
    <2>2. special' \in Folder \cup {NoFolder}
      BY <1>2, <1>4 DEF FailCommand, GoOn, Doing
    <2>3. req[r].kind # "get"
      BY <1>2, <1>4, TodoShape DEF DoingInv, Current, Doing
    <2>4. Left(r, Free) = {}
      BY <1>1, <1>4, LeftUndone
    <2>5. \A e \in late' : \E f \in late : e.req = f.req /\ e.cmd = f.cmd
      BY <2>4
    <2> QED BY <1>1, <2>1, <2>2, <2>3, <2>5, NextOperationKeeps
  <1>5. CASE Current(r) # "status"
    <2>1. Return(r) /\ UNCHANGED special
      BY <1>5 DEF FailCommand
    <2> QED BY <2>1, ReturnKeeps
  <1> QED BY <1>4, <1>5

LEMMA RefuseKeeps ==
  ASSUME SessionInv, NEW r \in ImapRequest, Refuse(r)
  PROVE  SessionInv'
  <1>1. /\ req[r].pc \in InLane /\ req[r].pc \in Active
        /\ Settle(LaneFor(r)) /\ FailCommand(r)
        /\ UNCHANGED <<serverCaps, mail, validity, archive, late, applied>>
        /\ Fault \/ imapFaults' = imapFaults
    BY DEF Refuse, InLane, Active
  <1>2. LaneFor(r) \in Lane
    BY <1>1, DoingTyped
  <1>3. /\ session' \in [Lane -> Session]
        /\ \A l \in Lane : session'[l].alive => session[l].alive
        /\ late' \subseteq LateCommand /\ OneEach(late')
        /\ \A e \in late' : \E f \in late \cup Left(r, Free) : e.req = f.req /\ e.cmd = f.cmd
        /\ imapFaults' \in 0..MaxImapFaults
    BY <1>1, <1>2, SettledTyped, ImapFaultCounted DEF SessionInv, LaneTyped
  <1> QED BY <1>1, <1>3, FailCommandKeeps

LEMMA MistakeAnswerKeeps ==
  ASSUME SessionInv, NEW r \in ImapRequest, MistakeAnswer(r)
  PROVE  SessionInv'
  <1>1. /\ req[r].pc \in InLane /\ req[r].pc \in Active /\ FailCommand(r)
        /\ late' = late \cup Left(r, LaneFor(r))
        /\ UNCHANGED <<serverCaps, mail, validity, archive, session, applied>>
        /\ Fault
    BY DEF MistakeAnswer, InLane, Active
  <1>2. LaneFor(r) \in Lane
    BY <1>1, DoingTyped
  <1>3. /\ late' \subseteq LateCommand /\ OneEach(late')
        /\ \A e \in late' : \E f \in late \cup Left(r, Free) : e.req = f.req /\ e.cmd = f.cmd
    BY <1>1, <1>2, LateGrows
  <1>4. /\ session' \in [Lane -> Session]
        /\ \A l \in Lane : session'[l].alive => session[l].alive
        /\ imapFaults' \in 0..MaxImapFaults
    BY <1>1, ImapFaultCounted DEF SessionInv, LaneTyped
  <1> QED BY <1>1, <1>3, <1>4, FailCommandKeeps

LEMMA Invalidated ==
  ASSUME SessionInv, NEW r \in ImapRequest, req[r].pc \in InLane, Invalidate(r)
  PROVE  /\ owner' = Freed(r)
         /\ session' \in [Lane -> Session]
         /\ \A l \in Lane : session'[l].alive => session[l].alive
         /\ late' \subseteq LateCommand /\ OneEach(late')
         /\ \A e \in late' : \E f \in late \cup Left(r, Free) : e.req = f.req /\ e.cmd = f.cmd
  <1>1. req[r].pc \in Active
    BY DEF Active, InLane
  <1>2. LaneFor(r) \in Lane /\ session \in [Lane -> Session]
    BY <1>1, DoingTyped DEF SessionInv, LaneTyped
  <1>3. owner' = Freed(r)
    BY LaneFreed DEF Invalidate
  <1>4. NoSession \in Session /\ NoSession.alive = FALSE
    BY DEF NoSession, Session
  <1>5. /\ session' \in [Lane -> Session]
        /\ \A l \in Lane : session'[l].alive => session[l].alive
    <2>1. session' = [session EXCEPT ![LaneFor(r)] = NoSession]
      BY DEF Invalidate
    <2> QED BY <1>2, <1>4, <2>1
  <1>6. PICK left \in {Left(r, Free), {}} : late' = Orphaned(LaneFor(r)) \cup left
    BY DEF Invalidate
  <1>7. /\ late' \subseteq LateCommand /\ OneEach(late')
        /\ \A e \in late' : \E f \in late \cup left : e.req = f.req /\ e.cmd = f.cmd
    BY Zenon, <1>1, <1>2, <1>6, LateOrphaned
  <1>8. left \subseteq Left(r, Free)
    BY <1>6
  <1> QED BY <1>3, <1>5, <1>7, <1>8

LEMMA LoseConnectionKeeps ==
  ASSUME SessionInv, NEW r \in ImapRequest, LoseConnection(r)
  PROVE  SessionInv'
  <1>1. /\ req[r].pc \in InLane /\ req[r].pc \in Active /\ Invalidate(r)
        /\ req' = [req EXCEPT ![r] = RetryOrFail(r)]
        /\ UNCHANGED <<serverCaps, mail, validity, archive, special, applied>>
    BY DEF LoseConnection, InLane, Active
  <1>2. imapFaults' \in 0..MaxImapFaults /\ special' \in Folder \cup {NoFolder}
    BY <1>1 DEF LoseConnection, SessionInv, LaneTyped
  <1> QED BY <1>1, <1>2, Invalidated, RetryOrFailKeeps

LEMMA TimeOutKeeps ==
  ASSUME SessionInv, NEW r \in ImapRequest, TimeOut(r)
  PROVE  SessionInv'
  <1>1. /\ req[r].pc \in InLane /\ req[r].pc \in Active /\ Invalidate(r) /\ Fault
        /\ UNCHANGED <<serverCaps, mail, validity, archive, applied>>
    BY DEF TimeOut, InLane, Active
  <1>2. req[r] \in Doing /\ DoingInv(r) /\ Current(r) \in Operation
    BY <1>1, DoingTyped
  <1>3. imapFaults' \in 0..MaxImapFaults
    BY <1>1, ImapFaultCounted
  <1>4. special' \in Folder \cup {NoFolder}
    BY <1>2 DEF TimeOut, GoOn, Doing, SessionInv, LaneTyped
  <1>5. CASE Current(r) = "status"
    <2>1. req' = [req EXCEPT ![r] =
                   IF Len(req[r].todo) = 1 THEN Answered(r, TRUE)
                   ELSE [req[r] EXCEPT !.pc = "lock", !.at = 1, !.retried = FALSE,
                                       !.todo = Tail(@)]]
      BY <1>5 DEF TimeOut, GoOn
    <2>2. req[r].kind # "get"
      BY <1>2, <1>5, TodoShape DEF DoingInv, Current, Doing
    <2>3. Left(r, Free) = {}
      BY <1>1, <1>5, LeftUndone
    <2>4. \A e \in late' : \E f \in late : e.req = f.req /\ e.cmd = f.cmd
      BY <1>1, <2>3, Invalidated
    <2> QED BY <1>1, <1>3, <1>4, <2>1, <2>2, <2>4, Invalidated, NextOperationKeeps
  <1>6. CASE Current(r) # "status"
    <2>1. req' = [req EXCEPT ![r] = RetryOrFail(r)]
      BY <1>6 DEF TimeOut
    <2> QED BY <1>1, <1>3, <1>4, <2>1, Invalidated, RetryOrFailKeeps
  <1> QED BY <1>5, <1>6

LEMMA ImapAbortKeeps ==
  ASSUME SessionInv, NEW r \in ImapRequest, Abort(r)
  PROVE  SessionInv'
  <1> DEFINE x == [pc |-> "aborted", kind |-> req[r].kind]
             s == [session[LaneFor(r)] EXCEPT !.unanswered =
                     session[LaneFor(r)].unanswered \/ req[r].pc \in {"sent", "served"}]
  <1>1. /\ req[r].pc \in Active /\ Fault
        /\ req' = [req EXCEPT ![r] = x]
        /\ owner' = [owner EXCEPT ![LaneFor(r)] = IF owner[LaneFor(r)] = r THEN Free
                                                  ELSE owner[LaneFor(r)]]
        /\ late' \subseteq late \cup Left(r, LaneFor(r))
        /\ session' = [session EXCEPT ![LaneFor(r)] = s]
        /\ UNCHANGED <<serverCaps, mail, validity, archive, special, applied>>
    BY DEF Abort, Active
  <1>2. /\ req[r] \in Doing /\ LaneFor(r) \in Lane
        /\ session \in [Lane -> Session] /\ session[LaneFor(r)] \in Session
        /\ owner \in [Lane -> ImapRequest \cup {Free}]
    BY <1>1, DoingTyped DEF SessionInv, LaneTyped
  <1>3. x \in Settled /\ x.pc # "answered"
    BY <1>2 DEF Settled, Doing
  <1>4. s \in Session /\ s.alive = session[LaneFor(r)].alive
    BY <1>2 DEF Session
  <1> HIDE DEF x, s
  <1>5. /\ session' \in [Lane -> Session]
        /\ \A l \in Lane : session'[l].alive => session[l].alive
    BY <1>1, <1>2, <1>4
  <1>6. owner' = Freed(r)
    <2>1. \A l \in Lane : l # LaneFor(r) => owner[l] # r
      BY DEF SessionInv, Owned
    <2> QED BY <1>1, <1>2, <2>1 DEF Freed
  <1>7. /\ late' \subseteq LateCommand /\ OneEach(late')
        /\ \A e \in late' : \E f \in late \cup Left(r, Free) : e.req = f.req /\ e.cmd = f.cmd
    BY <1>1, <1>2, LateGrows
  <1>8. imapFaults' \in 0..MaxImapFaults /\ special' \in Folder \cup {NoFolder}
    BY <1>1, ImapFaultCounted DEF SessionInv, LaneTyped
  <1> QED BY <1>1, <1>3, <1>5, <1>6, <1>7, <1>8, EndKeeps DEF Freed

-----------------------------------------------------------------------------
(* The steps of the server                                                 *)

\* What concerns a request in progress stays as the server moves, if sessions only
\* die and the mailbox is renumbered only when all of them do.
LEMMA ImapServerKeeps ==
  ASSUME SessionInv, LaneTyped', UNCHANGED <<serverCaps, owner, req>>,
         \A r \in ImapRequest : OnceInv(r)', OneEach(late'),
         \A l \in Lane : session'[l].alive => session[l].alive /\ validity' = validity,
         validity' = 1 => validity = 1,
         mail'.copies >= mail.copies,
         mail'.source # "there" => mail'.copies > 0,
         \A e \in late' : \E f \in late : e.cmd = f.cmd
  PROVE  SessionInv'
  <1>1. \A r \in ImapRequest : /\ Current(r)' = Current(r) /\ LaneFor(r)' = LaneFor(r)
                               /\ PastCopy(r)' <=> PastCopy(r)
    BY DEF Current, LaneFor, PastCopy
  <1>2. Owned'
    BY <1>1 DEF SessionInv, Owned
  <1>3. ASSUME NEW r \in ImapRequest PROVE BodyInv(r)'
    <2>1. BodyInv(r) /\ LaneFor(r) \in Lane
      BY DEF SessionInv, LaneFor, LaneOf, Lane
    <2> QED BY <1>1, <2>1 DEF BodyInv
  <1>4. CopyInv'
    <2>1. mail.copies \in Nat /\ mail'.copies \in Nat
      BY DEF SessionInv, LaneTyped
    <2> QED BY <1>1, <2>1 DEF SessionInv, CopyInv
  <1> QED BY <1>2, <1>3, <1>4 DEF SessionInv

LEMMA DoingSame ==
  ASSUME SessionInv, UNCHANGED <<serverCaps, req>>
  PROVE  \A r \in ImapRequest : req'[r].pc \in Active => DoingInv(r)'
  <1> SUFFICES ASSUME NEW r \in ImapRequest, req'[r].pc \in Active PROVE DoingInv(r)'
    OBVIOUS
  <1>1. DoingInv(r) /\ Current(r)' = Current(r)
    BY DEF SessionInv, LaneTyped, Current
  <1>2. Commands(Current(r))' = Commands(Current(r))
    BY <1>1, CommandsSame
  <1> QED BY <1>1, <1>2 DEF DoingInv

\* The commands that are left over lose their lanes.
LEMMA DisconnectKeeps ==
  ASSUME SessionInv, NEW lanes \in SUBSET Lane,
         late' = {Unlaned(e, lanes) : e \in late},
         UNCHANGED <<serverCaps, mail, archive, owner, special, req, applied>>,
         validity' \in 1..2, validity' = 1 => validity = 1,
         session' \in [Lane -> Session],
         \A l \in Lane : session'[l].alive => session[l].alive /\ validity' = validity,
         imapFaults' \in 0..MaxImapFaults
  PROVE  SessionInv'
  <1>1. /\ late' \subseteq LateCommand
        /\ OneEach(late')
        /\ \A e \in late' : \E f \in late : e.req = f.req /\ e.cmd = f.cmd
    BY LateKept DEF SessionInv, LaneTyped
  <1>2. LaneTyped'
    BY <1>1, DoingSame DEF SessionInv, LaneTyped
  <1>3. ASSUME NEW r \in ImapRequest PROVE OnceInv(r)'
    <2>1. Mutated(r)' <=> Mutated(r)
      BY DEF Mutated, Current
    <2>2. OnceInv(r)
      BY DEF SessionInv
    <2> QED BY <1>1, <2>1, <2>2 DEF OnceInv
  <1>4. mail'.copies >= mail.copies /\ (mail'.source # "there" => mail'.copies > 0)
    BY DEF SessionInv, LaneTyped, CopyInv
  <1> QED BY <1>1, <1>2, <1>3, <1>4, ImapServerKeeps

LEMMA ServeLateKeeps ==
  ASSUME SessionInv, NEW e \in late, ServeLate(e)
  PROVE  SessionInv'
  <1> DEFINE q == e.req
  <1>1. /\ late' = late \ {e}
        /\ UNCHANGED <<serverCaps, validity, archive, session, owner, special, req, imapFaults>>
    BY DEF ServeLate
  <1>2. /\ q \in ImapRequest /\ applied \in [ImapRequest -> Nat]
        /\ mail \in [source : {"there", "deleted", "gone"}, copies : Nat]
    BY DEF SessionInv, LaneTyped, LateCommand
  <1>3. \/ UNCHANGED <<mail, applied>>
        \/ mail' = Effect(e.cmd, e.to) /\ Counted(q, e.cmd)
    BY DEF ServeLate
  <1>4. validity = 1 /\ e.cmd = "DELETE" => mail.copies > 0
    BY DEF SessionInv, CopyInv
  <1>5. /\ mail' \in [source : {"there", "deleted", "gone"}, copies : Nat]
        /\ mail'.copies >= mail.copies
        /\ mail'.source # "there" => mail'.copies > 0
    <2>1. CASE mail' = mail
      BY <1>2, <2>1 DEF SessionInv, CopyInv
    <2>2. CASE mail' = Effect(e.cmd, e.to)
      BY <1>4, <2>2, EffectFacts
    <2> QED BY <1>3, <2>1, <2>2
  <1>6. /\ applied' \in [ImapRequest -> Nat]
        /\ \A r \in ImapRequest \ {q} : applied'[r] = applied[r]
        /\ \/ applied'[q] = applied[q]
           \/ e.cmd \in Mutation /\ applied'[q] = applied[q] + 1
    BY <1>2, <1>3 DEF Counted
  <1> HIDE DEF q
  <1>7. /\ req[q].pc \notin {"idle"} \cup Active
        /\ e.cmd \in Mutation => applied[q] = 0
        /\ applied[q] <= 1 /\ applied[q] \in Nat
        /\ \A f \in late' : f.req # q
    BY <1>1, <1>2 DEF SessionInv, OnceInv, OneEach, q
  <1>8. ASSUME NEW r \in ImapRequest PROVE OnceInv(r)'
    <2>1. (Mutated(r)' <=> Mutated(r)) /\ OnceInv(r)
      BY <1>1 DEF Mutated, Current, SessionInv
    <2>2. CASE r = q
      BY <1>1, <1>6, <1>7, <2>2 DEF OnceInv
    <2>3. CASE r # q
      BY <1>1, <1>6, <2>1, <2>3 DEF OnceInv
    <2> QED BY <2>2, <2>3
  <1>9. LaneTyped'
    BY <1>1, <1>5, <1>6, DoingSame DEF SessionInv, LaneTyped
  <1>10. OneEach(late')
    BY <1>1 DEF SessionInv, OneEach
  <1> QED BY <1>1, <1>5, <1>8, <1>9, <1>10, ImapServerKeeps

LEMMA CloseLaneKeeps ==
  ASSUME SessionInv, NEW l \in Lane, CloseLane(l)
  PROVE  SessionInv'
  <1> DEFINE s == [session[l] EXCEPT !.alive = FALSE]
  <1>1. late' = {Unlaned(e, {l}) : e \in late}
    BY DEF CloseLane, Orphaned, Unlaned
  <1>2. session \in [Lane -> Session] /\ session' = [session EXCEPT ![l] = s]
    BY DEF CloseLane, SessionInv, LaneTyped
  <1>3. s \in Session /\ s.alive = FALSE
    BY <1>2 DEF Session
  <1> HIDE DEF s
  <1>4. UNCHANGED <<serverCaps, mail, validity, archive, owner, special, req, applied>>
    BY DEF CloseLane
  <1>5. validity' \in 1..2 /\ imapFaults' \in 0..MaxImapFaults
    BY <1>4, ImapFaultCounted DEF CloseLane, SessionInv, LaneTyped
  <1> QED BY <1>1, <1>2, <1>3, <1>4, <1>5, DisconnectKeeps

LEMMA RenumberKeeps ==
  ASSUME SessionInv, Renumber
  PROVE  SessionInv'
  <1>1. /\ validity' = 2
        /\ session' = [l \in Lane |-> [session[l] EXCEPT !.alive = FALSE]]
        /\ late' = {[e EXCEPT !.lane = Free] : e \in late}
        /\ UNCHANGED <<serverCaps, mail, archive, owner, special, req, applied>>
    BY DEF Renumber
  <1>2. ASSUME NEW e \in late PROVE [e EXCEPT !.lane = Free] = Unlaned(e, Lane)
    <2>1. e \in LateCommand
      BY DEF SessionInv, LaneTyped
    <2>2. e.lane \in Lane \cup {Free}
      BY <2>1 DEF LateCommand
    <2> QED BY <2>1, <2>2 DEF Unlaned
  <1>3. late' = {Unlaned(e, Lane) : e \in late}
    BY <1>1, <1>2
  <1>4. ASSUME NEW l \in Lane
        PROVE  /\ [session[l] EXCEPT !.alive = FALSE] \in Session
               /\ [session[l] EXCEPT !.alive = FALSE].alive = FALSE
    <2>1. session[l] \in Session
      BY DEF SessionInv, LaneTyped
    <2> QED BY <2>1 DEF Session
  <1>5. session' \in [Lane -> Session] /\ \A l \in Lane : ~session'[l].alive
    BY <1>1, <1>4
  <1>6. imapFaults' \in 0..MaxImapFaults
    BY ImapFaultCounted DEF Renumber
  <1>7. /\ validity' \in 1..2 /\ (validity' = 1 => validity = 1)
        /\ \A l \in Lane : session'[l].alive => session[l].alive /\ validity' = validity
    BY <1>1, <1>5
  <1> QED BY <1>1, <1>3, <1>5, <1>6, <1>7, DisconnectKeeps

LEMMA RenameArchiveKeeps ==
  ASSUME SessionInv, RenameArchive
  PROVE  SessionInv'
  <1>1. /\ archive' \in Folder
        /\ UNCHANGED <<serverCaps, mail, validity, late, session, owner, special, req, applied>>
    BY DEF RenameArchive, Folder
  <1>2. imapFaults' \in 0..MaxImapFaults
    BY ImapFaultCounted DEF RenameArchive
  <1>3. LaneTyped'
    BY <1>1, <1>2, DoingSame DEF SessionInv, LaneTyped
  <1>4. \A r \in ImapRequest : OnceInv(r)'
    BY <1>1 DEF SessionInv, OnceInv, Mutated, Current
  <1>5. OneEach(late')
    BY <1>1 DEF SessionInv, OneEach
  <1>6. mail'.copies >= mail.copies /\ (mail'.source # "there" => mail'.copies > 0)
    BY <1>1 DEF SessionInv, LaneTyped, CopyInv
  <1>7. /\ \A l \in Lane : session'[l].alive => session[l].alive /\ validity' = validity
        /\ \A e \in late' : \E f \in late : e.cmd = f.cmd
    BY <1>1
  <1> QED BY <1>1, <1>3, <1>4, <1>5, <1>6, <1>7, ImapServerKeeps

-----------------------------------------------------------------------------
LEMMA SessionInit == ImapInit => SessionInv
  <1> SUFFICES ASSUME ImapInit PROVE SessionInv
    OBVIOUS
  <1>1. \A r \in ImapRequest : req[r] = Idle /\ req[r].pc = "idle" /\ applied[r] = 0
    BY DEF ImapInit, Idle
  <1>2. late = {} /\ mail = [source |-> "there", copies |-> 0] /\ \A l \in Lane : owner[l] = Free
    BY DEF ImapInit
  <1>3. LaneTyped
    <2>1. NoSession \in Session
      BY DEF NoSession, Session
    <2>2. 0 \in 0..MaxImapFaults
      BY ImapAssumption
    <2> QED BY <1>1, <1>2, <2>1, <2>2 DEF ImapInit, LaneTyped, Folder, Active
  <1>4. Owned
    BY <1>1, <1>2, ImapAssumption DEF Owned, InLane
  <1>5. \A r \in ImapRequest : OnceInv(r) /\ BodyInv(r) /\ ~PastCopy(r)
    BY <1>1, <1>2 DEF OnceInv, BodyInv, PastCopy, InLane, Active
  <1> QED BY <1>2, <1>3, <1>4, <1>5 DEF SessionInv, OneEach, CopyInv

LEMMA SessionNext == SessionInv /\ [ImapNext]_imapVars => SessionInv'
  <1> SUFFICES ASSUME SessionInv, [ImapNext]_imapVars PROVE SessionInv'
    OBVIOUS
  <1>1. CASE UNCHANGED imapVars
    <2>1. UNCHANGED <<serverCaps, mail, validity, archive, late, session, owner, special, req,
                      applied, imapFaults>>
      BY <1>1 DEF imapVars
    <2>2. LaneTyped'
      BY <2>1, DoingSame DEF SessionInv, LaneTyped
    <2>3. \A r \in ImapRequest : OnceInv(r)'
      BY <2>1 DEF SessionInv, OnceInv, Mutated, Current
    <2>4. /\ mail'.copies >= mail.copies /\ (mail'.source # "there" => mail'.copies > 0)
          /\ OneEach(late')
          /\ \A l \in Lane : session'[l].alive => session[l].alive /\ validity' = validity
          /\ \A e \in late' : \E f \in late : e.cmd = f.cmd
      BY <2>1 DEF SessionInv, LaneTyped, CopyInv
    <2> QED BY <2>1, <2>2, <2>3, <2>4, ImapServerKeeps
  <1>2. ASSUME NEW r \in ImapRequest, NEW kind \in Kind, Begin(r, kind) PROVE SessionInv'
    BY <1>2, BeginKeeps
  <1>3. ASSUME NEW r \in ImapRequest, Step(r) PROVE SessionInv'
    BY <1>3, LockSessionKeeps, ServeKeeps, ReadAnswerKeeps, RefuseKeeps, LoseConnectionKeeps
    DEF Step
  <1>4. ASSUME NEW r \in ImapRequest,
               ConnectFails(r) \/ MistakeAnswer(r) \/ TimeOut(r) \/ Abort(r)
        PROVE  SessionInv'
    BY <1>4, ConnectFailsKeeps, MistakeAnswerKeeps, TimeOutKeeps, ImapAbortKeeps
  <1>5. CASE \E e \in late : ServeLate(e)
    BY <1>5, ServeLateKeeps
  <1>6. CASE \E l \in Lane : CloseLane(l)
    BY <1>6, CloseLaneKeeps
  <1>7. CASE Renumber \/ RenameArchive
    BY <1>7, RenumberKeeps, RenameArchiveKeeps
  <1> QED BY <1>1, <1>2, <1>3, <1>4, <1>5, <1>6, <1>7 DEF ImapNext

LEMMA SessionInvariant == ImapSpec => []SessionInv
  BY SessionInit, SessionNext, PTL DEF ImapSpec

\* Every variable of the session model keeps its type, and a lane is held by
\* exactly the request whose commands go over it, whatever breaks or is aborted.
THEOREM SessionTypeCorrect == ImapSpec => []ImapTypeOK
  <1>1. SessionInv => ImapTypeOK
    <2> SUFFICES ASSUME SessionInv PROVE ImapTypeOK
      OBVIOUS
    <2>1. Doing \subseteq Working
      <3> SUFFICES ASSUME NEW d \in Doing PROVE d \in Working
        OBVIOUS
      <3>1. d.todo \in Seq(Operation)
        BY TodoShape DEF Doing
      <3> QED BY <3>1 DEF Doing, Working, Active
    <2>2. \A l \in Lane, r \in ImapRequest :
            owner[l] = r <=> /\ req[r].pc \in {"sent", "served"}
                             /\ LaneOf(req[r].todo[1]) = l
      BY DEF SessionInv, Owned, InLane, LaneFor, Current
    <2> QED BY <2>1, <2>2 DEF SessionInv, LaneTyped, LateCommand, ImapTypeOK
  <1> QED BY <1>1, SessionInvariant, PTL

\* A request changes the server at most once, however many requests share the
\* lanes, however often their connections break and whenever commands that were
\* left over are executed.
THEOREM SessionMutatesOnce == ImapSpec => []MutatesOnce
  <1>1. SessionInv => MutatesOnce
    BY DEF SessionInv, OnceInv, MutatesOnce
  <1> QED BY <1>1, SessionInvariant, PTL

\* A message that is gone from its mailbox is in the archive, wherever the sequence
\* of a move is cut off and whatever of it is executed later.
THEOREM SessionNothingLost == ImapSpec => []NothingLost
  <1>1. SessionInv => NothingLost
    BY DEF SessionInv, CopyInv, NothingLost
  <1> QED BY <1>1, SessionInvariant, PTL

\* A body that is answered is of the generation it was asked for in, also when the
\* mailbox is renumbered and the operation repeated on another session.
THEOREM SessionBodyOfAsked == ImapSpec => []BodyOfAsked
  <1>1. SessionInv => BodyOfAsked
    BY DEF SessionInv, BodyInv, BodyOfAsked
  <1> QED BY <1>1, SessionInvariant, PTL

-----------------------------------------------------------------------------
(* The submission: the inductive invariant                                 *)

\* The steps under the pool's mutex.
InPool == {"connect", "write", "flush", "read"}

Piece == SendRequest \cup {"part", "line"}

Delivery == [env : SendRequest, text : Seq(Piece)]

Underway == [pc : Waiting, stage : Stage, reused : BOOLEAN, attempt : 0..1]

\* A reply that ends the transaction is among the first k.
Bad(R, k) == \E i \in 1..k : i <= Len(R) /\ R[i] \in {503, 550}

\* A 354 is the last reply, since a server that takes a message answers no line.
GoAheadLast(c) ==
    \A i \in 1..Len(c.replies) :
        c.replies[i] = 354 => i = Len(c.replies) /\ (c.alive => c.phase = "data")

\* What any request may leave a connection in: replies nobody read are two at
\* most before one that ends the next transaction.
LeftPooled(c) ==
    /\ GoAheadLast(c)
    /\ c.alive /\ c.pending =>
          /\ c.phase = "data" /\ c.replies = <<>>
          /\ c.env \in SendRequest /\ c.text = <<c.env>>
    /\ c.alive =>
          \/ Bad(c.replies, 3)
          \/ c.phase = "idle" /\ c.replies \in {<<>>, <<250>>}
          \/ c.phase \in {"mail", "rcpt"} /\ c.replies \in {<<>>, <<250>>, <<250, 250>>}
          \/ c.phase = "data" /\ c.replies \in {<<>>, <<354>>, <<250, 354>>}

Mine(c, r, phase) == c.phase = phase /\ c.env = r /\ c.text = <<>>

\* Where the transaction of r is when it has come to a stage: it is r's own, or
\* a reply in front of its next 354 will end it.
InMail(c, r) ==
    c.alive => \/ Bad(c.replies, 3)
               \/ Mine(c, r, "mail") /\ c.replies \in {<<250>>, <<250, 250>>}
               \/ c.phase = "data"

BeforeRcpt(c, r) ==
    c.alive => \/ Bad(c.replies, 2)
               \/ Mine(c, r, "mail") /\ c.replies \in {<<>>, <<250>>}
               \/ c.phase = "data" /\ c.replies = <<354>>

InRcpt(c, r) ==
    c.alive => \/ Bad(c.replies, 2)
               \/ Mine(c, r, "rcpt") /\ c.replies \in {<<250>>, <<250, 250>>}
               \/ c.phase = "data" /\ c.replies = <<354>>

BeforeData(c, r) ==
    c.alive => \/ Bad(c.replies, 1)
               \/ Mine(c, r, "rcpt") /\ c.replies \in {<<>>, <<250>>}

InData(c, r) ==
    c.alive => \/ Bad(c.replies, 2) /\ c.replies[1] # 354
               \/ Mine(c, r, "data") /\ c.replies \in {<<354>>, <<250, 354>>}

BeforeBody(c, r) == c.replies = <<>> /\ (c.alive => Mine(c, r, "data"))

BeforeDot(c, r) ==
    c.replies = <<>> /\ (c.alive => c.phase = "data" /\ c.env = r /\ c.text = <<r>>)

Has(r) == \E i \in DOMAIN delivered : delivered[i].env = r

UseInv(r) ==
    /\ send[r].pc = "write" => send[r].stage \in {"MAIL", "RCPT", "DATA", "BODY"}
    /\ send[r].pc = "read" => send[r].stage \in {"MAIL", "RCPT", "DATA", "END"}
    /\ send[r].pc = "flush" => send[r].stage = "END"
    /\ send[r].pc \in InPool => poolOwner = r /\ (pool <=> send[r].pc # "connect")
    /\ send[r].pc = "read" /\ send[r].stage = "MAIL" => InMail(smtp, r)
    /\ send[r].pc = "write" /\ send[r].stage = "RCPT" => BeforeRcpt(smtp, r)
    /\ send[r].pc = "read" /\ send[r].stage = "RCPT" => InRcpt(smtp, r)
    /\ send[r].pc = "write" /\ send[r].stage = "DATA" => BeforeData(smtp, r)
    /\ send[r].pc = "read" /\ send[r].stage = "DATA" => InData(smtp, r)
    /\ send[r].pc = "write" /\ send[r].stage = "BODY" => BeforeBody(smtp, r)
    /\ send[r].pc = "flush" => BeforeDot(smtp, r)
    /\ send[r].pc = "read" /\ send[r].stage = "END" =>
          \/ smtp.replies \in {<<>>, <<550>>}
          \/ smtp.replies = <<250>> /\ Has(r)

\* A request that has not come to the point of delivery.
Unsent(r) ==
    \/ send[r].pc \in {"idle", "create", "update", "submit"}
    \/ send[r].pc \in {"parent", "lettre", "lock", "connect", "write", "flush"}
    \/ send[r].pc = "read" /\ send[r].stage # "END"

SendInv(r) ==
    /\ send[r].pc \in {"create", "update", "submit"} => transport = "graph"
    /\ send[r].pc \in {"parent", "lettre", "lock"} \cup InPool => transport # "graph"
    /\ send[r].pc = "submit" => graphDraft[r] = "written"
    /\ Unsent(r) => ~Has(r)
    /\ send[r].pc \in {"sent", "settled"} \/ sendOps[r] = "succeeded" =>
          Has(r) /\ (transport = "graph" => graphDraft[r] = "sent")

\* A dot that is written and not flushed ends a message nobody else delivers.
DotInv ==
    smtp.alive /\ smtp.pending => send[smtp.env].pc \in {"flush", "aborted"} /\ ~Has(smtp.env)

DeliveredInv ==
    /\ delivered \in Seq(Delivery)
    /\ \A i \in DOMAIN delivered : delivered[i].text = <<delivered[i].env>>
    /\ \A i, j \in DOMAIN delivered : delivered[i].env = delivered[j].env => i = j

DraftInv ==
    \A d \in Draft \ (drafts \cup userRemoved) : \E r \in SendRequest : DraftOf[r] = d /\ Has(r)

PoolInv == (~pool => smtp = Quiet) /\ LeftPooled(smtp)

SubmissionInv ==
    /\ SendTypeOK
    /\ PoolInv
    /\ DeliveredInv
    /\ DotInv
    /\ DraftInv
    /\ \A r \in SendRequest : UseInv(r) /\ SendInv(r)

-----------------------------------------------------------------------------
(* What the connection becomes                                             *)

LEMMA QuietLeft == Quiet \in Connection /\ LeftPooled(Quiet) /\ ~Quiet.pending
  <1>1. Quiet \in Connection
    BY DEF Quiet, Connection, Reply
  <1>2. Quiet.replies = <<>> /\ Len(<<>>) = 0 /\ ~Quiet.pending /\ Quiet.phase = "idle"
    BY DEF Quiet
  <1> QED BY <1>1, <1>2 DEF LeftPooled, GoAheadLast

\* The replies that a reader or a server makes of the short ones.
LEMMA AppendOne ==
  ASSUME NEW x, NEW y
  PROVE  Append(<<x>>, y) = <<x, y>>
  <1>1. <<x>> \in Seq({x, y}) /\ <<x, y>> \in Seq({x, y})
    OBVIOUS
  <1>2. Append(<<x>>, y) \in Seq({x, y}) /\ Len(Append(<<x>>, y)) = 2
    BY <1>1
  <1>3. Append(<<x>>, y)[1] = x /\ Append(<<x>>, y)[2] = y
    BY <1>1
  <1>4. \A i \in 1..2 : Append(<<x>>, y)[i] = <<x, y>>[i]
    BY <1>3
  <1> QED BY <1>1, <1>2, <1>4, SeqEqual

LEMMA ReplyFacts ==
  ASSUME NEW x, NEW y
  PROVE  /\ Append(<<>>, x) = <<x>>
         /\ Append(<<x>>, y) = <<x, y>>
         /\ Head(<<x>>) = x /\ Tail(<<x>>) = <<>>
         /\ Head(<<x, y>>) = x /\ Tail(<<x, y>>) = <<y>>
         /\ Len(<<>>) = 0 /\ Len(<<x>>) = 1 /\ Len(<<x, y>>) = 2
         /\ <<x>>[1] = x /\ <<x, y>>[1] = x /\ <<x, y>>[2] = y
  <1>1. Append(<<>>, x) = <<x>>
    OBVIOUS
  <1>2. Append(<<x>>, y) = <<x, y>>
    BY AppendOne
  <1>3. Head(<<x>>) = x /\ Head(<<x, y>>) = x
    OBVIOUS
  <1>4. Tail(<<x>>) = <<>>
    OBVIOUS
  <1>5. Tail(<<x, y>>) = <<y>>
    OBVIOUS
  <1>6. Len(<<>>) = 0 /\ Len(<<x>>) = 1 /\ Len(<<x, y>>) = 2
    OBVIOUS
  <1>7. <<x>>[1] = x /\ <<x, y>>[1] = x /\ <<x, y>>[2] = y
    OBVIOUS
  <1> QED BY <1>1, <1>2, <1>3, <1>4, <1>5, <1>6, <1>7

\* The replies after one more.
More(R, x) == Append(R, x)

\* A reply that ends a transaction stays where it is when others follow.
LEMMA BadStays ==
  ASSUME NEW R \in Seq(Reply), NEW x \in Reply, NEW k \in Nat, Bad(R, k)
  PROVE  Bad(More(R, x), k)
  <1>1. PICK i \in 1..k : i <= Len(R) /\ R[i] \in {503, 550}
    BY DEF Bad
  <1>2. i <= Len(Append(R, x)) /\ Append(R, x)[i] = R[i]
    BY <1>1
  <1> QED BY <1>1, <1>2 DEF Bad, More

LEMMA BadAdded ==
  ASSUME NEW R \in Seq(Reply), NEW x \in {503, 550}, NEW k \in Nat, Len(R) < k
  PROVE  Bad(More(R, x), k)
  <1>1. Append(R, x)[Len(R) + 1] = x /\ Len(Append(R, x)) = Len(R) + 1 /\ Len(R) \in Nat
    BY DEF Reply
  <1> QED BY <1>1 DEF Bad, More

LEMMA BadWeaker ==
  ASSUME NEW R, NEW j \in Nat, NEW k \in Nat, j <= k, Bad(R, j)
  PROVE  Bad(R, k)
  BY DEF Bad

\* Reading a good reply brings the bad one nearer.
LEMMA BadNearer ==
  ASSUME NEW R \in Seq(Reply), R # <<>>, Head(R) \notin {503, 550}, NEW k \in Nat \ {0}, Bad(R, k)
  PROVE  Bad(Tail(R), k - 1)
  <1>1. PICK i \in 1..k : i <= Len(R) /\ R[i] \in {503, 550}
    BY DEF Bad
  <1>2. i # 1
    BY <1>1
  <1>3. i - 1 \in 1..(k-1) /\ i - 1 <= Len(Tail(R)) /\ Tail(R)[i - 1] = R[i]
    BY <1>1, <1>2
  <1>4. PICK j \in 1..(k-1) : j <= Len(Tail(R)) /\ Tail(R)[j] \in {503, 550}
    BY <1>1, <1>3
  <1> QED BY <1>4 DEF Bad

LEMMA BadNone ==
    ASSUME NEW R \in Seq(Reply), NEW k \in Nat, Bad(R, k)
    PROVE  R # <<>>
  BY DEF Bad

\* The dot that was written goes out, and nothing else of the connection changes.
LEMMA DotKeeps ==
  ASSUME NEW c \in Connection, NEW refuse \in BOOLEAN, LeftPooled(c)
  PROVE  LET d == AfterDot(c, refuse)
         IN  /\ d \in Connection /\ LeftPooled(d) /\ ~d.pending /\ d.alive = c.alive
             /\ c.alive /\ c.pending =>
                  /\ Completes(c) /\ d.phase = "idle" /\ d.text = <<>>
                  /\ d.replies = <<IF refuse THEN 550 ELSE 250>>
             /\ ~(c.alive /\ c.pending) =>
                  /\ ~Completes(c) /\ d.phase = c.phase /\ d.env = c.env
                  /\ d.text = c.text /\ d.replies = c.replies
  <1> DEFINE d == AfterDot(c, refuse)
             rest == [c EXCEPT !.pending = FALSE]
             x == IF refuse THEN 550 ELSE 250
  <1>0. /\ rest \in Connection /\ rest.pending = FALSE /\ rest.alive = c.alive
        /\ rest.phase = c.phase /\ rest.env = c.env /\ rest.text = c.text
        /\ rest.replies = c.replies
    BY DEF Connection
  <1>1. CASE c.alive /\ c.pending
    <2>1. c.phase = "data" /\ c.replies = <<>> /\ Completes(c)
      BY <1>1 DEF LeftPooled, Completes
    <2> DEFINE e == [rest EXCEPT !.phase = "idle"]
               f == [e EXCEPT !.text = <<>>]
               g == [f EXCEPT !.env = NoDraft]
               h == [g EXCEPT !.replies = Append(rest.replies, x)]
    <2>2. d = h
      BY <1>1, <2>1 DEF AfterDot
    <2> HIDE DEF rest
    <2>3. e \in Connection /\ e.pending = FALSE /\ e.alive = c.alive /\ e.phase = "idle"
          /\ e.replies = c.replies
      BY <1>0 DEF Connection
    <2> HIDE DEF e
    <2>4. f \in Connection /\ f.pending = FALSE /\ f.alive = c.alive /\ f.phase = "idle"
          /\ f.replies = c.replies /\ f.text = <<>>
      <3>1. <<>> \in Seq(SendRequest \cup {"part", "line"})
        OBVIOUS
      <3> QED BY <2>3, <3>1 DEF Connection
    <2> HIDE DEF f
    <2>5. g \in Connection /\ g.pending = FALSE /\ g.alive = c.alive /\ g.phase = "idle"
          /\ g.replies = c.replies /\ g.text = <<>>
      BY <2>4 DEF Connection
    <2> HIDE DEF g
    <2>6. x \in Reply /\ x # 354
      BY DEF Reply
    <2>7. Append(rest.replies, x) = <<x>>
      BY <1>0, <2>1, ReplyFacts
    <2> HIDE DEF x
    <2>12. <<x>> \in Seq(Reply)
      BY <2>6
    <2>8. h \in Connection /\ h.pending = FALSE /\ h.alive = c.alive /\ h.phase = "idle"
          /\ h.replies = <<x>> /\ h.text = <<>>
      BY <2>5, <2>7, <2>12 DEF Connection
    <2> HIDE DEF h
    <2>9. Len(<<x>>) = 1 /\ <<x>>[1] = x
      OBVIOUS
    <2>10. x = 250 \/ Bad(<<x>>, 3)
      BY <2>9 DEF Bad, x
    <2>11. LeftPooled(h)
      BY <2>6, <2>8, <2>9, <2>10 DEF LeftPooled, GoAheadLast
    <2> QED BY <1>1, <2>1, <2>2, <2>8, <2>11 DEF x
  <1>2. CASE ~(c.alive /\ c.pending)
    <2>1. d = rest
      <3>1. ~c.pending \/ ~c.alive
        BY <1>2
      <3> QED BY <3>1 DEF AfterDot, Completes
    <2>2. ~Completes(c)
      BY <1>2 DEF Completes
    <2> HIDE DEF rest
    <2>3. LeftPooled(rest)
      BY <1>0 DEF LeftPooled, GoAheadLast
    <2> QED BY <1>0, <1>2, <2>1, <2>2, <2>3
  <1> QED BY <1>1, <1>2

\* What the server makes of a command line: text of a message it takes, a refusal,
\* or the next phase of the transaction.
LEMMA HeardFacts ==
  ASSUME NEW c \in Connection, LeftPooled(c), ~c.pending, NEW r \in SendRequest,
         NEW stage \in {"MAIL", "RCPT", "DATA"}, NEW refuse \in BOOLEAN,
         NEW h, h = Heard(c, r, stage, refuse)
  PROVE  /\ h \in Connection /\ ~h.pending /\ h.alive = c.alive /\ GoAheadLast(h)
         /\ \/ ~c.alive
            \/ c.phase = "data" /\ h.phase = "data" /\ h.replies = c.replies
            \/ /\ c.phase # "data" /\ h.phase = c.phase
               /\ \E x \in {503, 550} : h.replies = More(c.replies, x)
            \/ /\ Accepts(stage, c.phase) /\ h.phase = PhaseAfter(stage)
               /\ h.replies = More(c.replies, Expected(stage))
               /\ h.text = <<>> /\ h.env = (IF stage = "MAIL" THEN r ELSE c.env)
  <1>1. CASE ~c.alive
    BY <1>1 DEF Heard, LeftPooled
  <1>2. CASE c.alive /\ c.phase = "data"
    <2> DEFINE d == [c EXCEPT !.text = Append(c.text, "line")]
    <2>1. h = d
      BY <1>2 DEF Heard
    <2>2. Append(c.text, "line") \in Seq(SendRequest \cup {"part", "line"})
      BY DEF Connection
    <2>3. /\ d \in Connection /\ d.pending = c.pending /\ d.alive = c.alive
          /\ d.phase = c.phase /\ d.replies = c.replies
      BY <2>2 DEF Connection
    <2> HIDE DEF d
    <2>4. GoAheadLast(d)
      BY <1>2, <2>3 DEF LeftPooled, GoAheadLast
    <2> QED BY <1>2, <2>1, <2>3, <2>4
  <1>3. ASSUME c.alive, c.phase # "data", NEW x \in {503, 550},
               h = [c EXCEPT !.replies = More(c.replies, x)]
        PROVE  /\ h \in Connection /\ h.pending = c.pending /\ h.alive = c.alive
               /\ h.phase = c.phase /\ h.replies = More(c.replies, x) /\ GoAheadLast(h)
    <2>1. c.replies \in Seq(Reply) /\ More(c.replies, x) \in Seq(Reply)
      BY <1>3 DEF Connection, Reply, More
    <2> DEFINE d == [c EXCEPT !.replies = More(c.replies, x)]
    <2>5. /\ d \in Connection /\ d.pending = c.pending /\ d.alive = c.alive
          /\ d.phase = c.phase /\ d.replies = More(c.replies, x)
      BY <2>1 DEF Connection
    <2>6. h = d
      BY <1>3
    <2> HIDE DEF d
    <2>2. /\ h \in Connection /\ h.pending = c.pending /\ h.alive = c.alive
          /\ h.phase = c.phase /\ h.replies = More(c.replies, x)
      BY <2>5, <2>6
    <2>3. \A i \in 1..Len(c.replies) : c.replies[i] # 354
      BY <1>3 DEF LeftPooled, GoAheadLast
    <2>4. \A i \in 1..Len(h.replies) : h.replies[i] # 354
      BY <2>1, <2>2, <2>3 DEF More
    <2> QED BY <2>2, <2>4 DEF GoAheadLast
  <1>4. CASE c.alive /\ c.phase # "data" /\ refuse
    <2>1. h = [c EXCEPT !.replies = More(c.replies, 550)]
      BY <1>4 DEF Heard, More
    <2>2. /\ h \in Connection /\ h.pending = c.pending /\ h.alive = c.alive
          /\ h.phase = c.phase /\ h.replies = More(c.replies, 550) /\ GoAheadLast(h)
      BY Zenon, <1>3, <1>4, <2>1
    <2> QED BY <1>4, <2>2
  <1>5. CASE c.alive /\ c.phase # "data" /\ ~refuse /\ ~Accepts(stage, c.phase)
    <2>1. h = [c EXCEPT !.replies = More(c.replies, 503)]
      BY <1>5 DEF Heard, More
    <2>2. /\ h \in Connection /\ h.pending = c.pending /\ h.alive = c.alive
          /\ h.phase = c.phase /\ h.replies = More(c.replies, 503) /\ GoAheadLast(h)
      BY <1>3, <1>5, <2>1
    <2> QED BY <1>5, <2>2
  <1>6. CASE c.alive /\ c.phase # "data" /\ ~refuse /\ Accepts(stage, c.phase)
    <2> DEFINE x == Expected(stage)
               e == IF stage = "MAIL" THEN r ELSE c.env
               d == [c EXCEPT !.replies = Append(c.replies, x)]
               f == [d EXCEPT !.phase = PhaseAfter(stage)]
               g == [f EXCEPT !.env = e]
               k == [g EXCEPT !.text = <<>>]
    <2>1. h = k
      BY <1>6 DEF Heard
    <2>2. /\ x \in Reply /\ (x = 354 => stage = "DATA")
          /\ PhaseAfter(stage) \in {"mail", "rcpt", "data"}
          /\ (stage = "DATA" => PhaseAfter(stage) = "data")
      BY DEF Expected, PhaseAfter, Reply
    <2>3. e \in SendRequest \cup {NoDraft} /\ <<>> \in Seq(SendRequest \cup {"part", "line"})
      BY DEF Connection
    <2> HIDE DEF x, e
    <2>4. c.replies \in Seq(Reply) /\ Append(c.replies, x) \in Seq(Reply)
      BY <2>2 DEF Connection
    <2>5. d \in Connection /\ d.pending = c.pending /\ d.alive = c.alive
          /\ d.replies = Append(c.replies, x)
      BY <2>4 DEF Connection
    <2> HIDE DEF d
    <2>6. f \in Connection /\ f.pending = c.pending /\ f.alive = c.alive
          /\ f.replies = Append(c.replies, x) /\ f.phase = PhaseAfter(stage)
      BY <2>2, <2>5 DEF Connection
    <2> HIDE DEF f
    <2>7. g \in Connection /\ g.pending = c.pending /\ g.alive = c.alive
          /\ g.replies = Append(c.replies, x) /\ g.phase = PhaseAfter(stage) /\ g.env = e
      BY <2>3, <2>6 DEF Connection
    <2> HIDE DEF g
    <2>8. k \in Connection /\ k.pending = c.pending /\ k.alive = c.alive
          /\ k.replies = Append(c.replies, x) /\ k.phase = PhaseAfter(stage) /\ k.env = e
          /\ k.text = <<>>
      BY <2>3, <2>7 DEF Connection
    <2> HIDE DEF k
    <2>9. \A i \in 1..Len(c.replies) : c.replies[i] # 354
      BY <1>6 DEF LeftPooled, GoAheadLast
    <2>10. GoAheadLast(k)
      <3> SUFFICES ASSUME NEW i \in 1..Len(k.replies), k.replies[i] = 354
                   PROVE  i = Len(k.replies) /\ k.phase = "data"
        BY DEF GoAheadLast
      <3>1. Len(k.replies) = Len(c.replies) + 1 /\ k.replies[Len(c.replies) + 1] = x
        BY <2>4, <2>8
      <3>2. \A j \in 1..Len(c.replies) : k.replies[j] = c.replies[j]
        BY <2>4, <2>8
      <3>3. i = Len(c.replies) + 1
        <4>1. CASE i \in 1..Len(c.replies)
          BY <2>9, <3>2, <4>1
        <4>2. Len(c.replies) \in Nat
          BY <2>4
        <4> QED BY <3>1, <4>1, <4>2
      <3> QED BY <2>2, <2>8, <3>1, <3>3
    <2> QED BY <1>6, <2>1, <2>8, <2>10 DEF x, e, More
  <1> QED BY <1>1, <1>2, <1>4, <1>5, <1>6

\* The three command lines: each keeps what the stage before it established.
LEMMA OneMore ==
  ASSUME NEW x, NEW R, R \in {<<>>, << 250 >>}
  PROVE  More(R, x) \in {<<x>>, <<250, x>>} /\ Len(R) \in {0, 1}
  <1>1. Append(<<>>, x) = <<x>>
    OBVIOUS
  <1>2. Append(<<250>>, x) = <<250, x>>
    BY Zenon, AppendOne
  <1>3. Len(<<>>) = 0 /\ Len(<<250>>) = 1
    OBVIOUS
  <1> QED BY <1>1, <1>2, <1>3 DEF More

LEMMA ShortReplies ==
  ASSUME NEW R, R \in {<<>>, << 250 >>, <<250, 250>>, << 354 >>, <<250, 354>>}
  PROVE  Len(R) \in 0..2
  OBVIOUS

LEMMA OneReply ==
    ASSUME NEW R, R \in {<<>>, << 250 >>}
    PROVE  Len(R) < 2
  <1>1. Len(<<>>) = 0 /\ Len(<<250>>) = 1
    OBVIOUS
  <1>2. PICK n \in {0, 1} : Len(R) = n
    BY <1>1
  <1> QED BY <1>2

LEMMA MailHeard ==
  ASSUME NEW c \in Connection, LeftPooled(c), ~c.pending, NEW r \in SendRequest, NEW refuse \in BOOLEAN,
         NEW h, h = Heard(c, r, "MAIL", refuse)
  PROVE  LeftPooled(h) /\ InMail(h, r)
  <1>1. c.replies \in Seq(Reply) /\ c.phase \in {"idle", "mail", "rcpt", "data"}
    BY DEF Connection
  <1>2. /\ h \in Connection /\ ~h.pending /\ h.alive = c.alive /\ GoAheadLast(h)
        /\ \/ ~c.alive
           \/ c.phase = "data" /\ h.phase = "data" /\ h.replies = c.replies
           \/ /\ c.phase # "data" /\ h.phase = c.phase
              /\ \E x \in {503, 550} : h.replies = More(c.replies, x)
           \/ /\ c.phase = "idle" /\ h.phase = "mail"
              /\ h.replies = More(c.replies, 250)
              /\ h.text = <<>> /\ h.env = r
    BY HeardFacts DEF Accepts, PhaseAfter, Expected
  <1>3. c.alive => Bad(c.replies, 3) \/ Len(c.replies) \in 0..2
    BY ShortReplies DEF LeftPooled
  <1>4. CASE ~c.alive
    BY <1>2, <1>4 DEF LeftPooled, InMail
  <1>5. CASE c.alive /\ c.phase = "data" /\ h.phase = "data" /\ h.replies = c.replies
    BY <1>2, <1>5 DEF LeftPooled, InMail
  <1>6. CASE c.alive /\ \E x \in {503, 550} : h.replies = More(c.replies, x)
    <2>1. PICK x \in {503, 550} : h.replies = More(c.replies, x)
      BY <1>6
    <2>2. Bad(h.replies, 3)
      <3>1. CASE Bad(c.replies, 3)
        BY <1>1, <2>1, <3>1, BadStays DEF Reply
      <3>2. CASE Len(c.replies) \in 0..2
        <4>2. PICK n \in 0..2 : Len(c.replies) = n
          BY <3>2
        <4>1. Len(c.replies) < 3
          BY <4>2
        <4> QED BY <1>1, <2>1, <4>1, BadAdded
      <3> QED BY <1>3, <1>6, <3>1, <3>2
    <2> QED BY <1>2, <2>2 DEF LeftPooled, InMail
  <1>7. CASE /\ c.alive /\ c.phase = "idle" /\ h.phase = "mail"
             /\ h.replies = More(c.replies, 250)
             /\ h.text = <<>> /\ h.env = r
    <2>1. CASE Bad(c.replies, 3)
      <3>1. Bad(h.replies, 3)
        BY <1>1, <1>7, <2>1, BadStays DEF Reply
      <3> QED BY <1>2, <3>1 DEF LeftPooled, InMail
    <2>2. CASE c.replies \in {<<>>, <<250>>}
      <3>1. h.replies \in {<<250>>, <<250, 250>>}
        BY <1>7, <2>2, OneMore
      <3> QED BY <1>2, <1>7, <3>1 DEF LeftPooled, InMail, Mine
    <2> QED BY <1>7, <2>1, <2>2 DEF LeftPooled
  <1> QED BY <1>2, <1>4, <1>5, <1>6, <1>7

LEMMA RcptHeard ==
  ASSUME NEW c \in Connection, LeftPooled(c), ~c.pending, NEW r \in SendRequest, NEW refuse \in BOOLEAN,
         BeforeRcpt(c, r),
         NEW h, h = Heard(c, r, "RCPT", refuse)
  PROVE  LeftPooled(h) /\ InRcpt(h, r)
  <1>1. c.replies \in Seq(Reply) /\ c.phase \in {"idle", "mail", "rcpt", "data"}
    BY DEF Connection
  <1>2. /\ h \in Connection /\ ~h.pending /\ h.alive = c.alive /\ GoAheadLast(h)
        /\ \/ ~c.alive
           \/ c.phase = "data" /\ h.phase = "data" /\ h.replies = c.replies
           \/ /\ c.phase # "data" /\ h.phase = c.phase
              /\ \E x \in {503, 550} : h.replies = More(c.replies, x)
           \/ /\ Accepts("RCPT", c.phase) /\ h.phase = "rcpt" /\ h.replies = More(c.replies, 250)
              /\ h.text = <<>> /\ h.env = c.env
    BY HeardFacts DEF Accepts, PhaseAfter, Expected
  <1>3. CASE ~c.alive
    BY <1>2, <1>3 DEF LeftPooled, InRcpt
  <1>4. CASE c.alive /\ Bad(c.replies, 2)
    <2>1. Bad(h.replies, 2)
      BY <1>1, <1>2, <1>4, BadStays DEF Reply
    <2>2. Bad(h.replies, 3)
      BY <2>1, BadWeaker
    <2> QED BY <1>2, <2>1, <2>2 DEF LeftPooled, InRcpt
  <1>5. CASE c.alive /\ c.phase = "data" /\ c.replies = <<354>>
    <2>1. h.phase = "data" /\ h.replies = <<354>>
      <3>1. ~Accepts("RCPT", "data")
        BY DEF Accepts
      <3> QED BY <1>2, <1>5, <3>1
    <2> QED BY <1>2, <2>1 DEF LeftPooled, InRcpt
  <1>6. CASE c.alive /\ Mine(c, r, "mail") /\ c.replies \in {<<>>, <<250>>}
    <2>1. CASE \E x \in {503, 550} : h.replies = More(c.replies, x)
      <3>1. Len(c.replies) < 2
        BY <1>6, OneReply
      <3>2. Bad(h.replies, 2)
        BY <1>1, <2>1, <3>1, BadAdded
      <3>3. Bad(h.replies, 3)
        BY <3>2, BadWeaker
      <3> QED BY <1>2, <3>2, <3>3 DEF LeftPooled, InRcpt
    <2>2. CASE /\ h.phase = "rcpt" /\ h.replies = More(c.replies, 250)
               /\ h.text = <<>> /\ h.env = c.env
      <3>1. h.replies \in {<<250>>, <<250, 250>>}
        BY <1>6, <2>2, OneMore
      <3> QED BY <1>2, <1>6, <2>2, <3>1 DEF LeftPooled, InRcpt, Mine
    <2> QED BY <1>2, <1>6, <2>1, <2>2 DEF Mine
  <1> QED BY <1>3, <1>4, <1>5, <1>6 DEF BeforeRcpt

LEMMA DataHeard ==
  ASSUME NEW c \in Connection, LeftPooled(c), ~c.pending, NEW r \in SendRequest, NEW refuse \in BOOLEAN,
         BeforeData(c, r),
         NEW h, h = Heard(c, r, "DATA", refuse)
  PROVE  LeftPooled(h) /\ InData(h, r)
  <1>1. c.replies \in Seq(Reply) /\ c.phase \in {"idle", "mail", "rcpt", "data"}
    BY DEF Connection
  <1>2. /\ h \in Connection /\ ~h.pending /\ h.alive = c.alive /\ GoAheadLast(h)
        /\ \/ ~c.alive
           \/ c.phase = "data" /\ h.phase = "data" /\ h.replies = c.replies
           \/ /\ c.phase # "data" /\ h.phase = c.phase
              /\ \E x \in {503, 550} : h.replies = More(c.replies, x)
           \/ /\ h.phase = "data" /\ h.replies = More(c.replies, 354)
              /\ h.text = <<>> /\ h.env = c.env
    BY HeardFacts DEF Accepts, PhaseAfter, Expected
  <1>3. CASE ~c.alive
    BY <1>2, <1>3 DEF LeftPooled, InData
  <1>4. ASSUME Bad(h.replies, 2), h.replies[1] # 354
        PROVE  LeftPooled(h) /\ InData(h, r)
    <2>1. Bad(h.replies, 3)
      BY <1>4, BadWeaker
    <2> QED BY <1>2, <1>4, <2>1 DEF LeftPooled, InData
  <1>5. CASE c.alive /\ Bad(c.replies, 1)
    <2>1. Bad(h.replies, 1)
      BY <1>1, <1>2, <1>5, BadStays DEF Reply
    <2>2. h.replies[1] # 354
      BY <2>1 DEF Bad
    <2>3. Bad(h.replies, 2)
      BY <2>1, BadWeaker
    <2> QED BY <1>4, <2>2, <2>3
  <1>6. CASE c.alive /\ Mine(c, r, "rcpt") /\ c.replies \in {<<>>, <<250>>}
    <2>1. CASE \E x \in {503, 550} : h.replies = More(c.replies, x)
      <3>1. PICK x \in {503, 550} : h.replies = More(c.replies, x)
        BY <2>1
      <3>2. Bad(h.replies, 2)
        <4>1. Len(c.replies) < 2
          BY <1>6, OneReply
        <4> QED BY <1>1, <3>1, <4>1, BadAdded
      <3>3. h.replies \in {<<x>>, <<250, x>>}
        BY <1>6, <3>1, OneMore
      <3>4. h.replies[1] # 354
        BY <3>3, ReplyFacts
      <3> QED BY <1>4, <3>2, <3>4
    <2>2. CASE /\ h.phase = "data" /\ h.replies = More(c.replies, 354)
               /\ h.text = <<>> /\ h.env = c.env
      <3>1. h.replies \in {<<354>>, <<250, 354>>}
        BY <1>6, <2>2, OneMore
      <3> QED BY <1>2, <1>6, <2>2, <3>1 DEF LeftPooled, InData, Mine
    <2> QED BY <1>2, <1>6, <2>1, <2>2 DEF Mine
  <1> QED BY <1>3, <1>5, <1>6 DEF BeforeData

\* Reading a reply that is expected brings the next stage.
Unread(R) == Tail(R)

LEMMA UnreadShort ==
  ASSUME NEW R \in Seq(Reply), R # <<>>
  PROVE  /\ Unread(R) \in Seq(Reply)
         /\ R = <<250>> => Head(R) = 250 /\ Unread(R) = <<>>
         /\ R = <<354>> => Head(R) = 354 /\ Unread(R) = <<>>
         /\ R = <<250, 250>> => Head(R) = 250 /\ Unread(R) = <<250>>
         /\ R = <<250, 354>> => Head(R) = 250 /\ Unread(R) = <<354>>
  <1>1. Unread(R) \in Seq(Reply)
    BY DEF Unread
  <1>2. /\ Head(<<250>>) = 250 /\ Tail(<<250>>) = <<>>
        /\ Head(<<354>>) = 354 /\ Tail(<<354>>) = <<>>
        /\ Head(<<250, 250>>) = 250 /\ Tail(<<250, 250>>) = <<250>>
        /\ Head(<<250, 354>>) = 250 /\ Tail(<<250, 354>>) = <<354>>
    BY ReplyFacts
  <1>3. R = <<250>> => Head(R) = 250 /\ Unread(R) = <<>>
    BY <1>2 DEF Unread
  <1>4. R = <<354>> => Head(R) = 354 /\ Unread(R) = <<>>
    BY <1>2 DEF Unread
  <1>5. R = <<250, 250>> => Head(R) = 250 /\ Unread(R) = <<250>>
    BY <1>2 DEF Unread
  <1>6. R = <<250, 354>> => Head(R) = 250 /\ Unread(R) = <<354>>
    BY <1>2 DEF Unread
  <1> QED BY <1>1, <1>3, <1>4, <1>5, <1>6

LEMMA BadUnread ==
  ASSUME NEW R \in Seq(Reply), R # <<>>, Head(R) \notin {503, 550}, NEW k \in Nat \ {0}, Bad(R, k)
  PROVE  Bad(Unread(R), k - 1)
  BY BadNearer DEF Unread

LEMMA ReadFacts ==
  ASSUME NEW c \in Connection, LeftPooled(c), c.replies # <<>>, Head(c.replies) \in {250, 354},
         NEW d, d = [c EXCEPT !.replies = Unread(c.replies)]
  PROVE  /\ d \in Connection /\ LeftPooled(d) /\ d.alive = c.alive /\ d.phase = c.phase
         /\ d.env = c.env /\ d.text = c.text /\ d.replies = Unread(c.replies)
         /\ ~(d.alive /\ d.pending)
  <1>1. c.replies \in Seq(Reply)
    BY DEF Connection
  <1> DEFINE e == [c EXCEPT !.replies = Unread(c.replies)]
  <1>2. /\ e \in Connection /\ e.alive = c.alive /\ e.phase = c.phase
        /\ e.env = c.env /\ e.text = c.text /\ e.replies = Unread(c.replies)
        /\ e.pending = c.pending
    <2>1. Unread(c.replies) \in Seq(Reply)
      BY <1>1, UnreadShort
    <2> QED BY <2>1 DEF Connection
  <1>3. d = e
    OBVIOUS
  <1> HIDE DEF e
  <1>4. ~(c.alive /\ c.pending)
    BY DEF LeftPooled
  <1>5. GoAheadLast(e)
    <2> SUFFICES ASSUME NEW i \in 1..Len(e.replies), e.replies[i] = 354
                 PROVE  i = Len(e.replies) /\ (e.alive => e.phase = "data")
      BY DEF GoAheadLast
    <2>1. Len(e.replies) = Len(c.replies) - 1 /\ e.replies[i] = c.replies[i + 1]
          /\ i + 1 \in 1..Len(c.replies)
      BY <1>1, <1>2 DEF Unread
    <2>2. i + 1 = Len(c.replies) /\ (c.alive => c.phase = "data")
      BY <2>1 DEF LeftPooled, GoAheadLast
    <2> QED BY <1>1, <1>2, <2>1, <2>2
  <1>6. Bad(c.replies, 3) => Bad(e.replies, 3)
    <2> SUFFICES ASSUME Bad(c.replies, 3) PROVE Bad(e.replies, 3)
      OBVIOUS
    <2>1. Bad(Unread(c.replies), 3 - 1)
      BY <1>1, BadUnread
    <2>2. Bad(Unread(c.replies), 3)
      BY <2>1, BadWeaker
    <2> QED BY <1>2, <2>2
  <1>7. LeftPooled(e)
    BY <1>1, <1>2, <1>4, <1>5, <1>6, UnreadShort DEF LeftPooled
  <1> QED BY <1>2, <1>3, <1>4, <1>7

LEMMA MailRead ==
  ASSUME NEW c \in Connection, LeftPooled(c), c.replies # <<>>, Head(c.replies) = 250,
         NEW d, d = [c EXCEPT !.replies = Unread(c.replies)], NEW r, InMail(c, r)
  PROVE  BeforeRcpt(d, r)
  <1>1. /\ d.alive = c.alive /\ d.phase = c.phase /\ d.env = c.env /\ d.text = c.text
        /\ d.replies = Unread(c.replies) /\ c.replies \in Seq(Reply)
    BY ReadFacts DEF Connection
  <1>2. Bad(c.replies, 3) => Bad(d.replies, 2)
    <2> SUFFICES ASSUME Bad(c.replies, 3) PROVE Bad(d.replies, 2)
      OBVIOUS
    <2>1. Bad(Unread(c.replies), 3 - 1)
      BY <1>1, BadUnread
    <2> QED BY <1>1, <2>1
  <1>3. CASE c.alive /\ c.phase = "data" /\ ~Bad(c.replies, 3)
    <2>1. c.replies = <<250, 354>>
      BY <1>1, <1>3, UnreadShort DEF LeftPooled
    <2>2. Unread(c.replies) = <<354>>
      BY <1>1, <2>1, UnreadShort
    <2> QED BY <1>1, <1>3, <2>2 DEF BeforeRcpt
  <1>4. CASE Mine(c, r, "mail") /\ c.replies \in {<<250>>, <<250, 250>>}
    <2>1. d.replies \in {<<>>, <<250>>}
      BY <1>1, <1>4, UnreadShort
    <2> QED BY <1>1, <1>4, <2>1 DEF BeforeRcpt, Mine
  <1> QED BY <1>1, <1>2, <1>3, <1>4 DEF InMail, BeforeRcpt

LEMMA RcptRead ==
  ASSUME NEW c \in Connection, LeftPooled(c), c.replies # <<>>, Head(c.replies) = 250,
         NEW d, d = [c EXCEPT !.replies = Unread(c.replies)], NEW r, InRcpt(c, r)
  PROVE  BeforeData(d, r)
  <1>1. /\ d.alive = c.alive /\ d.phase = c.phase /\ d.env = c.env /\ d.text = c.text
        /\ d.replies = Unread(c.replies) /\ c.replies \in Seq(Reply)
    BY ReadFacts DEF Connection
  <1>2. Bad(c.replies, 2) => Bad(d.replies, 1)
    <2> SUFFICES ASSUME Bad(c.replies, 2) PROVE Bad(d.replies, 1)
      OBVIOUS
    <2>1. Bad(Unread(c.replies), 2 - 1)
      BY <1>1, BadUnread
    <2> QED BY <1>1, <2>1
  <1>3. c.replies # <<354>>
    BY <1>1, UnreadShort
  <1>4. CASE Mine(c, r, "rcpt") /\ c.replies \in {<<250>>, <<250, 250>>}
    <2>1. d.replies \in {<<>>, <<250>>}
      BY <1>1, <1>4, UnreadShort
    <2> QED BY <1>1, <1>4, <2>1 DEF BeforeData, Mine
  <1> QED BY <1>1, <1>2, <1>3, <1>4 DEF InRcpt, BeforeData

LEMMA DataRead ==
  ASSUME NEW c \in Connection, LeftPooled(c), c.replies # <<>>, Head(c.replies) = 354,
         NEW d, d = [c EXCEPT !.replies = Unread(c.replies)], NEW r, InData(c, r)
  PROVE  BeforeBody(d, r)
  <1>1. /\ d.alive = c.alive /\ d.phase = c.phase /\ d.env = c.env /\ d.text = c.text
        /\ d.replies = Unread(c.replies) /\ c.replies \in Seq(Reply)
    BY ReadFacts DEF Connection
  <1>2. c.replies[1] = 354 /\ Len(c.replies) = 1
    <2>1. c.replies[1] = 354 /\ 1 \in 1..Len(c.replies)
      BY <1>1
    <2> QED BY <2>1 DEF LeftPooled, GoAheadLast
  <1>3. d.replies = <<>>
    <2>1. <<354>> \in Seq(Reply) /\ Len(<<354>>) = 1 /\ <<354>>[1] = 354
      BY DEF Reply
    <2>2. \A i \in 1..Len(c.replies) : c.replies[i] = <<354>>[i]
      BY <1>2, <2>1
    <2>3. c.replies = <<354>>
      BY <1>1, <1>2, <2>1, <2>2, SeqEqual
    <2> QED BY <1>1, <2>3, UnreadShort
  <1> QED BY <1>1, <1>2, <1>3 DEF InData, BeforeBody, Mine

LEMMA NoGoAhead ==
    ASSUME NEW c, c.replies = <<>>
    PROVE  GoAheadLast(c)
  <1>1. Len(<<>>) = 0
    OBVIOUS
  <1> QED BY <1>1 DEF GoAheadLast

\* The message and its dot are written.
LEMMA BodyWritten ==
  ASSUME NEW c \in Connection, LeftPooled(c), NEW r \in SendRequest, BeforeBody(c, r),
         NEW d, d = IF c.alive /\ c.phase = "data"
                    THEN [c EXCEPT !.text = Append(c.text, r), !.pending = TRUE] ELSE c
  PROVE  d \in Connection /\ LeftPooled(d) /\ BeforeDot(d, r) /\ d.alive = c.alive
  <1>1. CASE ~(c.alive /\ c.phase = "data")
    BY <1>1 DEF BeforeBody, BeforeDot, Mine
  <1>2. CASE c.alive /\ c.phase = "data"
    <2> DEFINE e == [c EXCEPT !.text = <<r>>]
               f == [e EXCEPT !.pending = TRUE]
    <2>1. Append(c.text, r) = <<r>>
      BY <1>2, ReplyFacts DEF BeforeBody, Mine
    <2>2. d = f
      BY <1>2, <2>1
    <2>3. <<r>> \in Seq(SendRequest \cup {"part", "line"})
      OBVIOUS
    <2>4. e \in Connection /\ e.alive = c.alive /\ e.phase = "data" /\ e.env = c.env
          /\ e.replies = c.replies /\ e.text = <<r>>
      BY <1>2, <2>3 DEF Connection
    <2> HIDE DEF e
    <2>5. f \in Connection /\ f.alive = c.alive /\ f.phase = "data" /\ f.env = c.env
          /\ f.replies = c.replies /\ f.text = <<r>>
      BY <2>4 DEF Connection
    <2> HIDE DEF f
    <2>6. f.env = r /\ f.replies = <<>>
      BY <1>2, <2>5 DEF BeforeBody, Mine
    <2>7. GoAheadLast(f)
      BY <2>6, NoGoAhead
    <2>8. LeftPooled(f)
      BY <2>5, <2>6, <2>7 DEF LeftPooled
    <2> QED BY <1>2, <2>2, <2>5, <2>6, <2>8 DEF BeforeDot
  <1> QED BY <1>1, <1>2

\* A request that is dropped while it writes leaves part of a message.
LEMMA PartLeft ==
  ASSUME NEW c \in Connection, LeftPooled(c), NEW r \in SendRequest, BeforeBody(c, r), c.alive,
         NEW d, d = [c EXCEPT !.text = Append(c.text, "part")]
  PROVE  d \in Connection /\ LeftPooled(d) /\ d.alive = c.alive /\ ~d.pending
  <1> DEFINE e == [c EXCEPT !.text = Append(c.text, "part")]
  <1>1. Append(c.text, "part") \in Seq(SendRequest \cup {"part", "line"})
    BY DEF Connection
  <1>2. e \in Connection /\ e.alive = c.alive /\ e.phase = c.phase /\ e.replies = c.replies
        /\ e.pending = c.pending
    BY <1>1 DEF Connection
  <1>3. d = e
    OBVIOUS
  <1> HIDE DEF e
  <1>4. c.phase = "data" /\ c.replies = <<>> /\ c.text = <<>>
    BY DEF BeforeBody, Mine
  <1>5. ~c.pending
    <2>1. <<>> # <<c.env>>
      OBVIOUS
    <2> QED BY <1>4, <2>1 DEF LeftPooled
  <1>6. GoAheadLast(e)
    BY <1>2, <1>4, NoGoAhead
  <1>7. LeftPooled(e)
    BY <1>2, <1>4, <1>5, <1>6 DEF LeftPooled
  <1> QED BY <1>2, <1>3, <1>5, <1>7

\* A connection the server has closed leaves replies at most.
LEMMA ClosedLeft ==
  ASSUME NEW c \in Connection, LeftPooled(c), NEW left \in {c.replies, <<>>}, NEW d,
         d = [c EXCEPT !.alive = FALSE, !.phase = "idle", !.text = <<>>, !.env = NoDraft,
                       !.replies = left]
  PROVE  d \in Connection /\ LeftPooled(d) /\ ~d.alive /\ d.replies = left
  <1> DEFINE e == [c EXCEPT !.alive = FALSE]
             f == [e EXCEPT !.phase = "idle"]
             g == [f EXCEPT !.text = <<>>]
             h == [g EXCEPT !.env = NoDraft]
             k == [h EXCEPT !.replies = left]
  <1>1. d = k
    OBVIOUS
  <1>2. e \in Connection /\ ~e.alive
    BY DEF Connection
  <1> HIDE DEF e
  <1>3. f \in Connection /\ ~f.alive
    BY <1>2 DEF Connection
  <1> HIDE DEF f
  <1>4. g \in Connection /\ ~g.alive
    <2>1. <<>> \in Seq(SendRequest \cup {"part", "line"})
      OBVIOUS
    <2> QED BY <1>3, <2>1 DEF Connection
  <1> HIDE DEF g
  <1>5. h \in Connection /\ ~h.alive
    BY <1>4 DEF Connection
  <1> HIDE DEF h
  <1>6. left \in Seq(Reply)
    <2>1. c.replies \in Seq(Reply) /\ <<>> \in Seq(Reply)
      BY DEF Connection
    <2> QED BY <2>1
  <1>7. k \in Connection /\ ~k.alive /\ k.replies = left
    BY <1>5, <1>6 DEF Connection
  <1> HIDE DEF k
  <1>8. GoAheadLast(k)
    <2>1. CASE left = <<>>
      BY <1>7, <2>1 DEF GoAheadLast
    <2>2. CASE left = c.replies
      BY <1>7, <2>2 DEF GoAheadLast, LeftPooled
    <2> QED BY <2>1, <2>2
  <1> QED BY <1>1, <1>7, <1>8 DEF LeftPooled

-----------------------------------------------------------------------------
(* What a request becomes                                                  *)

LEMMA PlainStates ==
  ASSUME NEW p \in {"sent", "failed", "settled", "aborted"}
  PROVE  [pc |-> p] \in SendState /\ [pc |-> p].pc = p
  BY DEF SendState

LEMMA AnsweredState ==
  ASSUME NEW b \in BOOLEAN
  PROVE  [pc |-> "answered", ok |-> b] \in SendState /\ [pc |-> "answered", ok |-> b].pc = "answered"
  BY DEF SendState

LEMMA AtState ==
  ASSUME NEW p \in Waiting
  PROVE  At(p) \in SendState /\ At(p).pc = p
  BY DEF SendState, At, Stage

LEMMA UnderwayIs ==
  ASSUME NEW s \in SendState, s.pc \in Waiting
  PROVE  s \in Underway
  BY DEF SendState, Underway, Waiting

LEMMA UnderwayMoves ==
  ASSUME NEW s \in Underway, NEW p \in Waiting, NEW stage \in Stage, NEW b \in BOOLEAN,
         NEW n \in 0..1,
         NEW t, \/ t = [s EXCEPT !.pc = p]
                \/ t = [[s EXCEPT !.pc = p] EXCEPT !.stage = stage]
                \/ t = [[s EXCEPT !.pc = p] EXCEPT !.attempt = n]
                \/ t = [[[s EXCEPT !.pc = p] EXCEPT !.stage = stage] EXCEPT !.reused = b]
  PROVE  t \in SendState /\ t.pc = p
  <1> DEFINE c == [s EXCEPT !.pc = p]
             d == [c EXCEPT !.stage = stage]
             e == [c EXCEPT !.attempt = n]
             f == [d EXCEPT !.reused = b]
  <1>1. c \in Underway /\ c.pc = p
    BY DEF Underway
  <1>2. t = c \/ t = d \/ t = e \/ t = f
    OBVIOUS
  <1> HIDE DEF c
  <1>3. d \in Underway /\ d.pc = p
    BY <1>1 DEF Underway
  <1>4. e \in Underway /\ e.pc = p
    BY <1>1 DEF Underway
  <1> HIDE DEF d
  <1>5. f \in Underway /\ f.pc = p
    BY <1>3 DEF Underway
  <1> HIDE DEF e, f
  <1> QED BY <1>1, <1>2, <1>3, <1>4, <1>5 DEF Underway, SendState

LEMMA StageMoves ==
  ASSUME NEW s \in Underway, NEW p \in Waiting, NEW stage \in Stage,
         NEW t, t = [[s EXCEPT !.pc = p] EXCEPT !.stage = stage]
  PROVE  t.stage = stage
  BY DEF Underway

-----------------------------------------------------------------------------
(* What a step keeps                                                       *)

LEMMA DeliverKeeps ==
  ASSUME DeliveredInv, NEW q \in SendRequest,
         delivered' = delivered \/ (~Has(q) /\ Deliver(q, <<q>>))
  PROVE  /\ DeliveredInv'
         /\ \A x : Has(x) => Has(x)'
         /\ \A x : x # q /\ Has(x)' => Has(x)
         /\ Deliver(q, <<q>>) => Has(q)'
  <1> DEFINE e == [env |-> q, text |-> <<q>>]
  <1>1. e \in Delivery /\ e.env = q /\ e.text = <<q>>
    <2>1. <<q>> \in Seq(Piece)
      BY DEF Piece
    <2> QED BY <2>1 DEF Delivery
  <1>2. CASE delivered' = delivered /\ ~Deliver(q, <<q>>)
    BY <1>2 DEF DeliveredInv, Has
  <1>3. CASE delivered' = delivered /\ Deliver(q, <<q>>)
    <2>1. Len(delivered') = Len(delivered) + 1 /\ Len(delivered) \in Nat
      BY <1>1, <1>3 DEF Deliver, DeliveredInv
    <2> QED BY <1>3, <2>1
  <1>4. CASE ~Has(q) /\ Deliver(q, <<q>>)
    <2>1. delivered' = Append(delivered, e)
      BY <1>4 DEF Deliver
    <2> HIDE DEF e
    <2>2. /\ delivered' \in Seq(Delivery) /\ Len(delivered') = Len(delivered) + 1
          /\ Len(delivered) \in Nat
          /\ DOMAIN delivered = 1..Len(delivered) /\ DOMAIN delivered' = 1..(Len(delivered) + 1)
          /\ delivered'[Len(delivered) + 1] = e
          /\ \A i \in 1..Len(delivered) : delivered'[i] = delivered[i]
      BY <1>1, <2>1 DEF DeliveredInv
    <2>3. \A i \in 1..Len(delivered) : delivered[i].env # q
      BY <1>4, <2>2 DEF Has
    <2>4. \A i \in DOMAIN delivered' : i = Len(delivered) + 1 \/ i \in 1..Len(delivered)
      BY <2>2
    <2>5. \A i \in DOMAIN delivered' : delivered'[i].text = <<delivered'[i].env>>
      BY <1>1, <2>2, <2>4 DEF DeliveredInv
    <2>6. \A i, j \in DOMAIN delivered' : delivered'[i].env = delivered'[j].env => i = j
      BY <1>1, <2>2, <2>3, <2>4 DEF DeliveredInv
    <2>7. \A x : Has(x) => Has(x)'
      BY <2>2 DEF Has
    <2>8. \A x : x # q /\ Has(x)' => Has(x)
      BY <1>1, <2>2, <2>4 DEF Has
    <2>9. Has(q)'
      BY <1>1, <2>2 DEF Has
    <2> QED BY <2>2, <2>5, <2>6, <2>7, <2>8, <2>9 DEF DeliveredInv
  <1> QED BY <1>2, <1>3, <1>4

\* A request that does not move keeps what is known of it.
LEMMA OtherSendsKeep ==
  ASSUME NEW q \in SendRequest, UseInv(q), SendInv(q),
         send'[q] = send[q], transport' = transport, graphDraft'[q] = graphDraft[q],
         sendOps'[q] = sendOps[q],
         send[q].pc \in InPool => UNCHANGED <<pool, poolOwner, smtp>>,
         Has(q) => Has(q)', Unsent(q) /\ Has(q)' => Has(q)
  PROVE  UseInv(q)' /\ SendInv(q)'
  <1>1. SendInv(q)'
    BY DEF SendInv, Unsent
  <1>2. CASE send[q].pc \notin InPool
    BY <1>1, <1>2 DEF UseInv, InPool
  <1>3. CASE send[q].pc \in InPool
    <2>1. UNCHANGED <<pool, poolOwner, smtp>>
      BY <1>3
    <2> QED BY <1>1, <2>1 DEF UseInv
  <1> QED BY <1>1, <1>2, <1>3

LEMMA StepKeeps ==
  ASSUME SubmissionInv, NEW r \in SendRequest, NEW s \in SendState,
         send' = [send EXCEPT ![r] = s],
         UNCHANGED <<transport, userRemoved, edits>>,
         sendOps' \in [SendRequest -> {"none", "pending", "succeeded", "failed"}],
         \A q \in SendRequest : q # r => sendOps'[q] = sendOps[q],
         graphDraft' \in [SendRequest -> {"none", "empty", "written", "sent"}],
         \A q \in SendRequest : q # r => graphDraft'[q] = graphDraft[q],
         drafts' = drafts \/ (drafts' = drafts \ {DraftOf[r]} /\ Has(r)),
         pool' \in BOOLEAN, poolOwner' \in SendRequest \cup {Unheld}, smtp' \in Connection,
         sendFaults' \in 0..MaxSendFaults,
         PoolInv', DotInv', DeliveredInv',
         \A q \in SendRequest : Has(q) => Has(q)',
         \A q \in SendRequest : q # r /\ Unsent(q) /\ Has(q)' => Has(q),
         \A q \in SendRequest : q # r /\ send[q].pc \in InPool
                                  => UNCHANGED <<pool, poolOwner, smtp>>,
         UseInv(r)', SendInv(r)'
  PROVE  SubmissionInv'
  <1>1. ASSUME NEW q \in SendRequest
        PROVE  UseInv(q)' /\ SendInv(q)'
    <2>1. CASE q = r
      BY <2>1
    <2>2. CASE q # r
      <3>1. send'[q] = send[q]
        BY <2>2 DEF SubmissionInv, SendTypeOK
      <3>2. UseInv(q) /\ SendInv(q)
        BY DEF SubmissionInv
      <3> QED BY <2>2, <3>1, <3>2, OtherSendsKeep
    <2> QED BY <2>1, <2>2
  <1>2. DraftInv'
    <2> SUFFICES ASSUME NEW d \in Draft, d \notin drafts', d \notin userRemoved
                 PROVE  \E q \in SendRequest : DraftOf[q] = d /\ Has(q)'
      BY DEF DraftInv
    <2>1. CASE d \in drafts
      <3>1. d = DraftOf[r] /\ Has(r)
        BY <2>1
      <3> QED BY <3>1
    <2>2. CASE d \notin drafts
      BY <2>2 DEF SubmissionInv, DraftInv
    <2> QED BY <2>1, <2>2
  <1>3. SendTypeOK'
    <2>1. delivered' \in Seq([env : SendRequest, text : Seq(SendRequest \cup {"part", "line"})])
      BY DEF DeliveredInv, Delivery, Piece
    <2>2. drafts' \subseteq Draft /\ send' \in [SendRequest -> SendState]
      BY DEF SubmissionInv, SendTypeOK
    <2> QED BY <2>1, <2>2 DEF SubmissionInv, SendTypeOK
  <1> QED BY <1>1, <1>2, <1>3 DEF SubmissionInv

\* A step of a request that does not use the connection.
LEMMA OutsideKeeps ==
  ASSUME SubmissionInv, NEW r \in SendRequest, NEW s \in SendState,
         send' = [send EXCEPT ![r] = s],
         send[r].pc \notin InPool, send[r].pc # "aborted", s.pc \notin InPool,
         UNCHANGED <<transport, userRemoved, edits, pool, smtp>>,
         poolOwner' \in {poolOwner, Unheld}, poolOwner' = poolOwner \/ poolOwner \in {Unheld, r},
         sendOps' \in [SendRequest -> {"none", "pending", "succeeded", "failed"}],
         \A q \in SendRequest : q # r => sendOps'[q] = sendOps[q],
         graphDraft' \in [SendRequest -> {"none", "empty", "written", "sent"}],
         \A q \in SendRequest : q # r => graphDraft'[q] = graphDraft[q],
         drafts' = drafts \/ (drafts' = drafts \ {DraftOf[r]} /\ Has(r)),
         sendFaults' \in 0..MaxSendFaults,
         delivered' = delivered \/ (~Has(r) /\ Deliver(r, <<r>>)),
         SendInv(r)'
  PROVE  SubmissionInv'
  <1>1. /\ DeliveredInv'
        /\ \A x : Has(x) => Has(x)'
        /\ \A x : x # r /\ Has(x)' => Has(x)
    BY DeliverKeeps DEF SubmissionInv
  <1>2. send'[r] = s
    BY DEF SubmissionInv, SendTypeOK
  <1>3. UseInv(r)'
    BY <1>2 DEF UseInv, InPool
  <1>4. PoolInv'
    BY DEF SubmissionInv, PoolInv, Quiet, LeftPooled, GoAheadLast, Bad
  <1>5. DotInv'
    <2> SUFFICES ASSUME smtp.alive, smtp.pending
                 PROVE  send'[smtp.env].pc \in {"flush", "aborted"} /\ ~Has(smtp.env)'
      BY DEF DotInv, Has
    <2>1. smtp.env \in SendRequest /\ send[smtp.env].pc \in {"flush", "aborted"} /\ ~Has(smtp.env)
      BY DEF SubmissionInv, PoolInv, DotInv, LeftPooled
    <2>2. smtp.env # r
      BY <2>1 DEF InPool
    <2> QED BY <1>1, <2>1, <2>2 DEF SubmissionInv, SendTypeOK
  <1>6. \A q \in SendRequest : q # r /\ send[q].pc \in InPool => UNCHANGED <<pool, poolOwner, smtp>>
    <2> SUFFICES ASSUME NEW q \in SendRequest, q # r, send[q].pc \in InPool
                 PROVE  poolOwner' = poolOwner
      OBVIOUS
    <2>1. poolOwner = q
      BY DEF SubmissionInv, UseInv
    <2> QED BY <2>1, SendAssumption
  <1>7. pool' \in BOOLEAN /\ poolOwner' \in SendRequest \cup {Unheld} /\ smtp' \in Connection
    BY DEF SubmissionInv, SendTypeOK
  <1> QED BY <1>1, <1>3, <1>4, <1>5, <1>6, <1>7, StepKeeps

-----------------------------------------------------------------------------
(* The steps of a request                                                  *)

LEMMA SendFaultTyped == SendTypeOK /\ (SendFault \/ UNCHANGED sendFaults) => sendFaults' \in 0..MaxSendFaults
  BY SendAssumption DEF SendTypeOK, SendFault

LEMMA QueueOutgoingKeeps ==
  ASSUME SubmissionInv, NEW r \in SendRequest, QueueOutgoing(r)
  PROVE  SubmissionInv'
  <1>1. /\ send[r].pc = "idle" /\ ~Has(r) /\ transport \in Transport
        /\ send \in [SendRequest -> SendState] /\ sendFaults' \in 0..MaxSendFaults
        /\ sendOps' \in [SendRequest -> {"none", "pending", "succeeded", "failed"}]
        /\ sendOps'[r] = "pending"
        /\ \A q \in SendRequest : q # r => sendOps'[q] = sendOps[q]
        /\ graphDraft \in [SendRequest -> {"none", "empty", "written", "sent"}]
    BY DEF QueueOutgoing, SubmissionInv, SendTypeOK, SendInv, Unsent
  <1>2. PICK s \in SendState :
          /\ send' = [send EXCEPT ![r] = s]
          /\ \/ s.pc = "answered"
             \/ s.pc = "create" /\ transport = "graph"
             \/ s.pc \in {"parent", "lettre", "lock"} /\ transport # "graph"
    <2>1. CASE transport = "missing"
      BY <2>1, AnsweredState DEF QueueOutgoing
    <2>2. CASE transport = "graph"
      <3>1. At("create") \in SendState /\ At("create").pc = "create"
        BY AtState DEF Waiting
      <3>2. send' = [send EXCEPT ![r] = At("create")]
        BY <2>2 DEF QueueOutgoing, FirstStep
      <3> QED BY <2>2, <3>1, <3>2
    <2>3. CASE transport \in {"lettre", "xoauth2"}
      <3>1. ASSUME NEW p \in {"parent", "lettre", "lock"}
            PROVE  At(p) \in SendState /\ At(p).pc = p
        BY AtState DEF Waiting
      <3>2. FirstStep(r) \in {At("parent"), At("lettre"), At("lock")}
        BY <2>3 DEF FirstStep
      <3>3. send' = [send EXCEPT ![r] = FirstStep(r)]
        BY <2>3 DEF QueueOutgoing
      <3> QED BY <2>3, <3>1, <3>2, <3>3
    <2> QED BY <1>1, <2>1, <2>2, <2>3 DEF Transport
  <1>3. send'[r] = s
    BY <1>1, <1>2
  <1>4. UNCHANGED <<transport, drafts, pool, poolOwner, smtp, graphDraft, delivered,
                    userRemoved, edits, sendFaults>>
    BY DEF QueueOutgoing
  <1>5. SendInv(r)'
    BY <1>1, <1>2, <1>3, <1>4 DEF SendInv, Unsent, InPool, Has
  <1> QED BY <1>1, <1>2, <1>4, <1>5, OutsideKeeps DEF InPool

LEMMA FetchParentKeeps ==
  ASSUME SubmissionInv, NEW r \in SendRequest, FetchParent(r)
  PROVE  SubmissionInv'
  <1>1. /\ send[r].pc = "parent" /\ ~Has(r) /\ transport # "graph"
        /\ send \in [SendRequest -> SendState] /\ sendFaults' \in 0..MaxSendFaults
        /\ UNCHANGED <<transport, drafts, sendOps, pool, poolOwner, smtp, graphDraft, delivered,
                       userRemoved, edits>>
        /\ sendOps \in [SendRequest -> {"none", "pending", "succeeded", "failed"}]
        /\ graphDraft \in [SendRequest -> {"none", "empty", "written", "sent"}]
    BY SendFaultTyped DEF FetchParent, SubmissionInv, SendTypeOK, SendInv, Unsent
  <1>2. PICK s \in SendState :
          send' = [send EXCEPT ![r] = s] /\ s.pc \in {"lettre", "lock", "failed"}
    <2>1. ASSUME NEW p \in {"lettre", "lock"}
          PROVE  At(p) \in SendState /\ At(p).pc = p
      BY AtState DEF Waiting
    <2>2. [pc |-> "failed"] \in SendState /\ [pc |-> "failed"].pc = "failed"
      BY PlainStates
    <2>3. \/ send' = [send EXCEPT ![r] = At("lettre")]
          \/ send' = [send EXCEPT ![r] = At("lock")]
          \/ send' = [send EXCEPT ![r] = [pc |-> "failed"]]
      BY DEF FetchParent
    <2> QED BY <2>1, <2>2, <2>3
  <1>3. send'[r] = s
    BY <1>1, <1>2
  <1>4. SendInv(r) /\ sendOps[r] # "succeeded"
    BY <1>1 DEF SubmissionInv, SendInv
  <1>5. SendInv(r)'
    BY <1>1, <1>2, <1>3, <1>4 DEF SendInv, Unsent, InPool, Has
  <1> QED BY <1>1, <1>2, <1>5, OutsideKeeps DEF InPool

LEMMA FinishOperationKeeps ==
  ASSUME SubmissionInv, NEW r \in SendRequest, FinishOperation(r)
  PROVE  SubmissionInv'
  <1>1. /\ send[r].pc \in {"sent", "failed"}
        /\ send \in [SendRequest -> SendState] /\ sendFaults' \in 0..MaxSendFaults
        /\ UNCHANGED <<transport, drafts, pool, poolOwner, smtp, graphDraft, delivered,
                       userRemoved, edits, sendFaults>>
        /\ sendOps' \in [SendRequest -> {"none", "pending", "succeeded", "failed"}]
        /\ sendOps'[r] = (IF send[r].pc = "sent" THEN "succeeded" ELSE "failed")
        /\ \A q \in SendRequest : q # r => sendOps'[q] = sendOps[q]
        /\ graphDraft \in [SendRequest -> {"none", "empty", "written", "sent"}]
    BY SendFaultTyped DEF FinishOperation, SubmissionInv, SendTypeOK
  <1>2. PICK s \in SendState :
          /\ send' = [send EXCEPT ![r] = s]
          /\ s.pc = (IF send[r].pc = "sent" THEN "settled" ELSE "answered")
    BY PlainStates, AnsweredState DEF FinishOperation
  <1>3. send'[r] = s /\ SendInv(r)
    BY <1>1, <1>2 DEF SubmissionInv
  <1>4. SendInv(r)'
    BY <1>1, <1>2, <1>3 DEF SendInv, Unsent, InPool, Has
  <1> QED BY <1>1, <1>2, <1>4, OutsideKeeps DEF InPool

LEMMA RemoveDraftKeeps ==
  ASSUME SubmissionInv, NEW r \in SendRequest, RemoveDraft(r)
  PROVE  SubmissionInv'
  <1>1. /\ send[r].pc = "settled" /\ Has(r)
        /\ send \in [SendRequest -> SendState] /\ sendFaults' \in 0..MaxSendFaults
        /\ UNCHANGED <<transport, sendOps, pool, poolOwner, smtp, graphDraft, delivered,
                       userRemoved, edits>>
        /\ drafts' = drafts \/ drafts' = drafts \ {DraftOf[r]}
        /\ sendOps \in [SendRequest -> {"none", "pending", "succeeded", "failed"}]
        /\ graphDraft \in [SendRequest -> {"none", "empty", "written", "sent"}]
    BY SendFaultTyped DEF RemoveDraft, SubmissionInv, SendTypeOK, SendInv
  <1>2. PICK s \in SendState : send' = [send EXCEPT ![r] = s] /\ s.pc = "answered"
    BY AnsweredState DEF RemoveDraft
  <1>3. send'[r] = s /\ SendInv(r)
    BY <1>1, <1>2 DEF SubmissionInv
  <1>4. SendInv(r)'
    BY <1>1, <1>2, <1>3 DEF SendInv, Unsent, InPool, Has
  <1> QED BY <1>1, <1>2, <1>4, OutsideKeeps DEF InPool

LEMMA SubmitLettreKeeps ==
  ASSUME SubmissionInv, NEW r \in SendRequest, SubmitLettre(r)
  PROVE  SubmissionInv'
  <1>1. /\ send[r].pc = "lettre" /\ ~Has(r) /\ transport # "graph" /\ sendOps[r] # "succeeded"
        /\ send \in [SendRequest -> SendState] /\ sendFaults' \in 0..MaxSendFaults
        /\ UNCHANGED <<transport, drafts, sendOps, pool, poolOwner, smtp, graphDraft,
                       userRemoved, edits>>
        /\ sendOps \in [SendRequest -> {"none", "pending", "succeeded", "failed"}]
        /\ graphDraft \in [SendRequest -> {"none", "empty", "written", "sent"}]
        /\ delivered' = delivered \/ Deliver(r, <<r>>)
    BY SendFaultTyped DEF SubmitLettre, SubmissionInv, SendTypeOK, SendInv, Unsent
  <1>2. PICK s \in SendState :
          /\ send' = [send EXCEPT ![r] = s] /\ s.pc \in {"sent", "failed"}
          /\ s.pc = "sent" => Deliver(r, <<r>>)
    BY PlainStates DEF SubmitLettre
  <1>3. send'[r] = s /\ SendInv(r)
    BY <1>1, <1>2 DEF SubmissionInv
  <1>4. Deliver(r, <<r>>) => Has(r)'
    BY <1>1, DeliverKeeps DEF SubmissionInv
  <1>5. SendInv(r)'
    BY <1>1, <1>2, <1>3, <1>4 DEF SendInv, Unsent, InPool
  <1> QED BY <1>1, <1>2, <1>5, OutsideKeeps DEF InPool

\* A request to Graph takes effect or not, and is answered or not.
LEMMA GraphCallMoves ==
  ASSUME SubmissionInv, NEW r \in SendRequest, NEW effect \in {"empty", "written", "sent"},
         NEW next \in SendState, GraphCall(r, effect, next)
  PROVE  /\ sendFaults' \in 0..MaxSendFaults
         /\ graphDraft' \in [SendRequest -> {"none", "empty", "written", "sent"}]
         /\ \A q \in SendRequest : q # r => graphDraft'[q] = graphDraft[q]
         /\ graphDraft'[r] = graphDraft[r] \/ graphDraft'[r] = effect
         /\ \E s \in SendState :
              /\ send' = [send EXCEPT ![r] = s] /\ send'[r] = s
              /\ s.pc = "failed" \/ (s = next /\ graphDraft'[r] = effect)
  <1>1. /\ graphDraft \in [SendRequest -> {"none", "empty", "written", "sent"}]
        /\ send \in [SendRequest -> SendState]
    BY DEF SubmissionInv, SendTypeOK
  <1>2. sendFaults' \in 0..MaxSendFaults
    BY SendFaultTyped DEF GraphCall, SubmissionInv
  <1>3. graphDraft' = graphDraft \/ graphDraft' = [graphDraft EXCEPT ![r] = effect]
    BY DEF GraphCall
  <1>4. [pc |-> "failed"] \in SendState /\ [pc |-> "failed"].pc = "failed"
    BY PlainStates
  <1>5. \/ graphDraft' = [graphDraft EXCEPT ![r] = effect] /\ send' = [send EXCEPT ![r] = next]
        \/ send' = [send EXCEPT ![r] = [pc |-> "failed"]]
    BY DEF GraphCall
  <1>6. \E s \in SendState :
              /\ send' = [send EXCEPT ![r] = s] /\ send'[r] = s
              /\ s.pc = "failed" \/ (s = next /\ graphDraft'[r] = effect)
    <2>1. CASE /\ graphDraft' = [graphDraft EXCEPT ![r] = effect]
               /\ send' = [send EXCEPT ![r] = next]
      BY <1>1, <2>1
    <2>2. CASE send' = [send EXCEPT ![r] = [pc |-> "failed"]]
      BY <1>1, <1>4, <2>2
    <2> QED BY <1>5, <2>1, <2>2
  <1> QED BY <1>1, <1>2, <1>3, <1>6

LEMMA CreateDraftKeeps ==
  ASSUME SubmissionInv, NEW r \in SendRequest, CreateDraft(r)
  PROVE  SubmissionInv'
  <1>1. /\ send[r].pc = "create" /\ ~Has(r) /\ transport = "graph" /\ sendOps[r] # "succeeded"
        /\ UNCHANGED <<transport, drafts, sendOps, pool, poolOwner, smtp, delivered,
                       userRemoved, edits>>
        /\ sendOps \in [SendRequest -> {"none", "pending", "succeeded", "failed"}]
    BY DEF CreateDraft, SubmissionInv, SendTypeOK, SendInv, Unsent
  <1>2. /\ At("update") \in SendState /\ At("update").pc = "update"
        /\ At("submit") \in SendState /\ At("submit").pc = "submit"
    BY AtState DEF Waiting
  <1>3. PICK effect \in {"empty", "written"}, next \in {At("update"), At("submit")} :
          GraphCall(r, effect, next) /\ (next = At("submit") => effect = "written")
    BY <1>2 DEF CreateDraft
  <1>4. next \in SendState
    BY <1>2
  <1>5. /\ sendFaults' \in 0..MaxSendFaults
        /\ graphDraft' \in [SendRequest -> {"none", "empty", "written", "sent"}]
        /\ \A q \in SendRequest : q # r => graphDraft'[q] = graphDraft[q]
        /\ \E s \in SendState :
              /\ send' = [send EXCEPT ![r] = s] /\ send'[r] = s
              /\ s.pc = "failed" \/ (s = next /\ graphDraft'[r] = effect)
    BY <1>3, <1>4, GraphCallMoves
  <1>6. PICK s \in SendState :
              /\ send' = [send EXCEPT ![r] = s] /\ send'[r] = s
              /\ s.pc = "failed" \/ (s = next /\ graphDraft'[r] = effect)
    BY <1>5
  <1>7. SendInv(r)' /\ s.pc \notin InPool
    BY <1>1, <1>2, <1>3, <1>6 DEF SendInv, Unsent, InPool, Has
  <1> QED BY <1>1, <1>5, <1>6, <1>7, OutsideKeeps DEF InPool

LEMMA UpdateDraftKeeps ==
  ASSUME SubmissionInv, NEW r \in SendRequest, UpdateDraft(r)
  PROVE  SubmissionInv'
  <1>1. /\ send[r].pc = "update" /\ ~Has(r) /\ transport = "graph" /\ sendOps[r] # "succeeded"
        /\ UNCHANGED <<transport, drafts, sendOps, pool, poolOwner, smtp, delivered,
                       userRemoved, edits>>
        /\ sendOps \in [SendRequest -> {"none", "pending", "succeeded", "failed"}]
    BY DEF UpdateDraft, SubmissionInv, SendTypeOK, SendInv, Unsent
  <1>2. At("submit") \in SendState /\ At("submit").pc = "submit"
    BY AtState DEF Waiting
  <1>3. GraphCall(r, "written", At("submit"))
    BY DEF UpdateDraft
  <1>5. /\ sendFaults' \in 0..MaxSendFaults
        /\ graphDraft' \in [SendRequest -> {"none", "empty", "written", "sent"}]
        /\ \A q \in SendRequest : q # r => graphDraft'[q] = graphDraft[q]
        /\ \E s \in SendState :
              /\ send' = [send EXCEPT ![r] = s] /\ send'[r] = s
              /\ s.pc = "failed" \/ (s = At("submit") /\ graphDraft'[r] = "written")
    BY <1>2, <1>3, GraphCallMoves
  <1>6. PICK s \in SendState :
              /\ send' = [send EXCEPT ![r] = s] /\ send'[r] = s
              /\ s.pc = "failed" \/ (s = At("submit") /\ graphDraft'[r] = "written")
    BY <1>5
  <1>7. SendInv(r)' /\ s.pc \notin InPool
    BY <1>1, <1>2, <1>6 DEF SendInv, Unsent, InPool, Has
  <1> QED BY <1>1, <1>5, <1>6, <1>7, OutsideKeeps DEF InPool

LEMMA SubmitDraftKeeps ==
  ASSUME SubmissionInv, NEW r \in SendRequest, SubmitDraft(r)
  PROVE  SubmissionInv'
  <1>1. /\ send[r].pc = "submit" /\ ~Has(r) /\ transport = "graph" /\ sendOps[r] # "succeeded"
        /\ graphDraft[r] = "written"
        /\ UNCHANGED <<transport, drafts, sendOps, pool, poolOwner, smtp,
                       userRemoved, edits>>
        /\ sendOps \in [SendRequest -> {"none", "pending", "succeeded", "failed"}]
    BY DEF SubmitDraft, SubmissionInv, SendTypeOK, SendInv, Unsent
  <1>2. [pc |-> "sent"] \in SendState /\ [pc |-> "sent"].pc = "sent"
    BY PlainStates
  <1>3. /\ GraphCall(r, "sent", [pc |-> "sent"])
        /\ delivered' = delivered \/ Deliver(r, <<r>>)
        /\ graphDraft'[r] = "sent" => Deliver(r, <<r>>)
    BY <1>1 DEF SubmitDraft
  <1>5. /\ sendFaults' \in 0..MaxSendFaults
        /\ graphDraft' \in [SendRequest -> {"none", "empty", "written", "sent"}]
        /\ \A q \in SendRequest : q # r => graphDraft'[q] = graphDraft[q]
        /\ \E s \in SendState :
              /\ send' = [send EXCEPT ![r] = s] /\ send'[r] = s
              /\ s.pc = "failed" \/ (s = [pc |-> "sent"] /\ graphDraft'[r] = "sent")
    BY <1>2, <1>3, GraphCallMoves
  <1>6. PICK s \in SendState :
              /\ send' = [send EXCEPT ![r] = s] /\ send'[r] = s
              /\ s.pc = "failed" \/ (s = [pc |-> "sent"] /\ graphDraft'[r] = "sent")
    BY <1>5
  <1>8. Deliver(r, <<r>>) => Has(r)'
    BY <1>1, <1>3, DeliverKeeps DEF SubmissionInv
  <1>7. SendInv(r)' /\ s.pc \notin InPool
    BY <1>1, <1>2, <1>3, <1>6, <1>8 DEF SendInv, Unsent, InPool
  <1> QED BY <1>1, <1>3, <1>5, <1>6, <1>7, OutsideKeeps DEF InPool

-----------------------------------------------------------------------------
(* The steps over the pooled connection                                    *)

\* Only one request uses the connection.
LEMMA UsedByOne ==
  ASSUME SubmissionInv, NEW r \in SendRequest, poolOwner = r \/ poolOwner = Unheld,
         NEW q \in SendRequest, q # r
  PROVE  send[q].pc \notin InPool
  BY SendAssumption DEF SubmissionInv, UseInv

\* Flushing the dot delivers the message it ends, of whoever wrote it.
LEMMA DotDelivers ==
  ASSUME SubmissionInv,
         delivered' = delivered \/ (Completes(smtp) /\ Deliver(smtp.env, smtp.text))
  PROVE  /\ DeliveredInv'
         /\ \A x : Has(x) => Has(x)'
         /\ \A q \in SendRequest :
              Has(q)' => \/ Has(q)
                         \/ /\ q = smtp.env /\ send[q].pc \in {"flush", "aborted"}
                            /\ Completes(smtp)
         /\ \A q \in SendRequest :
              q = smtp.env /\ Completes(smtp) /\ Deliver(smtp.env, smtp.text) => Has(q)'
  <1>1. CASE ~Completes(smtp)
    BY <1>1 DEF SubmissionInv, DeliveredInv, Has
  <1>2. CASE Completes(smtp)
    <2>1. /\ smtp.env \in SendRequest /\ smtp.text = <<smtp.env>> /\ ~Has(smtp.env)
          /\ send[smtp.env].pc \in {"flush", "aborted"}
      BY <1>2 DEF Completes, SubmissionInv, PoolInv, LeftPooled, DotInv
    <2>2. PICK e \in SendRequest : e = smtp.env
      BY <2>1
    <2>3. delivered' = delivered \/ (~Has(e) /\ Deliver(e, <<e>>))
      BY <2>1, <2>2
    <2>4. /\ DeliveredInv'
          /\ \A x : Has(x) => Has(x)'
          /\ \A x : x # e /\ Has(x)' => Has(x)
          /\ Deliver(e, <<e>>) => Has(e)'
      BY <2>3, DeliverKeeps DEF SubmissionInv
    <2> QED BY <1>2, <2>1, <2>2, <2>4
  <1> QED BY <1>1, <1>2

\* A step of the request that has the connection.
LEMMA InsideKeeps ==
  ASSUME SubmissionInv, NEW r \in SendRequest, NEW s \in SendState,
         send' = [send EXCEPT ![r] = s],
         send[r].pc \in InPool \cup {"lock"}, poolOwner = r \/ poolOwner = Unheld,
         UNCHANGED <<transport, drafts, sendOps, graphDraft, userRemoved, edits>>,
         pool' \in BOOLEAN, poolOwner' \in SendRequest \cup {Unheld}, smtp' \in Connection,
         sendFaults' \in 0..MaxSendFaults,
         PoolInv', DotInv',
         delivered' = delivered \/ (Completes(smtp) /\ Deliver(smtp.env, smtp.text)),
         UseInv(r)', SendInv(r)'
  PROVE  SubmissionInv'
  <1>1. /\ DeliveredInv'
        /\ \A x : Has(x) => Has(x)'
        /\ \A q \in SendRequest :
             Has(q)' => Has(q) \/ (q = smtp.env /\ send[q].pc \in {"flush", "aborted"})
    BY DotDelivers
  <1>2. \A q \in SendRequest : q # r => send[q].pc \notin InPool
    BY UsedByOne
  <1>3. \A q \in SendRequest : q # r /\ Unsent(q) /\ Has(q)' => Has(q)
    BY <1>1, <1>2 DEF Unsent, InPool
  <1>4. /\ sendOps' \in [SendRequest -> {"none", "pending", "succeeded", "failed"}]
        /\ graphDraft' \in [SendRequest -> {"none", "empty", "written", "sent"}]
    BY DEF SubmissionInv, SendTypeOK
  <1>5. /\ \A q \in SendRequest : q # r => sendOps'[q] = sendOps[q]
        /\ \A q \in SendRequest : q # r => graphDraft'[q] = graphDraft[q]
    OBVIOUS
  <1>6. \A q \in SendRequest : q # r /\ send[q].pc \in InPool => UNCHANGED <<pool, poolOwner, smtp>>
    BY <1>2
  <1> QED BY <1>1, <1>3, <1>4, <1>5, <1>6, StepKeeps

\* A dot left in the buffer is of a request that has no step.
LEMMA DotLeft ==
  ASSUME SubmissionInv, NEW r \in SendRequest, NEW s, send' = [send EXCEPT ![r] = s],
         send[r].pc \notin {"flush", "aborted"}, UNCHANGED smtp,
         \A q \in SendRequest : q # r /\ Has(q)' => Has(q)
  PROVE  DotInv'
  <1> SUFFICES ASSUME smtp.alive, smtp.pending
               PROVE  send'[smtp.env].pc \in {"flush", "aborted"} /\ ~Has(smtp.env)'
    BY DEF DotInv, Has
  <1>1. smtp.env \in SendRequest /\ send[smtp.env].pc \in {"flush", "aborted"} /\ ~Has(smtp.env)
    BY DEF SubmissionInv, PoolInv, DotInv, LeftPooled
  <1>2. smtp.env # r
    BY <1>1
  <1> QED BY <1>1, <1>2 DEF SubmissionInv, SendTypeOK

LEMMA TakePoolKeeps ==
  ASSUME SubmissionInv, NEW r \in SendRequest, TakePool(r)
  PROVE  SubmissionInv'
  <1>1. /\ send[r].pc = "lock" /\ ~Has(r) /\ transport # "graph" /\ sendOps[r] # "succeeded"
        /\ send \in [SendRequest -> SendState] /\ pool \in BOOLEAN /\ smtp \in Connection
        /\ UNCHANGED <<transport, drafts, sendOps, pool, smtp, graphDraft, delivered, userRemoved,
                       edits, sendFaults>>
        /\ poolOwner = Unheld /\ poolOwner' = r
        /\ sendFaults' \in 0..MaxSendFaults
    BY SendFaultTyped DEF TakePool, SubmissionInv, SendTypeOK, SendInv, Unsent
  <1> DEFINE p == IF pool THEN "write" ELSE "connect"
             a == [send[r] EXCEPT !.pc = p]
             b == [a EXCEPT !.stage = "MAIL"]
             t == [b EXCEPT !.reused = pool]
  <1>2. send[r] \in Underway
    BY <1>1, UnderwayIs DEF Waiting
  <1>3. t \in SendState /\ t.pc = p /\ t.stage = "MAIL"
    BY <1>1, <1>2 DEF Underway, Waiting, Stage, SendState
  <1>4. send' = [send EXCEPT ![r] = t]
    BY <1>1 DEF TakePool
  <1> HIDE DEF t
  <1>5. PICK s \in SendState : send' = [send EXCEPT ![r] = s] /\ s.pc = p /\ s.stage = "MAIL"
    BY <1>3, <1>4
  <1>6. send'[r] = s
    BY <1>1, <1>5
  <1>7. SendInv(r)'
    BY <1>1, <1>5, <1>6 DEF SendInv, Unsent, InPool, Has
  <1>8. smtp' \in Connection /\ PoolInv' /\ pool' \in BOOLEAN
    BY <1>1 DEF SubmissionInv, PoolInv
  <1>9. DotInv'
    BY <1>1, <1>5, DotLeft DEF Has
  <1>10. UseInv(r)'
    BY <1>1, <1>5, <1>6 DEF UseInv, InPool
  <1> QED BY <1>1, <1>5, <1>7, <1>8, <1>9, <1>10, InsideKeeps

LEMMA ConnectKeeps ==
  ASSUME SubmissionInv, NEW r \in SendRequest, Connect(r)
  PROVE  SubmissionInv'
  <1>1. /\ send[r].pc = "connect" /\ ~Has(r) /\ transport # "graph" /\ sendOps[r] # "succeeded"
        /\ send \in [SendRequest -> SendState]
        /\ UNCHANGED <<transport, drafts, sendOps, poolOwner, graphDraft, delivered, userRemoved,
                       edits, sendFaults>>
        /\ poolOwner = r /\ pool' = TRUE /\ smtp' = Quiet
        /\ sendFaults' \in 0..MaxSendFaults
    BY SendFaultTyped DEF Connect, SubmissionInv, SendTypeOK, SendInv, Unsent, UseInv, InPool
  <1> DEFINE a == [send[r] EXCEPT !.pc = "write"]
             b == [a EXCEPT !.stage = "MAIL"]
             t == [b EXCEPT !.reused = FALSE]
  <1>2. send[r] \in Underway
    BY <1>1, UnderwayIs DEF Waiting
  <1>3. t \in SendState /\ t.pc = "write" /\ t.stage = "MAIL"
    BY <1>1, <1>2 DEF Underway, Waiting, Stage, SendState
  <1>4. send' = [send EXCEPT ![r] = t]
    BY <1>1 DEF Connect
  <1> HIDE DEF t
  <1>5. PICK s \in SendState : send' = [send EXCEPT ![r] = s] /\ s.pc = "write" /\ s.stage = "MAIL"
    BY <1>3, <1>4
  <1>6. send'[r] = s
    BY <1>1, <1>5
  <1>7. SendInv(r)'
    BY <1>1, <1>5, <1>6 DEF SendInv, Unsent, InPool, Has
  <1>8. smtp' \in Connection /\ PoolInv' /\ DotInv' /\ pool' \in BOOLEAN
    BY <1>1, QuietLeft DEF PoolInv, DotInv
  <1>9. UseInv(r)'
    BY <1>1, <1>5, <1>6 DEF UseInv, InPool
  <1> QED BY <1>1, <1>5, <1>7, <1>8, <1>9, InsideKeeps DEF InPool

\* No connection is left behind by a request that leaves before it has one.
LEMMA LeaveConnectKeeps ==
  ASSUME SubmissionInv, NEW r \in SendRequest, NEW s \in SendState,
         send[r].pc = "connect", send' = [send EXCEPT ![r] = s], s.pc \in {"failed", "hung"},
         poolOwner' \in {poolOwner, Unheld}, sendFaults' \in 0..MaxSendFaults,
         UNCHANGED <<transport, drafts, sendOps, pool, smtp, graphDraft, delivered, userRemoved,
                     edits>>
  PROVE  SubmissionInv'
  <1>1. /\ ~Has(r) /\ transport # "graph" /\ sendOps[r] # "succeeded" /\ poolOwner = r
        /\ send \in [SendRequest -> SendState] /\ pool' \in BOOLEAN /\ smtp' \in Connection
        /\ poolOwner' \in SendRequest \cup {Unheld}
    BY DEF SubmissionInv, SendTypeOK, SendInv, Unsent, UseInv, InPool
  <1>2. send'[r] = s
    BY <1>1
  <1>3. SendInv(r)'
    BY <1>1, <1>2 DEF SendInv, Unsent, InPool, Has
  <1>4. UseInv(r)'
    BY <1>2 DEF UseInv, InPool
  <1>5. PoolInv' /\ DotInv'
    BY DotLeft DEF SubmissionInv, PoolInv, Has
  <1> QED BY <1>1, <1>3, <1>4, <1>5, InsideKeeps DEF InPool

LEMMA ConnectRefusedKeeps ==
  ASSUME SubmissionInv, NEW r \in SendRequest, ConnectRefused(r)
  PROVE  SubmissionInv'
  <1>1. /\ send[r].pc = "connect" /\ poolOwner' = Unheld /\ sendFaults' \in 0..MaxSendFaults
        /\ UNCHANGED <<transport, drafts, sendOps, pool, smtp, graphDraft, delivered, userRemoved,
                       edits>>
    BY SendFaultTyped DEF ConnectRefused, SubmissionInv
  <1>2. PICK s \in SendState : send' = [send EXCEPT ![r] = s] /\ s.pc = "failed"
    BY PlainStates DEF ConnectRefused
  <1> QED BY <1>1, <1>2, LeaveConnectKeeps

LEMMA FallSilentKeeps ==
  ASSUME SubmissionInv, NEW r \in SendRequest, FallSilent(r)
  PROVE  SubmissionInv'
  <1>1. /\ send[r].pc \in {"connect", "lettre", "create", "update", "submit"}
        /\ send \in [SendRequest -> SendState] /\ sendFaults' \in 0..MaxSendFaults
        /\ UNCHANGED <<transport, drafts, sendOps, pool, poolOwner, smtp, graphDraft,
                       userRemoved, edits>>
        /\ ~Has(r) /\ sendOps[r] # "succeeded"
        /\ sendOps \in [SendRequest -> {"none", "pending", "succeeded", "failed"}]
        /\ graphDraft \in [SendRequest -> {"none", "empty", "written", "sent"}]
    BY SendFaultTyped DEF FallSilent, SubmissionInv, SendTypeOK, SendInv, Unsent
  <1> DEFINE t == [send[r] EXCEPT !.pc = "hung"]
  <1>2. send[r] \in Underway
    BY <1>1, UnderwayIs DEF Waiting
  <1>3. t \in SendState /\ t.pc = "hung"
    BY <1>2 DEF Underway, Waiting, SendState
  <1>4. send' = [send EXCEPT ![r] = t]
    BY <1>1 DEF FallSilent
  <1> HIDE DEF t
  <1>5. PICK s \in SendState : send' = [send EXCEPT ![r] = s] /\ s.pc = "hung"
    BY <1>3, <1>4
  <1>6. CASE send[r].pc = "connect"
    BY <1>1, <1>5, <1>6, LeaveConnectKeeps DEF FallSilent
  <1>7. CASE send[r].pc # "connect"
    <2>1. send'[r] = s
      BY <1>1, <1>5
    <2>2. SendInv(r)'
      BY <1>1, <1>5, <2>1 DEF SendInv, Unsent, InPool
    <2>3. delivered' = delivered \/ Deliver(r, <<r>>)
      BY DEF FallSilent
    <2> QED BY <1>1, <1>5, <1>7, <2>2, <2>3, OutsideKeeps DEF InPool
  <1> QED BY <1>6, <1>7

\* Before a line goes out, a dot that an earlier request left does.
LEMMA AfterDotStage ==
  ASSUME NEW c \in Connection, LeftPooled(c), NEW d, d = AfterDot(c, FALSE), NEW r
  PROVE  /\ BeforeRcpt(c, r) => BeforeRcpt(d, r)
         /\ BeforeData(c, r) => BeforeData(d, r)
  <1>1. /\ d.alive = c.alive
        /\ ~(c.alive /\ c.pending) =>
             d.phase = c.phase /\ d.env = c.env /\ d.text = c.text /\ d.replies = c.replies
    BY DotKeeps
  <1>2. c.alive /\ c.pending => c.phase = "data" /\ c.replies = <<>>
    BY DEF LeftPooled
  <1>3. <<>> # <<354>> /\ Len(<<>>) = 0
    OBVIOUS
  <1>4. \A k \in Nat : ~Bad(<<>>, k)
    BY <1>3 DEF Bad
  <1>5. CASE c.alive /\ c.pending
    <2>1. ~Bad(c.replies, 1) /\ ~Bad(c.replies, 2) /\ c.replies # <<354>>
      BY <1>2, <1>3, <1>4, <1>5
    <2> QED BY <1>2, <1>5, <2>1 DEF BeforeRcpt, BeforeData, Mine
  <1>6. CASE ~(c.alive /\ c.pending)
    <2>1. /\ d.alive = c.alive /\ d.phase = c.phase /\ d.env = c.env /\ d.text = c.text
          /\ d.replies = c.replies
      BY <1>1, <1>6
    <2>2. BeforeRcpt(c, r) => BeforeRcpt(d, r)
      <3>1. Bad(c.replies, 2) => Bad(d.replies, 2)
        BY <2>1
      <3>2. Mine(c, r, "mail") => Mine(d, r, "mail")
        BY <2>1 DEF Mine
      <3>3. c.replies \in {<<>>, <<250>>} => d.replies \in {<<>>, <<250>>}
        BY <2>1
      <3>4. c.phase = "data" /\ c.replies = <<354>> => d.phase = "data" /\ d.replies = <<354>>
        BY <2>1
      <3> QED BY <2>1, <3>1, <3>2, <3>3, <3>4, Zenon DEF BeforeRcpt
    <2>3. BeforeData(c, r) => BeforeData(d, r)
      BY <2>1 DEF BeforeData, Mine
    <2> QED BY <2>2, <2>3
  <1> QED BY <1>5, <1>6

LEMMA WriteLineKeeps ==
  ASSUME SubmissionInv, NEW r \in SendRequest, WriteLine(r)
  PROVE  SubmissionInv'
  <1>1. /\ send[r].pc = "write" /\ ~Has(r) /\ transport # "graph" /\ sendOps[r] # "succeeded"
        /\ send[r].stage \in {"MAIL", "RCPT", "DATA"}
        /\ send \in [SendRequest -> SendState] /\ pool \in BOOLEAN /\ smtp \in Connection
        /\ UNCHANGED <<transport, drafts, sendOps, pool, poolOwner, graphDraft, userRemoved, edits>>
        /\ poolOwner = r /\ pool /\ poolOwner' \in SendRequest \cup {Unheld}
        /\ sendFaults' \in 0..MaxSendFaults /\ LeftPooled(smtp) /\ UseInv(r)
        /\ delivered' = delivered \/ (Completes(smtp) /\ Deliver(smtp.env, smtp.text))
    BY SendFaultTyped
       DEF WriteLine, Flushed, SubmissionInv, SendTypeOK, SendInv, Unsent, UseInv, InPool, PoolInv
  <1>2. PICK refuse \in BOOLEAN :
          smtp' = Heard(AfterDot(smtp, FALSE), r, send[r].stage, refuse)
    BY DEF WriteLine
  <1>3. PICK c : c = AfterDot(smtp, FALSE)
    OBVIOUS
  <1>4. c \in Connection /\ LeftPooled(c) /\ ~c.pending
    BY <1>1, <1>3, DotKeeps
  <1> DEFINE t == [send[r] EXCEPT !.pc = "read"]
  <1>5. t \in SendState /\ t.pc = "read" /\ t.stage = send[r].stage
    <2>1. send[r] \in Underway
      BY <1>1, UnderwayIs DEF Waiting
    <2> QED BY <2>1 DEF Underway, Waiting, SendState
  <1>6. send' = [send EXCEPT ![r] = t]
    BY DEF WriteLine
  <1> HIDE DEF t
  <1>7. PICK s \in SendState :
          send' = [send EXCEPT ![r] = s] /\ s.pc = "read" /\ s.stage = send[r].stage
    BY <1>5, <1>6
  <1>8. send'[r] = s
    BY <1>1, <1>7
  <1>9. smtp' \in Connection /\ ~smtp'.pending
    BY <1>1, <1>2, <1>3, <1>4, HeardFacts
  <1>10. /\ LeftPooled(smtp')
         /\ send[r].stage = "MAIL" => InMail(smtp', r)
         /\ send[r].stage = "RCPT" => InRcpt(smtp', r)
         /\ send[r].stage = "DATA" => InData(smtp', r)
    <2>1. CASE send[r].stage = "MAIL"
      <3>1. smtp' = Heard(c, r, "MAIL", refuse)
        BY <1>2, <1>3, <2>1
      <3>2. LeftPooled(smtp') /\ InMail(smtp', r)
        BY <1>4, <3>1, MailHeard
      <3> QED BY <2>1, <3>2
    <2>2. CASE send[r].stage = "RCPT"
      <3>1. smtp' = Heard(c, r, "RCPT", refuse)
        BY <1>2, <1>3, <2>2
      <3>2. BeforeRcpt(smtp, r)
        BY <1>1, <2>2 DEF UseInv
      <3>3. BeforeRcpt(c, r)
        BY <1>1, <1>3, <3>2, AfterDotStage
      <3>4. LeftPooled(smtp') /\ InRcpt(smtp', r)
        BY <1>4, <3>1, <3>3, RcptHeard
      <3> QED BY <2>2, <3>4
    <2>3. CASE send[r].stage = "DATA"
      <3>1. smtp' = Heard(c, r, "DATA", refuse)
        BY <1>2, <1>3, <2>3
      <3>2. BeforeData(smtp, r)
        BY <1>1, <2>3 DEF UseInv
      <3>3. BeforeData(c, r)
        BY <1>1, <1>3, <3>2, AfterDotStage
      <3>4. LeftPooled(smtp') /\ InData(smtp', r)
        BY <1>4, <3>1, <3>3, DataHeard
      <3> QED BY <2>3, <3>4
    <2> QED BY <1>1, <2>1, <2>2, <2>3
  <1>11. UseInv(r)'
    BY <1>1, <1>7, <1>8, <1>10 DEF UseInv, InPool
  <1>12. ~Has(r)'
    BY <1>1, DotDelivers
  <1>13. SendInv(r)'
    BY <1>1, <1>7, <1>8, <1>12 DEF SendInv, Unsent, InPool
  <1>14. PoolInv' /\ DotInv'
    BY <1>1, <1>9, <1>10 DEF PoolInv, DotInv
  <1>15. pool' \in BOOLEAN
    BY <1>1
  <1> QED BY <1>1, <1>7, <1>9, <1>11, <1>13, <1>14, <1>15, InsideKeeps DEF InPool

LEMMA WriteBodyKeeps ==
  ASSUME SubmissionInv, NEW r \in SendRequest, WriteBody(r)
  PROVE  SubmissionInv'
  <1>1. /\ send[r].pc = "write" /\ ~Has(r) /\ transport # "graph" /\ sendOps[r] # "succeeded"
        /\ send[r].stage = "BODY"
        /\ send \in [SendRequest -> SendState] /\ pool \in BOOLEAN /\ smtp \in Connection
        /\ UNCHANGED <<transport, drafts, sendOps, pool, poolOwner, graphDraft, delivered,
                       userRemoved, edits, sendFaults>>
        /\ poolOwner = r /\ pool /\ poolOwner' \in SendRequest \cup {Unheld}
        /\ sendFaults' \in 0..MaxSendFaults /\ LeftPooled(smtp) /\ BeforeBody(smtp, r)
        /\ smtp' = (IF smtp.alive /\ smtp.phase = "data"
                    THEN [smtp EXCEPT !.text = Append(smtp.text, r), !.pending = TRUE] ELSE smtp)
    BY SendFaultTyped
       DEF WriteBody, SubmissionInv, SendTypeOK, SendInv, Unsent, UseInv, InPool, PoolInv
  <1>2. smtp' \in Connection /\ LeftPooled(smtp') /\ BeforeDot(smtp', r)
    BY <1>1, BodyWritten
  <1> DEFINE a == [send[r] EXCEPT !.pc = "flush"]
             t == [a EXCEPT !.stage = "END"]
  <1>3. t \in SendState /\ t.pc = "flush" /\ t.stage = "END"
    <2>1. send[r] \in Underway
      BY <1>1, UnderwayIs DEF Waiting
    <2> QED BY <2>1 DEF Underway, Waiting, Stage, SendState
  <1>4. send' = [send EXCEPT ![r] = t]
    BY DEF WriteBody
  <1> HIDE DEF t
  <1>5. PICK s \in SendState : send' = [send EXCEPT ![r] = s] /\ s.pc = "flush" /\ s.stage = "END"
    BY <1>3, <1>4
  <1>6. send'[r] = s
    BY <1>1, <1>5
  <1>7. UseInv(r)'
    BY <1>1, <1>2, <1>5, <1>6 DEF UseInv, InPool
  <1>8. SendInv(r)'
    BY <1>1, <1>5, <1>6 DEF SendInv, Unsent, InPool, Has
  <1>9. PoolInv'
    BY <1>1, <1>2 DEF PoolInv
  <1>10. DotInv'
    <2>1. smtp'.alive => smtp'.env = r
      BY <1>2 DEF BeforeDot
    <2>2. ~Has(r)'
      BY <1>1 DEF Has
    <2>3. ASSUME smtp'.alive, NEW e, e = smtp'.env PROVE send'[e].pc = "flush" /\ ~Has(e)'
      BY <1>5, <1>6, <2>1, <2>2, <2>3
    <2> QED BY <2>3 DEF DotInv, Has
  <1>11. pool' \in BOOLEAN
    BY <1>1
  <1> QED BY <1>1, <1>2, <1>5, <1>7, <1>8, <1>9, <1>10, <1>11, InsideKeeps DEF InPool

LEMMA FlushDotKeeps ==
  ASSUME SubmissionInv, NEW r \in SendRequest, FlushDot(r)
  PROVE  SubmissionInv'
  <1>1. /\ send[r].pc = "flush" /\ ~Has(r) /\ transport # "graph" /\ sendOps[r] # "succeeded"
        /\ send[r].stage = "END"
        /\ send \in [SendRequest -> SendState] /\ pool \in BOOLEAN /\ smtp \in Connection
        /\ UNCHANGED <<transport, drafts, sendOps, pool, poolOwner, graphDraft,
                       userRemoved, edits>>
        /\ poolOwner = r /\ pool /\ poolOwner' \in SendRequest \cup {Unheld}
        /\ sendFaults' \in 0..MaxSendFaults /\ LeftPooled(smtp) /\ BeforeDot(smtp, r)
        /\ delivered' = delivered \/ (Completes(smtp) /\ Deliver(smtp.env, smtp.text))
    BY SendFaultTyped
       DEF FlushDot, Flushed, SubmissionInv, SendTypeOK, SendInv, Unsent, UseInv, InPool, PoolInv
  <1>2. PICK refuse \in BOOLEAN : smtp' = AfterDot(smtp, refuse) /\ Flushed(refuse)
    BY DEF FlushDot
  <1>3. /\ smtp' \in Connection /\ LeftPooled(smtp') /\ ~smtp'.pending
        /\ smtp.alive /\ smtp.pending =>
             Completes(smtp) /\ smtp'.replies = <<IF refuse THEN 550 ELSE 250>>
        /\ ~(smtp.alive /\ smtp.pending) => smtp'.replies = smtp.replies
    BY <1>1, <1>2, DotKeeps
  <1>4. \/ smtp'.replies \in {<<>>, <<550>>}
        \/ smtp'.replies = <<250>> /\ Has(r)'
    <2>1. CASE ~(smtp.alive /\ smtp.pending)
      BY <1>1, <1>3, <2>1 DEF BeforeDot
    <2>2. CASE smtp.alive /\ smtp.pending /\ refuse
      BY <1>3, <2>2
    <2>3. CASE smtp.alive /\ smtp.pending /\ ~refuse
      <3>1. smtp.env = r
        BY <1>1, <2>3 DEF BeforeDot
      <3>2. Completes(smtp) /\ Deliver(smtp.env, smtp.text)
        BY <1>2, <1>3, <2>3 DEF Flushed
      <3>3. Has(r)'
        BY <1>1, <3>1, <3>2, DotDelivers
      <3> QED BY <1>3, <2>3, <3>3
    <2> QED BY <2>1, <2>2, <2>3
  <1> DEFINE t == [send[r] EXCEPT !.pc = "read"]
  <1>5. t \in SendState /\ t.pc = "read" /\ t.stage = "END"
    <2>1. send[r] \in Underway
      BY <1>1, UnderwayIs DEF Waiting
    <2> QED BY <1>1, <2>1 DEF Underway, Waiting, SendState
  <1>6. send' = [send EXCEPT ![r] = t]
    BY DEF FlushDot
  <1> HIDE DEF t
  <1>7. PICK s \in SendState : send' = [send EXCEPT ![r] = s] /\ s.pc = "read" /\ s.stage = "END"
    BY <1>5, <1>6
  <1>8. send'[r] = s
    BY <1>1, <1>7
  <1>9. UseInv(r)'
    BY <1>1, <1>4, <1>7, <1>8 DEF UseInv, InPool
  <1>10. SendInv(r)'
    BY <1>1, <1>7, <1>8 DEF SendInv, Unsent, InPool
  <1>11. PoolInv' /\ DotInv'
    BY <1>1, <1>3 DEF PoolInv, DotInv
  <1>12. pool' \in BOOLEAN
    BY <1>1
  <1> QED BY <1>1, <1>3, <1>7, <1>9, <1>10, <1>11, <1>12, InsideKeeps DEF InPool

\* An error drops the connection, and with it whatever was unread or unsent.
LEMMA DropPoolKeeps ==
  ASSUME SubmissionInv, NEW r \in SendRequest, send[r].pc \in {"write", "flush", "read"},
         DropPool(r),
         sendFaults' \in 0..MaxSendFaults,
         UNCHANGED <<transport, drafts, sendOps, graphDraft, delivered, userRemoved, edits>>
  PROVE  SubmissionInv'
  <1>1. /\ transport # "graph" /\ poolOwner = r /\ SendInv(r) /\ UseInv(r)
        /\ send \in [SendRequest -> SendState] /\ pool' = FALSE /\ smtp' = Quiet
        /\ poolOwner' \in SendRequest \cup {Unheld}
    BY DEF DropPool, SubmissionInv, SendTypeOK, SendInv, UseInv, InPool
  <1>2. \E s \in SendState :
          /\ send' = [send EXCEPT ![r] = s]
          /\ \/ s.pc = "failed" /\ poolOwner' = Unheld
             \/ s.pc = "connect" /\ poolOwner' = r /\ ~AfterData(send[r].stage)
    <2>1. CASE send' = [send EXCEPT ![r] = [pc |-> "failed"]] /\ poolOwner' = Unheld
      BY <2>1, PlainStates
    <2>2. CASE /\ send' = [send EXCEPT ![r].pc = "connect", ![r].attempt = 1]
               /\ poolOwner' = poolOwner /\ ~AfterData(send[r].stage)
      <3> DEFINE a == [send[r] EXCEPT !.pc = "connect"]
                 t == [a EXCEPT !.attempt = 1]
      <3>1. t \in SendState /\ t.pc = "connect"
        <4>1. send[r] \in Underway
          BY <1>1, UnderwayIs DEF Waiting, InPool
        <4>2. a \in Underway /\ a.pc = "connect"
          BY <4>1 DEF Underway, Waiting
        <4> HIDE DEF a
        <4>3. t \in Underway /\ t.pc = "connect"
          BY <4>2 DEF Underway
        <4> QED BY <4>3 DEF Underway, SendState
      <3>2. send' = [send EXCEPT ![r] = t]
        BY <2>2
      <3> HIDE DEF t
      <3> QED BY <1>1, <2>2, <3>1, <3>2
    <2> QED BY <2>1, <2>2 DEF DropPool
  <1>3. PICK s \in SendState :
          /\ send' = [send EXCEPT ![r] = s]
          /\ \/ s.pc = "failed" /\ poolOwner' = Unheld
             \/ s.pc = "connect" /\ poolOwner' = r /\ ~AfterData(send[r].stage)
    BY <1>2
  <1>4. send'[r] = s
    BY <1>1, <1>3
  <1>5. s.pc = "connect" => Unsent(r)
    BY <1>1, <1>3 DEF AfterData, Unsent, UseInv, InPool
  <1>6. (Has(r)' <=> Has(r)) /\ sendOps'[r] = sendOps[r] /\ graphDraft'[r] = graphDraft[r]
    BY DEF Has
  <1>7. SendInv(r)'
    BY <1>1, <1>3, <1>4, <1>5, <1>6 DEF SendInv, Unsent, InPool
  <1>8. UseInv(r)'
    BY <1>1, <1>3, <1>4 DEF UseInv, InPool
  <1>9. smtp' \in Connection /\ PoolInv' /\ DotInv'
    BY <1>1, QuietLeft DEF PoolInv, DotInv
  <1>10. pool' \in BOOLEAN /\ send[r].pc \in InPool
    BY <1>1 DEF InPool
  <1> QED BY <1>1, <1>3, <1>7, <1>8, <1>9, <1>10, InsideKeeps

LEMMA LoseReplyKeeps ==
  ASSUME SubmissionInv, NEW r \in SendRequest, LoseReply(r)
  PROVE  SubmissionInv'
  <1>1. /\ send[r].pc \in {"write", "flush", "read"} /\ DropPool(r)
        /\ UNCHANGED <<transport, drafts, sendOps, graphDraft, delivered, userRemoved, edits>>
    BY DEF LoseReply
  <1>2. sendFaults' \in 0..MaxSendFaults
    BY SendFaultTyped DEF LoseReply, SubmissionInv
  <1> QED BY <1>1, <1>2, DropPoolKeeps

LEMMA ReadReplyKeeps ==
  ASSUME SubmissionInv, NEW r \in SendRequest, ReadReply(r)
  PROVE  SubmissionInv'
  <1>1. /\ send[r].pc = "read" /\ transport # "graph" /\ SendInv(r) /\ UseInv(r)
        /\ send[r].stage \in {"MAIL", "RCPT", "DATA", "END"}
        /\ send \in [SendRequest -> SendState] /\ pool \in BOOLEAN /\ smtp \in Connection
        /\ UNCHANGED <<transport, drafts, sendOps, graphDraft, delivered, userRemoved, edits,
                       sendFaults>>
        /\ poolOwner = r /\ pool
        /\ sendFaults' \in 0..MaxSendFaults /\ LeftPooled(smtp)
        /\ smtp.replies # <<>>
    BY SendFaultTyped
       DEF ReadReply, SubmissionInv, SendTypeOK, SendInv, Unsent, UseInv, InPool, PoolInv
  <1>2. CASE Head(smtp.replies) # Expected(send[r].stage)
    <2>1. DropPool(r)
      BY <1>2 DEF ReadReply
    <2> QED BY <1>1, <2>1, DropPoolKeeps DEF InPool
  <1>3. CASE Head(smtp.replies) = Expected(send[r].stage)
    <2>1. /\ smtp' = [smtp EXCEPT !.replies = Unread(smtp.replies)] /\ pool' = pool
          /\ Head(smtp.replies) \in {250, 354}
          /\ send[r].stage = "DATA" => Head(smtp.replies) = 354
          /\ send[r].stage # "DATA" => Head(smtp.replies) = 250
      BY <1>3 DEF ReadReply, Expected, Unread
    <2>2. /\ smtp' \in Connection /\ LeftPooled(smtp') /\ ~(smtp'.alive /\ smtp'.pending)
      BY Zenon, <1>1, <2>1, ReadFacts
    <2>3. PoolInv' /\ DotInv' /\ pool' \in BOOLEAN
      BY <1>1, <2>1, <2>2 DEF PoolInv, DotInv
    <2>4. CASE send[r].stage = "END"
      <3>1. poolOwner' = Unheld /\ send' = [send EXCEPT ![r] = [pc |-> "sent"]]
        BY <1>3, <2>4 DEF ReadReply
      <3>2. PICK s \in SendState : send' = [send EXCEPT ![r] = s] /\ s.pc = "sent"
        BY <3>1, PlainStates
      <3>3. send'[r] = s
        BY <1>1, <3>2
      <3>4. Has(r)
        <4>1. Head(<<550>>) = 550
          OBVIOUS
        <4> QED BY <1>1, <2>1, <2>4, <4>1 DEF UseInv
      <3>5. SendInv(r)'
        BY <1>1, <3>2, <3>3, <3>4 DEF SendInv, Unsent, InPool, Has
      <3>6. UseInv(r)'
        BY <3>2, <3>3 DEF UseInv, InPool
      <3>7. poolOwner' \in SendRequest \cup {Unheld}
        BY <3>1
      <3> QED BY <1>1, <2>2, <2>3, <3>2, <3>5, <3>6, <3>7, InsideKeeps DEF InPool
    <2>5. CASE send[r].stage \in {"MAIL", "RCPT", "DATA"}
      <3>1. /\ poolOwner' = poolOwner
            /\ send' = [send EXCEPT ![r].pc = "write", ![r].stage = NextStage(send[r].stage)]
        BY <1>1, <1>3, <2>5 DEF ReadReply
      <3> DEFINE a == [send[r] EXCEPT !.pc = "write"]
                 t == [a EXCEPT !.stage = NextStage(send[r].stage)]
      <3>2. /\ NextStage(send[r].stage) \in Stage
            /\ send[r].stage = "MAIL" => NextStage(send[r].stage) = "RCPT"
            /\ send[r].stage = "RCPT" => NextStage(send[r].stage) = "DATA"
            /\ send[r].stage = "DATA" => NextStage(send[r].stage) = "BODY"
        BY <2>5 DEF NextStage, Stage
      <3>3. send' = [send EXCEPT ![r] = t]
        BY <3>1
      <3>4. t \in SendState /\ t.pc = "write" /\ t.stage = NextStage(send[r].stage)
        <4>1. send[r] \in Underway
          BY <1>1, UnderwayIs DEF Waiting
        <4>2. a \in Underway /\ a.pc = "write"
          BY <4>1 DEF Underway, Waiting
        <4> HIDE DEF a
        <4>3. t \in Underway /\ t.pc = "write" /\ t.stage = NextStage(send[r].stage)
          BY <3>2, <4>2 DEF Underway
        <4> HIDE DEF t
        <4> QED BY <4>3 DEF Underway, SendState
      <3> HIDE DEF t
      <3>5. PICK s \in SendState :
              /\ send' = [send EXCEPT ![r] = s] /\ s.pc = "write"
              /\ s.stage = NextStage(send[r].stage)
        BY <3>3, <3>4
      <3>6. send'[r] = s
        BY <1>1, <3>5
      <3>7. ~Has(r)
        BY <1>1, <2>5 DEF SendInv, Unsent
      <3>8. SendInv(r)'
        BY <1>1, <3>5, <3>6, <3>7 DEF SendInv, Unsent, InPool, Has
      <3>9. /\ send[r].stage = "MAIL" => BeforeRcpt(smtp', r)
            /\ send[r].stage = "RCPT" => BeforeData(smtp', r)
            /\ send[r].stage = "DATA" => BeforeBody(smtp', r)
        <4>1. CASE send[r].stage = "MAIL"
          <5>1. InMail(smtp, r)
            BY <1>1, <4>1 DEF UseInv
          <5>2. BeforeRcpt(smtp', r)
            BY <1>1, <2>1, <4>1, <5>1, MailRead
          <5> QED BY <4>1, <5>2
        <4>2. CASE send[r].stage = "RCPT"
          <5>1. InRcpt(smtp, r)
            BY <1>1, <4>2 DEF UseInv
          <5>2. BeforeData(smtp', r)
            BY <1>1, <2>1, <4>2, <5>1, RcptRead
          <5> QED BY <4>2, <5>2
        <4>3. CASE send[r].stage = "DATA"
          <5>1. InData(smtp, r)
            BY <1>1, <4>3 DEF UseInv
          <5>2. BeforeBody(smtp', r)
            BY <1>1, <2>1, <4>3, <5>1, DataRead
          <5> QED BY <4>3, <5>2
        <4> QED BY <2>5, <4>1, <4>2, <4>3
      <3>10. UseInv(r)'
        BY <1>1, <2>1, <2>5, <3>1, <3>2, <3>5, <3>6, <3>9 DEF UseInv, InPool
      <3>11. poolOwner' \in SendRequest \cup {Unheld}
        BY <1>1, <3>1
      <3> QED BY <1>1, <2>2, <2>3, <3>5, <3>8, <3>10, <3>11, InsideKeeps DEF InPool
    <2> QED BY <1>1, <2>4, <2>5
  <1> QED BY <1>2, <1>3

\* A request that is dropped leaves the connection in the pool as it is, or with
\* part of a message.
LEMMA AbortSendKeeps ==
  ASSUME SubmissionInv, NEW r \in SendRequest, AbortSend(r)
  PROVE  SubmissionInv'
  <1>1. /\ SendInv(r) /\ UseInv(r) /\ LeftPooled(smtp) /\ smtp \in Connection
        /\ send \in [SendRequest -> SendState] /\ pool' \in BOOLEAN
        /\ UNCHANGED <<transport, drafts, sendOps, pool, graphDraft, delivered, userRemoved, edits>>
        /\ sendFaults' \in 0..MaxSendFaults
        /\ poolOwner' = (IF poolOwner = r THEN Unheld ELSE poolOwner)
        /\ poolOwner' \in SendRequest \cup {Unheld}
        /\ sendOps' \in [SendRequest -> {"none", "pending", "succeeded", "failed"}]
        /\ graphDraft' \in [SendRequest -> {"none", "empty", "written", "sent"}]
    BY SendFaultTyped DEF AbortSend, SubmissionInv, SendTypeOK, PoolInv
  <1>2. PICK s \in SendState : send' = [send EXCEPT ![r] = s] /\ s.pc = "aborted"
    BY PlainStates DEF AbortSend
  <1>3. send'[r] = s
    BY <1>1, <1>2
  <1>4. \/ smtp' = smtp
        \/ /\ send[r].pc = "write" /\ send[r].stage = "BODY" /\ smtp.alive
           /\ smtp' = [smtp EXCEPT !.text = Append(smtp.text, "part")]
    BY DEF AbortSend
  <1>5. ASSUME smtp' = smtp
        PROVE  smtp' \in Connection /\ PoolInv' /\ DotInv'
    <2>1. smtp' \in Connection /\ PoolInv'
      BY <1>1, <1>5 DEF SubmissionInv, PoolInv
    <2>2. DotInv'
      <3> SUFFICES ASSUME smtp.alive, smtp.pending
                   PROVE  send'[smtp.env].pc \in {"flush", "aborted"} /\ ~Has(smtp.env)
        BY <1>1, <1>5 DEF DotInv, Has
      <3>1. smtp.env \in SendRequest /\ send[smtp.env].pc \in {"flush", "aborted"} /\ ~Has(smtp.env)
        BY DEF SubmissionInv, PoolInv, DotInv, LeftPooled
      <3> QED BY <1>1, <1>2, <3>1
    <2> QED BY <2>1, <2>2
  <1>6. ASSUME send[r].pc = "write", send[r].stage = "BODY", smtp.alive,
               smtp' = [smtp EXCEPT !.text = Append(smtp.text, "part")]
        PROVE  smtp' \in Connection /\ PoolInv' /\ DotInv'
    <2>1. BeforeBody(smtp, r) /\ pool
      BY <1>1, <1>6 DEF UseInv, InPool
    <2>2. smtp' \in Connection /\ LeftPooled(smtp') /\ ~smtp'.pending
      BY <1>1, <1>6, <2>1, PartLeft
    <2> QED BY <1>1, <2>1, <2>2 DEF PoolInv, DotInv
  <1>7. smtp' \in Connection /\ PoolInv' /\ DotInv'
    BY <1>4, <1>5, <1>6
  <1>8. SendInv(r)' /\ UseInv(r)'
    BY <1>1, <1>2, <1>3 DEF SendInv, UseInv, Unsent, InPool, Has
  <1>9. DeliveredInv' /\ \A q \in SendRequest : Has(q)' <=> Has(q)
    BY <1>1 DEF SubmissionInv, DeliveredInv, Has
  <1>10. \A q \in SendRequest : q # r /\ send[q].pc \in InPool => UNCHANGED <<pool, poolOwner, smtp>>
    <2> SUFFICES ASSUME NEW q \in SendRequest, q # r, send[q].pc \in InPool
                 PROVE  UNCHANGED <<pool, poolOwner, smtp>>
      OBVIOUS
    <2>1. poolOwner = q
      BY DEF SubmissionInv, UseInv
    <2>2. send[r].pc \notin InPool
      BY <1>1, <2>1 DEF UseInv
    <2> QED BY <1>1, <1>4, <2>1, <2>2 DEF InPool
  <1>11. /\ \A q \in SendRequest : q # r => sendOps'[q] = sendOps[q]
         /\ \A q \in SendRequest : q # r => graphDraft'[q] = graphDraft[q]
    BY <1>1
  <1> QED BY <1>1, <1>2, <1>7, <1>8, <1>9, <1>10, <1>11, StepKeeps

LEMMA CloseSmtpKeeps ==
  ASSUME SubmissionInv, CloseSmtp
  PROVE  SubmissionInv'
  <1>1. /\ UNCHANGED <<transport, drafts, sendOps, send, pool, poolOwner, graphDraft, delivered,
                       userRemoved, edits>>
        /\ pool /\ LeftPooled(smtp) /\ smtp \in Connection /\ sendFaults' \in 0..MaxSendFaults
    BY SendFaultTyped DEF CloseSmtp, SubmissionInv, SendTypeOK, PoolInv
  <1>2. PICK left \in {smtp.replies, <<>>} :
          smtp' = [smtp EXCEPT !.alive = FALSE, !.phase = "idle", !.text = <<>>, !.env = NoDraft,
                               !.replies = left]
    BY DEF CloseSmtp
  <1>3. smtp' \in Connection /\ LeftPooled(smtp') /\ ~smtp'.alive /\ smtp'.replies = left
    BY <1>1, <1>2, ClosedLeft
  <1>4. ASSUME NEW q \in SendRequest PROVE UseInv(q)' /\ SendInv(q)'
    <2>1. UseInv(q) /\ SendInv(q) /\ (Has(q)' <=> Has(q))
      BY <1>1 DEF SubmissionInv, Has
    <2>2. SendInv(q)'
      BY <1>1, <2>1 DEF SendInv, Unsent
    <2>3. /\ InMail(smtp', q) /\ BeforeRcpt(smtp', q) /\ InRcpt(smtp', q)
          /\ BeforeData(smtp', q) /\ InData(smtp', q)
          /\ BeforeBody(smtp, q) => BeforeBody(smtp', q)
          /\ BeforeDot(smtp, q) => BeforeDot(smtp', q)
      BY <1>3 DEF InMail, BeforeRcpt, InRcpt, BeforeData, InData, BeforeBody, BeforeDot
    <2>4. /\ smtp.replies \in {<<>>, <<550>>} => smtp'.replies \in {<<>>, <<550>>}
          /\ smtp.replies = <<250>> => smtp'.replies \in {<<>>, <<250>>}
      <3>1. CASE left = smtp.replies
        BY <1>3, <3>1
      <3>2. CASE left = <<>>
        BY <1>3, <3>2
      <3> QED BY <3>1, <3>2
    <2>5. UseInv(q)'
      BY <1>1, <2>1, <2>3, <2>4 DEF UseInv
    <2> QED BY <2>2, <2>5
  <1>5. PoolInv' /\ DotInv'
    BY <1>1, <1>3 DEF PoolInv, DotInv
  <1>6. DeliveredInv' /\ DraftInv'
    BY <1>1 DEF SubmissionInv, DeliveredInv, DraftInv, Has
  <1>7. SendTypeOK'
    BY <1>1, <1>3 DEF SubmissionInv, SendTypeOK
  <1> QED BY <1>4, <1>5, <1>6, <1>7 DEF SubmissionInv

LEMMA CrashSendsKeeps ==
  ASSUME SubmissionInv, CrashSends
  PROVE  SubmissionInv'
  <1>1. /\ UNCHANGED <<transport, drafts, sendOps, graphDraft, delivered, userRemoved, edits>>
        /\ pool' = FALSE /\ poolOwner' = Unheld /\ smtp' = Quiet
        /\ sendFaults' \in 0..MaxSendFaults
        /\ send \in [SendRequest -> SendState]
    BY SendFaultTyped DEF CrashSends, SubmissionInv, SendTypeOK
  <1>2. [pc |-> "aborted"] \in SendState /\ [pc |-> "aborted"].pc = "aborted"
    BY PlainStates
  <1>3. /\ send' \in [SendRequest -> SendState]
        /\ \A q \in SendRequest :
             \/ send[q].pc \in {"idle", "answered"} /\ send'[q] = send[q]
             \/ send'[q].pc = "aborted"
    BY <1>1, <1>2 DEF CrashSends
  <1>4. ASSUME NEW q \in SendRequest PROVE UseInv(q)' /\ SendInv(q)'
    <2>1. UseInv(q) /\ SendInv(q) /\ (Has(q)' <=> Has(q))
      BY <1>1 DEF SubmissionInv, Has
    <2> QED BY <1>1, <1>3, <2>1 DEF SendInv, UseInv, Unsent, InPool
  <1>5. PoolInv' /\ DotInv' /\ smtp' \in Connection
    BY <1>1, QuietLeft DEF PoolInv, DotInv
  <1>6. DeliveredInv' /\ DraftInv'
    BY <1>1 DEF SubmissionInv, DeliveredInv, DraftInv, Has
  <1>7. SendTypeOK'
    BY <1>1, <1>3, <1>5 DEF SubmissionInv, SendTypeOK
  <1> QED BY <1>4, <1>5, <1>6, <1>7 DEF SubmissionInv

LEMMA EditDraftKeeps ==
  ASSUME SubmissionInv, NEW d \in Draft, EditDraft(d)
  PROVE  SubmissionInv'
  <1>1. /\ UNCHANGED <<transport, sendOps, send, pool, poolOwner, smtp, graphDraft, delivered,
                       sendFaults>>
        /\ edits' \in 0..MaxEdits
        /\ drafts' \subseteq Draft /\ userRemoved' \subseteq Draft
        /\ \A x \in Draft \ (drafts' \cup userRemoved') : x \notin drafts \cup userRemoved
    BY SendAssumption DEF EditDraft, SubmissionInv, SendTypeOK
  <1>2. ASSUME NEW q \in SendRequest PROVE UseInv(q)' /\ SendInv(q)'
    <2>1. UseInv(q) /\ SendInv(q) /\ (Has(q)' <=> Has(q))
      BY <1>1 DEF SubmissionInv, Has
    <2> QED BY <1>1, <2>1, OtherSendsKeep
  <1>3. PoolInv'
    BY <1>1 DEF SubmissionInv, PoolInv
  <1>4. DotInv' /\ DeliveredInv' /\ DraftInv'
    BY <1>1 DEF SubmissionInv, DotInv, DeliveredInv, DraftInv, Has
  <1>5. SendTypeOK'
    BY <1>1 DEF SubmissionInv, SendTypeOK
  <1> QED BY <1>2, <1>3, <1>4, <1>5 DEF SubmissionInv

-----------------------------------------------------------------------------
(* The theorems about the submission                                       *)

LEMMA SubmissionInit == SendInit => SubmissionInv
  <1> SUFFICES ASSUME SendInit PROVE SubmissionInv
    OBVIOUS
  <1>1. [pc |-> "idle"] \in SendState /\ [pc |-> "idle"].pc = "idle"
    BY DEF SendState
  <1>2. delivered = <<>> /\ Len(<<>>) = 0 /\ <<>> \in Seq(Delivery)
        /\ <<>> \in Seq([env : SendRequest, text : Seq(SendRequest \cup {"part", "line"})])
    BY DEF SendInit
  <1>3. \A r : ~Has(r)
    BY <1>2 DEF Has
  <1>4. DeliveredInv
    BY <1>2 DEF DeliveredInv
  <1>5. \A r \in SendRequest : UseInv(r) /\ SendInv(r)
    BY <1>1, <1>3 DEF SendInit, UseInv, SendInv, InPool
  <1>6. PoolInv /\ DotInv /\ DraftInv
    BY QuietLeft DEF SendInit, PoolInv, DotInv, DraftInv
  <1>7. SendTypeOK
    <2>1. send \in [SendRequest -> SendState]
      BY <1>1 DEF SendInit
    <2>2. /\ sendOps \in [SendRequest -> {"none", "pending", "succeeded", "failed"}]
          /\ graphDraft \in [SendRequest -> {"none", "empty", "written", "sent"}]
      BY DEF SendInit
    <2>3. smtp \in Connection /\ poolOwner = Unheld /\ pool \in BOOLEAN /\ transport \in Transport
      BY QuietLeft DEF SendInit
    <2>4. edits \in 0..MaxEdits /\ sendFaults \in 0..MaxSendFaults
          /\ drafts \subseteq Draft /\ userRemoved \subseteq Draft
      BY SendAssumption DEF SendInit
    <2> QED BY <1>2, <2>1, <2>2, <2>3, <2>4 DEF SendTypeOK
  <1> QED BY <1>4, <1>5, <1>6, <1>7 DEF SubmissionInv

LEMMA SubmissionNext == SubmissionInv /\ [SendNext]_sendVars => SubmissionInv'
  <1> SUFFICES ASSUME SubmissionInv, [SendNext]_sendVars PROVE SubmissionInv'
    OBVIOUS
  <1>1. ASSUME NEW r \in SendRequest, SendStep(r) PROVE SubmissionInv'
    BY <1>1, FetchParentKeeps, FinishOperationKeeps, RemoveDraftKeeps, SubmitLettreKeeps,
       TakePoolKeeps, ConnectKeeps, WriteLineKeeps, WriteBodyKeeps, FlushDotKeeps, ReadReplyKeeps,
       LoseReplyKeeps, CreateDraftKeeps, UpdateDraftKeeps, SubmitDraftKeeps DEF SendStep
  <1>2. CASE UNCHANGED sendVars
    <2>1. UNCHANGED <<transport, drafts, sendOps, send, pool, poolOwner, smtp, graphDraft,
                      delivered, userRemoved, edits, sendFaults>>
      BY <1>2 DEF sendVars
    <2>2. ASSUME NEW q \in SendRequest PROVE UseInv(q)' /\ SendInv(q)'
      <3>1. UseInv(q) /\ SendInv(q) /\ (Has(q)' <=> Has(q))
        BY <2>1 DEF SubmissionInv, Has
      <3> QED BY <2>1, <3>1, OtherSendsKeep
    <2>3. PoolInv' /\ SendTypeOK'
      BY <2>1 DEF SubmissionInv, PoolInv, SendTypeOK
    <2>4. DotInv' /\ DeliveredInv' /\ DraftInv'
      BY <2>1 DEF SubmissionInv, DotInv, DeliveredInv, DraftInv, Has
    <2> QED BY <2>2, <2>3, <2>4 DEF SubmissionInv
  <1> QED BY <1>1, <1>2, QueueOutgoingKeeps, ConnectRefusedKeeps, FallSilentKeeps, AbortSendKeeps,
             CloseSmtpKeeps, CrashSendsKeeps, EditDraftKeeps DEF SendNext

LEMMA SubmissionInvariant == SendSpec => []SubmissionInv
  BY SubmissionInit, SubmissionNext, PTL DEF SendSpec

LEMMA HasDeliveries == \A r : Has(r) <=> DeliveriesOf(r) # {}
  BY DEF Has, DeliveriesOf

\* Every variable of the submission keeps its type, in particular the requests are
\* in the steps mail.send has and the connection in a phase of a transaction.
THEOREM SubmissionTypeCorrect == SendSpec => []SendTypeOK
  <1>1. SubmissionInv => SendTypeOK
    BY DEF SubmissionInv
  <1> QED BY <1>1, SubmissionInvariant, PTL

\* A mail.send delivers its message once at most, however often its connection
\* breaks, its client leaves or a later request flushes what it left.
THEOREM SubmissionDeliveredOnce == SendSpec => []DeliveredOnce
  <1>1. SubmissionInv => DeliveredOnce
    <2> SUFFICES ASSUME SubmissionInv, NEW r \in SendRequest
                 PROVE  Cardinality(DeliveriesOf(r)) <= 1
      BY DEF DeliveredOnce
    <2>1. \A i, j \in DeliveriesOf(r) : i = j
      BY DEF SubmissionInv, DeliveredInv, DeliveriesOf
    <2>2. CASE DeliveriesOf(r) = {}
      BY <2>2, FS_EmptySet
    <2>3. CASE DeliveriesOf(r) # {}
      <3>1. PICK i : i \in DeliveriesOf(r)
        BY <2>3
      <3>2. DeliveriesOf(r) = {i}
        BY <2>1, <3>1
      <3>3. Cardinality({i}) = 1
        BY FS_Singleton
      <3> QED BY <3>2, <3>3
    <2> QED BY <2>2, <2>3
  <1> QED BY <1>1, SubmissionInvariant, PTL

\* What is delivered is one message under its own envelope, whatever earlier
\* requests left written or unread on the connection.
THEOREM SubmissionNeverMixed == SendSpec => []NeverMixed
  <1>1. SubmissionInv => NeverMixed
    BY DEF SubmissionInv, DeliveredInv, NeverMixed
  <1> QED BY <1>1, SubmissionInvariant, PTL

\* An operation that succeeded, a draft that was removed after sending and a copy
\* marked as sent at Graph each stand for a message that was delivered.
THEOREM SubmissionSentMeansDelivered == SendSpec => []SentMeansDelivered
  <1>1. SubmissionInv => SentMeansDelivered
    BY HasDeliveries DEF SubmissionInv, SendInv, DraftInv, SentMeansDelivered
  <1> QED BY <1>1, SubmissionInvariant, PTL

-----------------------------------------------------------------------------
(* What is taken is given back, and what is answered is settled            *)

\* The pool's mutex is held only by a request that connects, is inside its
\* transaction, or waits without a deadline for the connection it opens.
PoolUsed == poolOwner # Unheld => send[poolOwner].pc \in InPool \cup {"hung"}

\* The row of an operation that is not settled, or failed, is explained by its
\* request: it is under way, was dropped, or there was no provider for it.
RowsExplained ==
    \A r \in SendRequest :
        /\ send[r].pc = "answered" => (send[r].ok <=> sendOps[r] = "succeeded")
        /\ sendOps[r] = "pending" =>
              \/ send[r].pc \in Waiting \cup {"sent", "failed", "aborted"}
              \/ send[r].pc = "answered" /\ transport = "missing"
        /\ sendOps[r] = "failed" => send[r].pc = "answered"

RowAgrees(r) ==
    /\ send[r].pc = "idle" => sendOps[r] = "none"
    /\ send[r].pc \in Waiting \cup {"sent", "failed"} => sendOps[r] = "pending"
    /\ send[r].pc \in Waiting \cup {"sent", "failed", "settled"} => transport # "missing"
    /\ send[r].pc = "settled" => sendOps[r] = "succeeded"
    /\ send[r].pc = "aborted" => sendOps[r] \in {"pending", "succeeded"}
    /\ send[r].pc = "answered" =>
          sendOps[r] = IF send[r].ok THEN "succeeded"
                       ELSE IF transport = "missing" THEN "pending" ELSE "failed"

RestInv == PoolUsed /\ \A r \in SendRequest : RowAgrees(r)

\* One request moves: its row still agrees, and it has the mutex only where it may.
LEMMA MoveRests ==
  ASSUME SubmissionInv, RestInv, NEW r \in SendRequest, transport' = transport,
         \A q \in SendRequest : q # r => send'[q] = send[q] /\ sendOps'[q] = sendOps[q],
         RowAgrees(r)',
         \/ poolOwner' = Unheld
         \/ poolOwner' = poolOwner /\ poolOwner # r
         \/ poolOwner' = r /\ send'[r].pc \in InPool \cup {"hung"}
  PROVE  RestInv'
  <1>1. \A q \in SendRequest : RowAgrees(q)'
    <2> SUFFICES ASSUME NEW q \in SendRequest, q # r PROVE RowAgrees(q)'
      OBVIOUS
    <2> QED BY DEF RestInv, RowAgrees
  <1>2. PoolUsed'
    <2>1. poolOwner \in SendRequest \cup {Unheld}
      BY DEF SubmissionInv, SendTypeOK
    <2> QED BY <2>1 DEF RestInv, PoolUsed
  <1> QED BY <1>1, <1>2 DEF RestInv

\* A request that is under way, and is so after its step, or over.
LEMMA RowKept ==
  ASSUME NEW r \in SendRequest, RowAgrees(r), send[r].pc \in Waiting,
         send'[r].pc \in Waiting \cup {"sent", "failed", "aborted"},
         UNCHANGED <<transport, sendOps>>
  PROVE  RowAgrees(r)'
  BY DEF RowAgrees, Waiting

\* Whoever is outside these has no mutex.
LEMMA Outside ==
  ASSUME RestInv, NEW r \in SendRequest, send[r].pc \notin InPool \cup {"hung"}
  PROVE  poolOwner # r
  BY SendAssumption DEF RestInv, PoolUsed

LEMMA OneSends ==
  ASSUME SubmissionInv, NEW r \in SendRequest, NEW t, send' = [send EXCEPT ![r] = t]
  PROVE  send'[r] = t /\ \A q \in SendRequest : q # r => send'[q] = send[q]
  BY DEF SubmissionInv, SendTypeOK

LEMMA QueueRests ==
  ASSUME SubmissionInv, RestInv, NEW r \in SendRequest, QueueOutgoing(r)
  PROVE  RestInv'
  <1>1. /\ send[r].pc = "idle" /\ sendOps' = [sendOps EXCEPT ![r] = "pending"]
        /\ UNCHANGED <<transport, poolOwner>>
    BY DEF QueueOutgoing
  <1>2. /\ sendOps'[r] = "pending"
        /\ \A q \in SendRequest : q # r => sendOps'[q] = sendOps[q]
    BY <1>1 DEF SubmissionInv, SendTypeOK
  <1>3. poolOwner # r
    BY <1>1, Outside DEF InPool
  <1>4. /\ \A q \in SendRequest : q # r => send'[q] = send[q]
        /\ send'[r] = IF transport = "missing" THEN [pc |-> "answered", ok |-> FALSE] ELSE FirstStep(r)
    BY OneSends DEF QueueOutgoing
  <1>5. RowAgrees(r)'
    <2>1. CASE transport = "missing"
      <3>1. send'[r].pc = "answered" /\ ~send'[r].ok
        BY <1>4, <2>1
      <3> QED BY <1>1, <1>2, <2>1, <3>1 DEF RowAgrees, Waiting
    <2>2. CASE transport # "missing"
      <3>1. FirstStep(r) \in {At("create"), At("parent"), At("lettre"), At("lock")}
        BY <2>2 DEF FirstStep, SubmissionInv, SendTypeOK, Transport
      <3>2. send'[r].pc \in Waiting
        BY <1>4, <2>2, <3>1, AtState DEF Waiting
      <3> QED BY <1>1, <1>2, <2>2, <3>2 DEF RowAgrees, Waiting
    <2> QED BY <2>1, <2>2
  <1> QED BY <1>1, <1>2, <1>3, <1>4, <1>5, MoveRests

\* Steps outside the pool that settle nothing.
LEMMA OutsideRests ==
  ASSUME SubmissionInv, RestInv, NEW r \in SendRequest,
         FetchParent(r) \/ SubmitLettre(r) \/ CreateDraft(r) \/ UpdateDraft(r) \/ SubmitDraft(r)
  PROVE  RestInv'
  <1>1. /\ send[r].pc \in {"parent", "lettre", "create", "update", "submit"}
        /\ UNCHANGED <<transport, sendOps, poolOwner>>
    BY DEF FetchParent, SubmitLettre, CreateDraft, UpdateDraft, SubmitDraft
  <1>2. poolOwner # r /\ send[r].pc \in Waiting
    BY <1>1, Outside DEF InPool, Waiting
  <1>3. \E t \in {At("lettre"), At("lock"), At("update"), At("submit"),
                  [pc |-> "failed"], [pc |-> "sent"]} : send' = [send EXCEPT ![r] = t]
    BY DEF FetchParent, SubmitLettre, CreateDraft, UpdateDraft, SubmitDraft, GraphCall
  <1>4. PICK t \in {At("lettre"), At("lock"), At("update"), At("submit"),
                    [pc |-> "failed"], [pc |-> "sent"]} : send' = [send EXCEPT ![r] = t]
    BY <1>3
  <1>5. t.pc \in Waiting \cup {"sent", "failed"}
    BY <1>4, AtState DEF Waiting
  <1>6. send'[r] = t /\ \A q \in SendRequest : q # r => send'[q] = send[q]
    BY <1>4, OneSends
  <1>7. RowAgrees(r)'
    BY <1>1, <1>2, <1>5, <1>6, RowKept DEF RestInv
  <1> QED BY <1>1, <1>2, <1>6, <1>7, MoveRests

LEMMA SettleRests ==
  ASSUME SubmissionInv, RestInv, NEW r \in SendRequest, FinishOperation(r) \/ RemoveDraft(r)
  PROVE  RestInv'
  <1>1. /\ send[r].pc \in {"sent", "failed", "settled"} /\ UNCHANGED <<transport, poolOwner>>
    BY DEF FinishOperation, RemoveDraft
  <1>2. poolOwner # r
    BY <1>1, Outside DEF InPool
  <1>3. RowAgrees(r)
    BY DEF RestInv
  <1>4. CASE FinishOperation(r)
    <2>1. /\ sendOps'[r] = IF send[r].pc = "sent" THEN "succeeded" ELSE "failed"
          /\ \A q \in SendRequest : q # r => sendOps'[q] = sendOps[q]
      BY <1>4 DEF FinishOperation, SubmissionInv, SendTypeOK
    <2>2. /\ send'[r] = IF send[r].pc = "sent" THEN [pc |-> "settled"]
                        ELSE [pc |-> "answered", ok |-> FALSE]
          /\ \A q \in SendRequest : q # r => send'[q] = send[q]
      BY <1>4, OneSends DEF FinishOperation
    <2>3. /\ send[r].pc = "sent" => send'[r].pc = "settled"
          /\ send[r].pc # "sent" => send'[r].pc = "answered" /\ ~send'[r].ok
      BY <2>2
    <2>4. transport # "missing" /\ send[r].pc \in {"sent", "failed"}
      BY <1>3, <1>4 DEF RowAgrees, FinishOperation
    <2>5. RowAgrees(r)'
      BY <1>1, <2>1, <2>3, <2>4 DEF RowAgrees, Waiting
    <2> QED BY <1>1, <1>2, <2>1, <2>2, <2>5, MoveRests
  <1>5. CASE RemoveDraft(r)
    <2>1. sendOps' = sendOps /\ send[r].pc = "settled"
      BY <1>5 DEF RemoveDraft
    <2>2. /\ send'[r] = [pc |-> "answered", ok |-> TRUE]
          /\ \A q \in SendRequest : q # r => send'[q] = send[q]
      BY <1>5, OneSends DEF RemoveDraft
    <2>3. send'[r].pc = "answered" /\ send'[r].ok
      BY <2>2
    <2>4. RowAgrees(r)'
      BY <1>1, <1>3, <2>1, <2>3 DEF RowAgrees, Waiting
    <2> QED BY <1>1, <1>2, <2>1, <2>2, <2>4, MoveRests
  <1> QED BY <1>4, <1>5


\* A request takes the mutex, has a connection, or is refused one and lets go of it.
LEMMA TakePoolRests ==
  ASSUME SubmissionInv, RestInv, NEW r \in SendRequest,
         TakePool(r) \/ Connect(r) \/ ConnectRefused(r)
  PROVE  RestInv'
  <1>1. send[r].pc \in {"lock", "connect"} /\ UNCHANGED <<transport, sendOps>>
    BY DEF TakePool, Connect, ConnectRefused
  <1>2. send[r].pc \in Waiting /\ RowAgrees(r) /\ send[r] \in SendState
    BY <1>1 DEF Waiting, RestInv, SubmissionInv, SendTypeOK
  <1>3. CASE TakePool(r) \/ Connect(r)
    <2>1. send[r] \in Underway
      BY <1>2, UnderwayIs
    <2>2. PICK p \in {"write", "connect"}, used \in BOOLEAN :
            send' = [send EXCEPT ![r].pc = p, ![r].stage = "MAIL", ![r].reused = used]
      BY <1>3 DEF TakePool, Connect, SubmissionInv, SendTypeOK
    <2>3. /\ send'[r] = [[[send[r] EXCEPT !.pc = p] EXCEPT !.stage = "MAIL"]
                            EXCEPT !.reused = used]
          /\ \A q \in SendRequest : q # r => send'[q] = send[q]
      BY <2>2 DEF SubmissionInv, SendTypeOK
    <2>4. send'[r].pc \in {"write", "connect"}
      BY <2>1, <2>3 DEF Underway
    <2>5. RowAgrees(r)'
      BY <1>1, <1>2, <2>4, RowKept DEF Waiting
    <2>6. poolOwner' = r
      BY <1>3 DEF TakePool, Connect, SubmissionInv, UseInv, InPool
    <2> QED BY <1>1, <2>3, <2>4, <2>5, <2>6, MoveRests DEF InPool
  <1>4. CASE ConnectRefused(r)
    <2>1. /\ send'[r] = [pc |-> "failed"]
          /\ \A q \in SendRequest : q # r => send'[q] = send[q]
      BY <1>4, OneSends DEF ConnectRefused
    <2>2. send'[r].pc = "failed" /\ poolOwner' = Unheld
      BY <1>4, <2>1 DEF ConnectRefused
    <2>3. RowAgrees(r)'
      BY <1>1, <1>2, <2>2, RowKept
    <2> QED BY <1>1, <2>1, <2>2, <2>3, MoveRests
  <1> QED BY <1>3, <1>4

\* Whoever waits without a deadline keeps the mutex it has.
LEMMA SilentRests ==
  ASSUME SubmissionInv, RestInv, NEW r \in SendRequest, FallSilent(r)
  PROVE  RestInv'
  <1>1. /\ send[r].pc \in Waiting /\ RowAgrees(r) /\ send[r] \in SendState
        /\ UNCHANGED <<transport, sendOps, poolOwner>>
    BY DEF FallSilent, Waiting, RestInv, SubmissionInv, SendTypeOK
  <1>2. send[r] \in Underway
    BY <1>1, UnderwayIs
  <1>3. /\ send'[r] = [send[r] EXCEPT !.pc = "hung"]
        /\ \A q \in SendRequest : q # r => send'[q] = send[q]
    BY DEF FallSilent, SubmissionInv, SendTypeOK
  <1>4. send'[r].pc = "hung"
    BY <1>2, <1>3 DEF Underway
  <1>5. RowAgrees(r)'
    BY <1>1, <1>4, RowKept DEF Waiting
  <1> QED BY <1>1, <1>3, <1>4, <1>5, MoveRests

\* Inside a transaction the mutex is kept until the answer, or the error.
LEMMA InsideRests ==
  ASSUME SubmissionInv, RestInv, NEW r \in SendRequest,
         WriteLine(r) \/ WriteBody(r) \/ FlushDot(r) \/ ReadReply(r) \/ LoseReply(r)
  PROVE  RestInv'
  <1>1. /\ send[r].pc \in {"write", "flush", "read"} /\ send[r].pc \in InPool
        /\ UNCHANGED <<transport, sendOps>>
    BY DEF WriteLine, WriteBody, FlushDot, ReadReply, LoseReply, InPool
  <1>2. /\ send[r].pc \in Waiting /\ RowAgrees(r) /\ send[r] \in SendState /\ poolOwner = r
        /\ send \in [SendRequest -> SendState]
    BY <1>1 DEF InPool, Waiting, RestInv, SubmissionInv, SendTypeOK, UseInv
  <1>3. send[r] \in Underway
    BY <1>2, UnderwayIs
  <1>4. ASSUME NEW p \in InPool, poolOwner' = poolOwner,
               \/ send' = [send EXCEPT ![r].pc = p]
               \/ \E stage : send' = [send EXCEPT ![r].pc = p, ![r].stage = stage]
        PROVE  RestInv'
    <2>1. \A q \in SendRequest : q # r => send'[q] = send[q]
      BY <1>2, <1>4
    <2>2. send'[r].pc = p
      <3>1. CASE send' = [send EXCEPT ![r].pc = p]
        <4>1. send'[r] = [send[r] EXCEPT !.pc = p]
          BY <1>2, <3>1
        <4> QED BY <1>3, <4>1 DEF Underway
      <3>2. CASE \E stage : send' = [send EXCEPT ![r].pc = p, ![r].stage = stage]
        <4>1. PICK stage : send' = [send EXCEPT ![r].pc = p, ![r].stage = stage]
          BY <3>2
        <4>2. send'[r] = [[send[r] EXCEPT !.pc = p] EXCEPT !.stage = stage]
          BY <1>2, <4>1
        <4> QED BY <1>3, <4>2 DEF Underway
      <3> QED BY <1>4, <3>1, <3>2
    <2>3. RowAgrees(r)'
      BY <1>1, <1>2, <2>2, RowKept DEF InPool, Waiting
    <2> QED BY <1>1, <1>2, <1>4, <2>1, <2>2, <2>3, MoveRests
  <1>5. CASE WriteLine(r) \/ WriteBody(r) \/ FlushDot(r)
    <2>1. poolOwner' = poolOwner /\ "read" \in InPool /\ "flush" \in InPool
      BY <1>5 DEF WriteLine, WriteBody, FlushDot, InPool
    <2> QED BY <1>4, <1>5, <2>1 DEF WriteLine, WriteBody, FlushDot
  <1>6. ASSUME NEW t, send' = [send EXCEPT ![r] = t], t.pc \in {"sent", "failed"},
               poolOwner' = Unheld
        PROVE  RestInv'
    <2>1. send'[r] = t /\ \A q \in SendRequest : q # r => send'[q] = send[q]
      BY <1>6, OneSends
    <2>2. RowAgrees(r)'
      BY <1>1, <1>2, <1>6, <2>1, RowKept
    <2> QED BY <1>1, <1>6, <2>1, <2>2, MoveRests
  <1>7. ASSUME DropPool(r)
        PROVE  RestInv'
    <2>1. CASE send' = [send EXCEPT ![r] = [pc |-> "failed"]] /\ poolOwner' = Unheld
      BY <1>6, <2>1, PlainStates
    <2>2. CASE send' = [send EXCEPT ![r].pc = "connect", ![r].attempt = 1] /\ poolOwner' = poolOwner
      <3>1. /\ send'[r] = [[send[r] EXCEPT !.pc = "connect"] EXCEPT !.attempt = 1]
            /\ \A q \in SendRequest : q # r => send'[q] = send[q]
        BY <1>2, <2>2
      <3>2. send'[r].pc = "connect" /\ send'[r].pc \in InPool
        BY <1>3, <3>1 DEF Underway, InPool
      <3>3. RowAgrees(r)'
        BY <1>1, <1>2, <3>2, RowKept DEF Waiting
      <3> QED BY <1>1, <1>2, <2>2, <3>1, <3>2, <3>3, MoveRests
    <2> QED BY <1>7, <2>1, <2>2 DEF DropPool
  <1>8. CASE ReadReply(r)
    <2>1. CASE DropPool(r)
      BY <1>7, <2>1
    <2>2. CASE send' = [send EXCEPT ![r] = [pc |-> "sent"]] /\ poolOwner' = Unheld
      BY <1>6, <2>2, PlainStates
    <2>3. CASE /\ send' = [send EXCEPT ![r].pc = "write", ![r].stage = NextStage(@)]
               /\ poolOwner' = poolOwner
      <3>1. send' = [send EXCEPT ![r].pc = "write", ![r].stage = NextStage(send[r].stage)]
        BY <1>2, <1>3, <2>3 DEF Underway
      <3> QED BY <1>4, <2>3, <3>1 DEF InPool
    <2> QED BY <1>8, <2>1, <2>2, <2>3 DEF ReadReply
  <1>9. CASE LoseReply(r)
    BY <1>7, <1>9 DEF LoseReply
  <1> QED BY <1>5, <1>8, <1>9

LEMMA DroppedRests ==
  ASSUME SubmissionInv, RestInv, CrashSends \/ \E r \in SendRequest : AbortSend(r)
  PROVE  RestInv'
  <1>1. ASSUME NEW q \in SendRequest, UNCHANGED <<transport, sendOps>>,
               \/ send'[q] = send[q]
               \/ send'[q] = [pc |-> "aborted"] /\ send[q].pc \notin {"idle", "answered"}
        PROVE  RowAgrees(q)'
    <2>1. RowAgrees(q) /\ send[q] \in SendState
      BY DEF RestInv, SubmissionInv, SendTypeOK
    <2>2. CASE send'[q] = send[q]
      BY <1>1, <2>1, <2>2 DEF RowAgrees
    <2>3. CASE send'[q] = [pc |-> "aborted"] /\ send[q].pc \notin {"idle", "answered"}
      <3>1. send[q].pc \in Waiting \cup {"sent", "failed", "settled", "aborted"}
        BY <2>1, <2>3 DEF SendState
      <3>2. sendOps[q] \in {"pending", "succeeded"} /\ send'[q].pc = "aborted"
        BY <2>1, <2>3, <3>1 DEF RowAgrees
      <3> QED BY <1>1, <3>2 DEF RowAgrees, Waiting
    <2> QED BY <1>1, <2>2, <2>3
  <1>2. CASE CrashSends
    <2>1. poolOwner' = Unheld /\ UNCHANGED <<transport, sendOps>>
      BY <1>2 DEF CrashSends
    <2>2. \A q \in SendRequest :
            send'[q] = IF send[q].pc \in {"idle", "answered"} THEN send[q] ELSE [pc |-> "aborted"]
      BY <1>2 DEF CrashSends
    <2> QED BY <1>1, <2>1, <2>2 DEF RestInv, PoolUsed
  <1>3. ASSUME NEW r \in SendRequest, AbortSend(r)
        PROVE  RestInv'
    <2>1. /\ send[r].pc \in Waiting \cup {"sent", "failed", "settled"}
          /\ poolOwner' = (IF poolOwner = r THEN Unheld ELSE poolOwner)
          /\ UNCHANGED <<transport, sendOps>>
      BY <1>3 DEF AbortSend
    <2>2. send'[r] = [pc |-> "aborted"] /\ \A q \in SendRequest : q # r => send'[q] = send[q]
      BY <1>3, OneSends DEF AbortSend
    <2>3. RowAgrees(r)'
      BY <1>1, <2>1, <2>2 DEF Waiting
    <2> QED BY <2>1, <2>2, <2>3, MoveRests
  <1> QED BY <1>2, <1>3

LEMMA RestNext == SubmissionInv /\ RestInv /\ [SendNext]_sendVars => RestInv'
  <1> SUFFICES ASSUME SubmissionInv, RestInv, [SendNext]_sendVars PROVE RestInv'
    OBVIOUS
  <1>1. ASSUME UNCHANGED <<transport, send, sendOps, poolOwner>>
        PROVE  RestInv'
    BY <1>1 DEF RestInv, PoolUsed, RowAgrees
  <1>2. CASE CloseSmtp \/ UNCHANGED sendVars
    BY <1>1, <1>2 DEF CloseSmtp, sendVars
  <1>3. ASSUME NEW d \in Draft, EditDraft(d)
        PROVE  RestInv'
    BY <1>1, <1>3 DEF EditDraft
  <1> QED
    BY <1>2, <1>3, QueueRests, OutsideRests, SettleRests, TakePoolRests, SilentRests, InsideRests,
       DroppedRests DEF SendNext, SendStep

\* The pool's mutex is never left locked by a request that is over: whoever has it
\* connects, is inside an SMTP transaction or about to repeat one, or waits for the
\* connection it opens.  It lets go with the answer, the error, the disconnection or
\* the crash that ends it; the last of these waits has no deadline, so that only the
\* client or a restart is sure to end it.
THEOREM SubmissionPoolComesBack == SendSpec => []PoolUsed
  <1>1. SendInit => RestInv
    BY DEF SendInit, RestInv, PoolUsed, RowAgrees, Waiting
  <1>2. RestInv => PoolUsed
    BY DEF RestInv
  <1> QED BY <1>1, <1>2, RestNext, SubmissionInvariant, PTL DEF SendSpec

\* What the frontend is told of a mail.send is what its row says, and a row is left
\* pending by a request that was dropped, or had no provider, and by no other.
THEOREM SubmissionRowsExplained == SendSpec => []RowsExplained
  <1>1. SendInit => RestInv
    BY DEF SendInit, RestInv, PoolUsed, RowAgrees, Waiting
  <1>2. SubmissionInv /\ RestInv => RowsExplained
    <2> SUFFICES ASSUME SubmissionInv, NEW r \in SendRequest, RowAgrees(r)
                 PROVE  /\ send[r].pc = "answered" => (send[r].ok <=> sendOps[r] = "succeeded")
                        /\ sendOps[r] = "pending" =>
                              \/ send[r].pc \in Waiting \cup {"sent", "failed", "aborted"}
                              \/ send[r].pc = "answered" /\ transport = "missing"
                        /\ sendOps[r] = "failed" => send[r].pc = "answered"
      BY DEF RestInv, RowsExplained
    <2>1. send[r] \in SendState
      BY DEF SubmissionInv, SendTypeOK
    <2>2. send[r].pc \in {"idle", "aborted", "sent", "failed", "settled", "answered"} \cup Waiting
      BY <2>1 DEF SendState
    <2>3. send[r].pc = "answered" => send[r].ok \in BOOLEAN
      BY <2>1 DEF SendState, Waiting
    <2> QED BY <2>2, <2>3 DEF RowAgrees
  <1> QED BY <1>1, <1>2, RestNext, SubmissionInvariant, PTL DEF SendSpec

=============================================================================
