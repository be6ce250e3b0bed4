--------------------------- MODULE RpcConnection ---------------------------
(***************************************************************************)
(* One frontend's connection to the daemon: handle_connection, its ordered *)
(* lane, its parallel readers, and the bounded queues between them.        *)
(*                                                                         *)
(* The connection's main loop is a select over six branches: shutdown, a   *)
(* broadcast event, a finished response, a finished request task, room in  *)
(* the ordered lane, and the next frame.  A branch that writes holds the   *)
(* loop until the frame is in the socket.  Each branch is an action; the   *)
(* worker of the ordered lane and the reader tasks run beside the loop.    *)
(*                                                                         *)
(* The frontend writes the requests of its script once, in order, and      *)
(* reads what it is sent.  A frame too large for one read arrives in two   *)
(* pieces.                                                                 *)
(***************************************************************************)
EXTENDS Integers, Sequences, FiniteSets

CONSTANTS
    Request,        \* requests, each sent at most once
    Scripts,        \* the orders in which a frontend may send them
    Subscribe,      \* the requests that subscribe to events
    Reader,         \* the requests of is_parallel_reader_method
    Large,          \* requests whose frame does not arrive in one piece
    Capacity,       \* MAX_IN_FLIGHT_REQUESTS
    EventCapacity,  \* EVENT_QUEUE_CAPACITY
    SocketBuffer,   \* bound: frames the kernel holds in each direction
    Topic,          \* what events are about: mail, accounts, sync, agenda
    MaxEvents       \* bound: events published on a topic while a frontend that
                    \* subscribes is there

Nothing == "nothing"

ASSUME RequestAssumption ==
    /\ Nothing \notin Request
    /\ Scripts \subseteq Seq(Request)
    /\ \A s \in Scripts : \A i, j \in DOMAIN s : s[i] = s[j] => i = j
    /\ Subscribe \subseteq Request
    /\ Reader \subseteq Request
    /\ Subscribe \cap Reader = {}

ASSUME CapacityAssumption ==
    /\ Capacity \in Nat \ {0, 1}
    /\ EventCapacity \in Nat \ {0}
    /\ SocketBuffer \in Nat \ {0}
    /\ MaxEvents \in Nat

VARIABLES
    \* the frontend
    script,         \* what it sends, in this order
    sent,           \* pieces written so far: position in Pieces
    answered,       \* history: how many responses each request got
    view,           \* the revision of each topic the frontend shows
    hungup,         \* it has closed the socket
    \* the socket
    inbound,
    outbound,
    \* the connection's main loop
    open,           \* handle_connection is running
    partial,        \* what read_until has put into the buffer
    waiting,        \* pending_serialized
    writing,        \* the frame write_json_line is writing, if any
    subscribed,
    \* the tasks of the connection and the channels to them
    lane,           \* serialized_receiver
    working,        \* the request the ordered worker executes or answers, if any
    readers,        \* the parallel reader tasks
    replies,        \* responses_receiver
    \* the broadcast receiver
    backlog,
    lagged,
    \* the daemon
    revision,
    stopping,
    \* history: serialized requests in the order of their execution
    executed

clientVars == <<script, sent, answered, view, hungup>>
socketVars == <<inbound, outbound>>
loopVars == <<open, partial, waiting, writing, subscribed>>
taskVars == <<lane, working, readers, replies>>
eventVars == <<backlog, lagged>>
daemonVars == <<revision, stopping>>
vars == <<clientVars, socketVars, loopVars, taskVars, eventVars, daemonVars, executed>>

-----------------------------------------------------------------------------
(* Types                                                                   *)

Revisions == [Topic -> Nat]

\* What a response tells of the topics when it is not a read.
Unread == [t \in Topic |-> 0]

Piece == [req : Request, part : {"whole", "head", "tail"}]

Frame ==
    [kind : {"reply"}, req : Request, at : Revisions]
        \cup [kind : {"event"}, topic : Topic]
        \cup [kind : {"resync", "error"}]

Reply(r, at) == [kind |-> "reply", req |-> r, at |-> at]

Event(topic) == [kind |-> "event", topic |-> topic]

Resync == [kind |-> "resync"]

ParseError == [kind |-> "error"]

\* A request task: executing, waiting for room among the responses, or over
\* and not yet reaped by join_next.
Task == [req : Request, state : {"running", "answering", "over"}, at : Revisions]

Running(r) == [req |-> r, state |-> "running", at |-> Unread]

TypeOK ==
    /\ script \in Scripts
    /\ sent \in Nat
    /\ answered \in [Request -> Nat]
    /\ view \in Revisions /\ \A t \in Topic : view[t] <= revision[t]
    /\ hungup \in BOOLEAN
    /\ inbound \in Seq(Piece) /\ Len(inbound) <= SocketBuffer
    /\ outbound \in Seq(Frame) /\ Len(outbound) <= SocketBuffer
    /\ open \in BOOLEAN
    /\ partial \in Request \cup {Nothing}
    /\ waiting \in Request \cup {Nothing}
    /\ writing \subseteq Frame /\ Cardinality(writing) <= 1
    /\ subscribed \in BOOLEAN
    /\ lane \in Seq(Request) /\ Len(lane) <= Capacity
    /\ working \subseteq Task /\ Cardinality(working) <= 1
    /\ readers \subseteq Task /\ Cardinality(readers) < Capacity
    /\ replies \in Seq(Frame) /\ Len(replies) <= Capacity
    /\ backlog \in Seq(Topic) /\ Len(backlog) <= EventCapacity
    /\ lagged \in BOOLEAN
    /\ revision \in Revisions
    /\ stopping \in BOOLEAN
    /\ executed \in Seq(Request)

Init ==
    /\ script \in Scripts
    /\ sent = 0
    /\ answered = [r \in Request |-> 0]
    /\ view = Unread
    /\ hungup = FALSE
    /\ inbound = <<>>
    /\ outbound = <<>>
    /\ open = TRUE
    /\ partial = Nothing
    /\ waiting = Nothing
    /\ writing = {}
    /\ subscribed = FALSE
    /\ lane = <<>>
    /\ working = {}
    /\ readers = {}
    /\ replies = <<>>
    /\ backlog = <<>>
    /\ lagged = FALSE
    /\ revision = Unread
    /\ stopping = FALSE
    /\ executed = <<>>

-----------------------------------------------------------------------------
(* The frontend                                                            *)

\* The pieces of the first i requests: two for a large frame.
PiecesTo(i) == i + Cardinality({j \in 1..i : script[j] \in Large})

PieceAt(n) ==
    CHOOSE p \in Piece : \E i \in DOMAIN script :
        /\ p.req = script[i]
        /\ \/ p.part = "whole" /\ script[i] \notin Large /\ n = PiecesTo(i)
           \/ p.part = "head" /\ script[i] \in Large /\ n = PiecesTo(i) - 1
           \/ p.part = "tail" /\ script[i] \in Large /\ n = PiecesTo(i)

Send ==
    /\ ~hungup
    /\ sent < PiecesTo(Len(script))
    /\ Len(inbound) < SocketBuffer
    /\ inbound' = Append(inbound, PieceAt(sent + 1))
    /\ sent' = sent + 1
    /\ UNCHANGED <<script, answered, view, hungup, outbound, loopVars, taskVars, eventVars,
                   daemonVars, executed>>

\* A list response shows the state it was read at, unless a reload begun since
\* makes it one of an older generation; a notification makes the frontend reload.
Receive ==
    /\ ~hungup
    /\ outbound # <<>>
    /\ outbound' = Tail(outbound)
    /\ LET f == Head(outbound)
       IN  /\ answered' = IF f.kind = "reply" THEN [answered EXCEPT ![f.req] = @ + 1] ELSE answered
           /\ view' = [t \in Topic |->
                CASE f.kind = "reply" /\ f.at[t] > view[t] -> f.at[t]
                  [] f.kind = "event" /\ f.topic = t -> revision[t]
                  [] f.kind = "resync" -> revision[t]
                  [] OTHER -> view[t]]
    /\ UNCHANGED <<script, sent, hungup, inbound, loopVars, taskVars, eventVars, daemonVars, executed>>

HangUp ==
    /\ ~hungup
    /\ hungup' = TRUE
    /\ UNCHANGED <<script, sent, answered, view, socketVars, loopVars, taskVars, eventVars,
                   daemonVars, executed>>

-----------------------------------------------------------------------------
(* The main loop                                                           *)

\* The loop is at its select, and the branch the action stands for completes.
\* The read_until of the frame branch is dropped, and the next turn clears the
\* buffer it was filling.
Selects == open /\ writing = {}

\* The connection ends: the JoinSet is dropped and aborts the worker and the
\* readers, wherever they are.
Close ==
    /\ open' = FALSE
    /\ partial' = Nothing
    /\ waiting' = Nothing
    /\ writing' = {}
    /\ subscribed' = FALSE
    /\ lane' = <<>>
    /\ working' = {}
    /\ readers' = {}
    /\ replies' = <<>>
    /\ backlog' = <<>>
    /\ lagged' = FALSE
    /\ UNCHANGED <<clientVars, socketVars, daemonVars, executed>>

\* Mutant of NoticeShutdown: the ordered lane is drained first.
NoticeShutdownDrained ==
    /\ open /\ stopping
    /\ lane = <<>> /\ working = {}
    /\ Close

\* Shutdown is a branch of the select and of every write.
NoticeShutdown ==
    /\ open /\ stopping
    /\ Close

\* Mutant of ForwardEvent: a lagging receiver just goes on.
ForwardEventSilently ==
    /\ Selects
    /\ lagged \/ backlog # <<>>
    /\ lagged' = FALSE
    /\ backlog' = IF lagged THEN backlog ELSE Tail(backlog)
    /\ writing' = IF subscribed /\ ~lagged THEN {Event(Head(backlog))} ELSE {}
    /\ partial' = Nothing
    /\ UNCHANGED <<clientVars, socketVars, open, waiting, subscribed, taskVars, daemonVars,
                   executed>>

\* A receiver that missed events learns so before it gets the next one.
ForwardEvent ==
    /\ Selects
    /\ lagged \/ backlog # <<>>
    /\ lagged' = FALSE
    /\ backlog' = IF lagged THEN backlog ELSE Tail(backlog)
    /\ writing' = CASE lagged -> {Resync}
                    [] ~lagged /\ subscribed -> {Event(Head(backlog))}
                    [] OTHER -> {}
    /\ partial' = Nothing
    /\ UNCHANGED <<clientVars, socketVars, open, waiting, subscribed, taskVars, daemonVars,
                   executed>>

\* Mutant of WriteReply: an awaited send into the full lane holds the loop.
WriteReplyUnlessWaiting ==
    /\ Selects
    /\ waiting = Nothing
    /\ replies # <<>>
    /\ writing' = {Head(replies)}
    /\ replies' = Tail(replies)
    /\ partial' = Nothing
    /\ UNCHANGED <<clientVars, socketVars, open, waiting, subscribed, lane, working, readers,
                   eventVars, daemonVars, executed>>

WriteReply ==
    /\ Selects
    /\ replies # <<>>
    /\ writing' = {Head(replies)}
    /\ replies' = Tail(replies)
    /\ partial' = Nothing
    /\ UNCHANGED <<clientVars, socketVars, open, waiting, subscribed, lane, working, readers,
                   eventVars, daemonVars, executed>>

\* join_next.
Reap ==
    /\ Selects
    /\ \E t \in readers :
         /\ t.state = "over"
         /\ readers' = readers \ {t}
    /\ partial' = Nothing
    /\ UNCHANGED <<clientVars, socketVars, open, waiting, writing, subscribed, lane, working,
                   replies, eventVars, daemonVars, executed>>

\* Mutant of HandOver: the request is copied into the lane, not taken.
HandOverCopy ==
    /\ Selects
    /\ waiting # Nothing
    /\ Len(lane) < Capacity
    /\ lane' = Append(lane, waiting)
    /\ waiting' \in {waiting, Nothing}
    /\ partial' = Nothing
    /\ UNCHANGED <<clientVars, socketVars, open, writing, subscribed, working, readers, replies,
                   eventVars, daemonVars, executed>>

\* Mutant of HandOver: an unbounded lane.
HandOverUnbounded ==
    /\ Selects
    /\ waiting # Nothing
    /\ lane' = Append(lane, waiting)
    /\ waiting' = Nothing
    /\ partial' = Nothing
    /\ UNCHANGED <<clientVars, socketVars, open, writing, subscribed, working, readers, replies,
                   eventVars, daemonVars, executed>>

\* serialized_sender.reserve: the lane has room for the request held back.
HandOver ==
    /\ Selects
    /\ waiting # Nothing
    /\ Len(lane) < Capacity
    /\ lane' = Append(lane, waiting)
    /\ waiting' = Nothing
    /\ partial' = Nothing
    /\ UNCHANGED <<clientVars, socketVars, open, writing, subscribed, working, readers, replies,
                   eventVars, daemonVars, executed>>

\* The guard of the frame branch: the worker counts as one of the requests.
MayRead == Selects /\ waiting = Nothing /\ 1 + Cardinality(readers) < Capacity

\* Mutant of Dispatch: an idle worker gets the request past the lane.
DispatchPastLane(r) ==
    \/ /\ r \in Subscribe
       /\ subscribed' = TRUE
       /\ writing' = {Reply(r, Unread)}
       /\ UNCHANGED <<waiting, working, readers, executed>>
    \/ /\ r \in Reader
       /\ readers' = readers \cup {Running(r)}
       /\ UNCHANGED <<subscribed, writing, waiting, working, executed>>
    \/ /\ r \notin Subscribe \cup Reader
       /\ IF working = {}
          THEN working' = {Running(r)} /\ executed' = Append(executed, r) /\ UNCHANGED waiting
          ELSE waiting' = r /\ UNCHANGED <<working, executed>>
       /\ UNCHANGED <<subscribed, writing, readers>>

\* Subscriptions are executed by the loop itself, readers by a task each, and
\* everything else goes through the ordered lane.
Dispatch(r) ==
    \/ /\ r \in Subscribe
       /\ subscribed' = TRUE
       /\ writing' = {Reply(r, Unread)}
       /\ UNCHANGED <<waiting, working, readers, executed>>
    \/ /\ r \in Reader
       /\ readers' = readers \cup {Running(r)}
       /\ UNCHANGED <<subscribed, writing, waiting, working, executed>>
    \/ /\ r \notin Subscribe \cup Reader
       /\ waiting' = r
       /\ UNCHANGED <<subscribed, writing, working, readers, executed>>

\* The next piece arrives.  Only a piece that ends a frame completes the branch;
\* the rest of a frame whose head is gone is answered with a parse error.
Read ==
    /\ MayRead
    /\ inbound # <<>>
    /\ inbound' = Tail(inbound)
    /\ LET p == Head(inbound)
       IN  \/ /\ p.part = "head"
              /\ partial' = p.req
              /\ UNCHANGED <<subscribed, writing, waiting, working, readers, executed>>
           \/ /\ \/ p.part = "whole"
                 \/ p.part = "tail" /\ partial = p.req
              /\ partial' = Nothing
              /\ Dispatch(p.req)
           \/ /\ p.part = "tail" /\ partial # p.req
              /\ partial' = Nothing
              /\ writing' = {ParseError}
              /\ UNCHANGED <<subscribed, waiting, working, readers, executed>>
    /\ UNCHANGED <<clientVars, outbound, open, lane, replies, eventVars, daemonVars>>

ReadEnd ==
    /\ MayRead
    /\ hungup /\ inbound = <<>>
    /\ Close

FinishWrite ==
    /\ open /\ writing # {}
    /\ ~hungup
    /\ Len(outbound) < SocketBuffer
    /\ outbound' \in {Append(outbound, f) : f \in writing}
    /\ writing' = {}
    /\ UNCHANGED <<clientVars, inbound, open, partial, waiting, subscribed, taskVars, eventVars,
                   daemonVars, executed>>

\* The frontend is gone, or did not read for CONNECTION_WRITE_TIMEOUT.
FailWrite ==
    /\ open /\ writing # {}
    /\ hungup \/ Len(outbound) = SocketBuffer
    /\ Close

-----------------------------------------------------------------------------
(* The connection's tasks                                                  *)

TakeRequest ==
    /\ working = {}
    /\ lane # <<>>
    /\ working' = {Running(Head(lane))}
    /\ lane' = Tail(lane)
    /\ executed' = Append(executed, Head(lane))
    /\ UNCHANGED <<clientVars, socketVars, loopVars, readers, replies, eventVars, daemonVars>>

\* The call into the daemon returns; it may take as long as a provider does.
CompleteRequest(t) ==
    /\ t.state = "running"
    /\ working' = {[t EXCEPT !.state = "answering"]}
    /\ UNCHANGED <<clientVars, socketVars, loopVars, lane, readers, replies, eventVars,
                   daemonVars, executed>>

AnswerRequest(t) ==
    /\ t.state = "answering"
    /\ Len(replies) < Capacity
    /\ replies' = Append(replies, Reply(t.req, Unread))
    /\ working' = {}
    /\ UNCHANGED <<clientVars, socketVars, loopVars, lane, readers, eventVars, daemonVars,
                   executed>>

CompleteRead(t) ==
    /\ t.state = "running"
    /\ readers' = (readers \ {t}) \cup {[t EXCEPT !.state = "answering", !.at = revision]}
    /\ UNCHANGED <<clientVars, socketVars, loopVars, lane, working, replies, eventVars,
                   daemonVars, executed>>

AnswerRead(t) ==
    /\ t.state = "answering"
    /\ Len(replies) < Capacity
    /\ replies' = Append(replies, Reply(t.req, t.at))
    /\ readers' = (readers \ {t}) \cup {[t EXCEPT !.state = "over"]}
    /\ UNCHANGED <<clientVars, socketVars, loopVars, lane, working, eventVars, daemonVars,
                   executed>>

-----------------------------------------------------------------------------
(* The daemon                                                              *)

\* A topic changes and the event is published; a full receiver loses its oldest.
Publish(t) ==
    /\ \E i \in DOMAIN script : script[i] \in Subscribe
    /\ revision[t] < MaxEvents
    /\ revision' = [revision EXCEPT ![t] = @ + 1]
    /\ IF ~open THEN UNCHANGED eventVars
       ELSE IF Len(backlog) < EventCapacity
       THEN backlog' = Append(backlog, t) /\ UNCHANGED lagged
       ELSE backlog' = Append(Tail(backlog), t) /\ lagged' = TRUE
    /\ UNCHANGED <<clientVars, socketVars, loopVars, taskVars, stopping, executed>>

Stop ==
    /\ ~stopping
    /\ stopping' = TRUE
    /\ UNCHANGED <<clientVars, socketVars, loopVars, taskVars, eventVars, revision, executed>>

-----------------------------------------------------------------------------

LoopStep ==
    \/ NoticeShutdown \/ ForwardEvent \/ WriteReply \/ Reap \/ HandOver
    \/ Read \/ ReadEnd \/ FinishWrite \/ FailWrite

Calls ==
    \/ \E t \in working : CompleteRequest(t)
    \/ \E t \in readers : CompleteRead(t)

Answers ==
    \/ TakeRequest
    \/ \E t \in working : AnswerRequest(t)
    \/ \E t \in readers : AnswerRead(t)

Next ==
    \/ Send \/ Receive \/ HangUp
    \/ LoopStep
    \/ Calls \/ Answers
    \/ Stop \/ \E t \in Topic : Publish(t)

Spec == Init /\ [][Next]_vars

\* The runtime polls every task; tokio's select picks among the branches that
\* are ready at random, so none that stays ready is passed over for ever.
LoopFairness ==
    /\ WF_vars(NoticeShutdown)
    /\ SF_vars(ForwardEvent)
    /\ SF_vars(WriteReply)
    /\ SF_vars(Reap)
    /\ SF_vars(HandOver)
    /\ SF_vars(Read)
    /\ SF_vars(ReadEnd)
    /\ SF_vars(FinishWrite)
    /\ WF_vars(Answers)

\* Calls and frontends may stall for ever.
FairSpec == Spec /\ LoopFairness

\* A frontend that keeps sending and reading, and calls that return.
Responsive == WF_vars(Send) /\ WF_vars(Receive) /\ WF_vars(Calls)

-----------------------------------------------------------------------------
(* Properties                                                              *)

Position(r) == CHOOSE i \in DOMAIN script : script[i] = r

\* User mutations are not reordered: requests of the ordered lane are executed
\* in the order in which the frontend sent them, each at most once.
SerialOrder ==
    \A i, j \in DOMAIN executed :
        i < j => Position(executed[i]) < Position(executed[j])

InQueue(q, r) == Cardinality({i \in DOMAIN q : q[i].kind = "reply" /\ q[i].req = r})

\* A request gets one response: pending_serialized is taken when it is handed
\* over, and a task that has answered only waits to be reaped.
AnsweredOnce ==
    \A r \in Request :
        answered[r] + InQueue(outbound, r) + InQueue(replies, r)
            + Cardinality({f \in writing : f.kind = "reply" /\ f.req = r}) <= 1

\* Every request of a responsive frontend is answered while the connection
\* lasts, whatever the bounded queues hold: the lane to the worker and the
\* responses from it may be full at once.
NoneUnanswered ==
    \A i \in DOMAIN script :
        sent >= PiecesTo(i) => answered[script[i]] = 1 \/ hungup \/ ~open

AllAnswered == Responsive => []<>NoneUnanswered

\* A responsive frontend that has subscribed comes to show every change: it gets
\* the event, or the demand to reload when its receiver lagged, or the read it
\* began after it had subscribed.
ViewConverges ==
    Responsive =>
        \A t \in Topic, n \in 1..MaxEvents :
            (subscribed /\ revision[t] >= n) ~> view[t] >= n \/ hungup \/ ~open

\* Shutdown ends the connection although a provider call hangs, the queues are
\* full and the frontend has stopped reading.
ShutdownCompletes == stopping ~> ~open

=============================================================================
