------------------------- MODULE RpcConnectionProofs -------------------------
(***************************************************************************)
(* Proofs about RpcConnection, for any requests, scripts, frame sizes and  *)
(* queue capacities: the queues stay within their bounds, mutations are    *)
(* executed in the order in which they were sent, a request is answered    *)
(* once and lost nowhere, the queues never wait for each other in a        *)
(* circle, and a subscriber misses no change.                              *)
(***************************************************************************)
EXTENDS RpcConnection, FiniteSetTheorems, WellFoundedInduction, TLAPS

USE RequestAssumption, CapacityAssumption

-----------------------------------------------------------------------------
(* The pieces of a script                                                  *)

Less == {ss \in Nat \X Nat : ss[1] < ss[2]}

LEMMA LessWellFounded == IsWellFoundedOn(Less, Nat)
  BY NatLessThanWellFounded DEF OpToRel, Less

LEMMA LeastNatural ==
  ASSUME NEW s \in SUBSET Nat, s # {}
  PROVE  \E k \in s : \A j \in s : k <= j
  <1>1. PICK k \in s : \A j \in s : ~ (<<j, k>> \in Less)
    BY LessWellFounded, WFMin
  <1>2. ASSUME NEW j \in s, j < k
        PROVE  FALSE
    <2>1. <<j, k>> \in Nat \X Nat
      BY DEF Less
    <2>2. <<j, k>> \in Less
      BY <2>1, <1>2 DEF Less
    <2> QED
      BY <1>1, <2>2
  <1> QED
    BY <1>2

LargeTo(i) == {j \in 1..i : script[j] \in Large}

LEMMA LargeFinite ==
  ASSUME NEW i \in Nat
  PROVE  IsFiniteSet(LargeTo(i)) /\ Cardinality(LargeTo(i)) \in Nat
  <1>1. IsFiniteSet(1..i)
    BY FS_Interval
  <1>2. LargeTo(i) \in SUBSET (1..i)
    BY DEF LargeTo
  <1>3. IsFiniteSet(LargeTo(i))
    BY <1>1, <1>2, FS_Subset
  <1> QED
    BY <1>3, FS_CardinalityType

LEMMA PiecesTyped ==
  ASSUME NEW i \in Nat
  PROVE  PiecesTo(i) = i + Cardinality(LargeTo(i)) /\ PiecesTo(i) \in Nat
  BY LargeFinite DEF PiecesTo, LargeTo

LEMMA PiecesFirst == PiecesTo(0) = 0
  <1>1. LargeTo(0) = {}
    BY DEF LargeTo
  <1>2. Cardinality(LargeTo(0)) = 0
    BY <1>1, FS_EmptySet
  <1> QED
    BY <1>2, PiecesTyped

\* A request is one piece more, or two.
LEMMA PiecesStep ==
  ASSUME NEW i \in Nat
  PROVE  PiecesTo(i + 1) = PiecesTo(i) + (IF script[i + 1] \in Large THEN 2 ELSE 1)
  <1>0. /\ PiecesTo(i + 1) = (i + 1) + Cardinality(LargeTo(i + 1))
        /\ PiecesTo(i) = i + Cardinality(LargeTo(i))
        /\ Cardinality(LargeTo(i)) \in Nat
    BY PiecesTyped, LargeFinite
  <1>1. CASE script[i + 1] \in Large
    <2>1. LargeTo(i + 1) = LargeTo(i) \cup {i + 1} /\ i + 1 \notin LargeTo(i)
      BY <1>1 DEF LargeTo
    <2>2. Cardinality(LargeTo(i + 1)) = Cardinality(LargeTo(i)) + 1
      BY <2>1, LargeFinite, FS_AddElement
    <2> QED
      BY <1>0, <1>1, <2>2
  <1>2. CASE script[i + 1] \notin Large
    <2>1. LargeTo(i + 1) = LargeTo(i)
      BY <1>2 DEF LargeTo
    <2> QED
      BY <1>0, <1>2, <2>1
  <1> QED
    BY <1>1, <1>2

LEMMA PiecesGrow ==
  ASSUME NEW i \in Nat, NEW j \in Nat, i <= j
  PROVE  PiecesTo(i) + (j - i) <= PiecesTo(j)
  <1>1. LargeTo(i) \in SUBSET LargeTo(j)
    BY DEF LargeTo
  <1>2. Cardinality(LargeTo(i)) <= Cardinality(LargeTo(j))
    BY <1>1, LargeFinite, FS_Subset
  <1> QED
    BY <1>2, PiecesTyped, LargeFinite

\* The n-th piece belongs to the request whose pieces reach n.
LEMMA PieceOf ==
  ASSUME script \in Seq(Request), NEW n \in 1..PiecesTo(Len(script))
  PROVE  \E i \in DOMAIN script : PiecesTo(i - 1) < n /\ n <= PiecesTo(i)
  <1> DEFINE reach == {i \in 1..Len(script) : n <= PiecesTo(i)}
  <1>1. Len(script) \in Nat /\ n \in Nat /\ n >= 1
    BY PiecesTyped
  <1>2. Len(script) # 0
    BY <1>1, PiecesFirst
  <1>3. Len(script) \in reach
    BY <1>1, <1>2, PiecesTyped
  <1>4. reach \in SUBSET Nat
    OBVIOUS
  <1>5. PICK i \in reach : \A j \in reach : i <= j
    BY <1>3, <1>4, LeastNatural
  <1>6. i \in 1..Len(script) /\ i - 1 \in Nat /\ n <= PiecesTo(i)
    BY <1>1, <1>5
  <1>7. PiecesTo(i - 1) < n
    <2>1. CASE i = 1
      BY <1>1, <2>1, PiecesFirst
    <2>2. CASE i # 1
      <3>1. i - 1 \in 1..Len(script) /\ i - 1 \notin reach
        BY <1>1, <1>5, <1>6, <2>2
      <3>2. ~ (n <= PiecesTo(i - 1)) /\ PiecesTo(i - 1) \in Nat
        BY <1>6, <3>1, PiecesTyped
      <3> QED
        BY <1>1, <3>2
    <2> QED
      BY <2>1, <2>2
  <1>8. DOMAIN script = 1..Len(script)
    OBVIOUS
  <1> QED
    BY <1>6, <1>7, <1>8

LEMMA PieceTyped ==
  ASSUME script \in Seq(Request), NEW n \in 1..PiecesTo(Len(script))
  PROVE  /\ PieceAt(n) \in Piece
         /\ \E k \in DOMAIN script :
              /\ PieceAt(n).req = script[k]
              /\ \/ PieceAt(n).part = "whole" /\ script[k] \notin Large /\ n = PiecesTo(k)
                 \/ PieceAt(n).part = "head" /\ script[k] \in Large /\ n = PiecesTo(k) - 1
                 \/ PieceAt(n).part = "tail" /\ script[k] \in Large /\ n = PiecesTo(k)
  <1>1. PICK i \in DOMAIN script : PiecesTo(i - 1) < n /\ n <= PiecesTo(i)
    BY PieceOf
  <1>2. i \in Nat /\ i - 1 \in Nat /\ (i - 1) + 1 = i /\ script[i] \in Request
    OBVIOUS
  <1>3. PiecesTo(i) = PiecesTo(i - 1) + (IF script[i] \in Large THEN 2 ELSE 1)
    BY <1>2, PiecesStep
  <1>4. PiecesTo(i - 1) \in Nat /\ PiecesTo(i) \in Nat /\ n \in Nat
    BY <1>2, PiecesTyped
  <1>5. n = PiecesTo(i) \/ (script[i] \in Large /\ n = PiecesTo(i) - 1)
    BY <1>1, <1>3, <1>4
  <1> DEFINE Is(p) == \E k \in DOMAIN script :
                 /\ p.req = script[k]
                 /\ \/ p.part = "whole" /\ script[k] \notin Large /\ n = PiecesTo(k)
                    \/ p.part = "head" /\ script[k] \in Large /\ n = PiecesTo(k) - 1
                    \/ p.part = "tail" /\ script[k] \in Large /\ n = PiecesTo(k)
             piece(part) == [req |-> script[i], part |-> part]
  <1>6. \E p \in Piece : Is(p)
    <2>1. \A part \in {"whole", "head", "tail"} :
            piece(part) \in Piece /\ piece(part).req = script[i] /\ piece(part).part = part
      BY <1>2 DEF Piece
    <2> HIDE DEF piece
    <2>2. CASE script[i] \notin Large
      BY <1>5, <2>1, <2>2
    <2>3. CASE script[i] \in Large /\ n = PiecesTo(i)
      BY <2>1, <2>3
    <2>4. CASE script[i] \in Large /\ n = PiecesTo(i) - 1
      BY <2>1, <2>4
    <2> QED
      BY <1>5, <2>2, <2>3, <2>4
  <1>7. PieceAt(n) \in Piece /\ Is(PieceAt(n))
    BY <1>6 DEF PieceAt
  <1> QED
    BY <1>7

\* A request's place in the script is the only one it has.
LEMMA PositionIs ==
  ASSUME script \in Scripts, NEW i \in DOMAIN script
  PROVE  Position(script[i]) = i
  BY DEF Position

-----------------------------------------------------------------------------
(* The socket towards the daemon                                           *)

Arrived == sent - Len(inbound)

\* What is in the socket are the last pieces sent, in order.
FrontInv ==
    /\ script \in Scripts
    /\ sent \in 0..PiecesTo(Len(script))
    /\ inbound \in Seq(Piece)
    /\ Len(inbound) <= SocketBuffer
    /\ Len(inbound) <= sent
    /\ \A j \in 1..Len(inbound) : inbound[j] = PieceAt(Arrived + j)

LEMMA ScriptTyped ==
  ASSUME FrontInv
  PROVE  /\ script \in Seq(Request) /\ Len(script) \in Nat
         /\ PiecesTo(Len(script)) \in Nat
         /\ sent \in Nat /\ Len(inbound) \in Nat /\ Arrived \in Nat
  <1>1. script \in Seq(Request) /\ Len(script) \in Nat
    BY DEF FrontInv
  <1>2. PiecesTo(Len(script)) \in Nat
    BY <1>1, PiecesTyped
  <1>3. sent \in Nat /\ Len(inbound) \in Nat /\ Len(inbound) <= sent
    BY <1>2 DEF FrontInv
  <1> QED
    BY <1>1, <1>2, <1>3 DEF Arrived

LEMMA SendFront ==
  ASSUME FrontInv, Send
  PROVE  FrontInv' /\ Arrived' = Arrived
  <1>1. /\ script' = script /\ sent' = sent + 1 /\ sent < PiecesTo(Len(script))
        /\ Len(inbound) < SocketBuffer
        /\ inbound' = Append(inbound, PieceAt(sent + 1))
    BY DEF Send
  <1>2. sent + 1 \in 1..PiecesTo(Len(script))
    BY <1>1, ScriptTyped
  <1>3. PieceAt(sent + 1) \in Piece
    BY <1>2, ScriptTyped, PieceTyped
  <1>4. /\ inbound' \in Seq(Piece) /\ Len(inbound') = Len(inbound) + 1
        /\ \A j \in 1..Len(inbound) : inbound'[j] = inbound[j]
        /\ inbound'[Len(inbound) + 1] = PieceAt(sent + 1)
    BY <1>1, <1>3 DEF FrontInv
  <1>5. Arrived' = Arrived /\ Arrived + (Len(inbound) + 1) = sent + 1
    BY <1>1, <1>4, ScriptTyped DEF Arrived
  <1>6. \A n : PieceAt(n)' = PieceAt(n)
    BY <1>1 DEF PieceAt, PiecesTo
  <1>7. \A i : PiecesTo(i)' = PiecesTo(i)
    BY <1>1 DEF PiecesTo
  <1>8. \A j \in 1..Len(inbound') : inbound'[j] = PieceAt(Arrived + j)
    <2> SUFFICES ASSUME NEW j \in 1..Len(inbound')
                 PROVE  inbound'[j] = PieceAt(Arrived + j)
      OBVIOUS
    <2>1. CASE j \in 1..Len(inbound)
      BY <2>1, <1>4 DEF FrontInv
    <2>2. CASE j = Len(inbound) + 1
      BY <2>2, <1>4, <1>5
    <2> QED
      BY <2>1, <2>2, <1>4, ScriptTyped
  <1>9. /\ sent' \in 0..PiecesTo(Len(script)) /\ Len(inbound') <= SocketBuffer
        /\ Len(inbound') <= sent'
    BY <1>1, <1>2, <1>4, ScriptTyped DEF FrontInv
  <1> QED
    BY <1>1, <1>4, <1>5, <1>6, <1>7, <1>8, <1>9 DEF FrontInv

\* The piece that is read is the next one that was sent.
LEMMA ReadFront ==
  ASSUME FrontInv, script' = script, sent' = sent, inbound # <<>>, inbound' = Tail(inbound)
  PROVE  /\ FrontInv'
         /\ Arrived' = Arrived + 1
         /\ Arrived + 1 \in 1..PiecesTo(Len(script))
         /\ Head(inbound) = PieceAt(Arrived + 1)
         /\ Head(inbound) \in Piece
  <1>1. /\ inbound \in Seq(Piece) /\ Len(inbound) \in Nat /\ Len(inbound) >= 1
        /\ Len(inbound) <= sent /\ sent \in Nat /\ sent <= PiecesTo(Len(script))
    BY ScriptTyped DEF FrontInv
  <1>2. /\ inbound' \in Seq(Piece) /\ Len(inbound') = Len(inbound) - 1
        /\ \A j \in 1..Len(inbound') : inbound'[j] = inbound[j + 1]
        /\ Head(inbound) = inbound[1] /\ Head(inbound) \in Piece
    BY <1>1
  <1>3. Arrived' = Arrived + 1 /\ Arrived \in Nat /\ Arrived + 1 <= sent
    BY <1>1, <1>2 DEF Arrived
  <1>4. Arrived + 1 \in 1..PiecesTo(Len(script))
    BY <1>1, <1>3, ScriptTyped
  <1>5. Head(inbound) = PieceAt(Arrived + 1)
    BY <1>1, <1>2 DEF FrontInv
  <1>6. \A n : PieceAt(n)' = PieceAt(n)
    BY DEF PieceAt, PiecesTo
  <1>7. \A i : PiecesTo(i)' = PiecesTo(i)
    BY DEF PiecesTo
  <1>8. \A j \in 1..Len(inbound') : inbound'[j] = PieceAt(Arrived' + j)
    <2> SUFFICES ASSUME NEW j \in 1..Len(inbound')
                 PROVE  inbound'[j] = PieceAt(Arrived' + j)
      OBVIOUS
    <2>1. j + 1 \in 1..Len(inbound)
      BY <1>1, <1>2
    <2>2. inbound[j + 1] = PieceAt(Arrived + (j + 1))
      BY <2>1 DEF FrontInv
    <2>3. Arrived + (j + 1) = Arrived' + j
      BY <1>3
    <2> QED
      BY <1>2, <2>2, <2>3
  <1>9. /\ sent' \in 0..PiecesTo(Len(script)) /\ Len(inbound') <= SocketBuffer
        /\ Len(inbound') <= sent'
    BY <1>1, <1>2, ScriptTyped DEF FrontInv
  <1>10. FrontInv'
    BY <1>2, <1>6, <1>7, <1>8, <1>9 DEF FrontInv
  <1> QED
    BY <1>2, <1>3, <1>4, <1>5, <1>10

LEMMA FrontKept ==
  ASSUME FrontInv, UNCHANGED <<script, sent, inbound>>
  PROVE  FrontInv' /\ Arrived' = Arrived
  <1>1. \A n : PieceAt(n)' = PieceAt(n)
    BY DEF PieceAt, PiecesTo
  <1>2. PiecesTo(Len(script))' = PiecesTo(Len(script))
    BY DEF PiecesTo
  <1>3. Arrived' = Arrived
    BY DEF Arrived
  <1> QED
    BY <1>1, <1>2, <1>3 DEF FrontInv

-----------------------------------------------------------------------------
(* Queues and sets within their bounds                                     *)

Short(S, n) == {q \in Seq(S) : Len(q) <= n}

Few(S, n) == {s \in SUBSET S : IsFiniteSet(s) /\ Cardinality(s) <= n}

LEMMA ShortEmpty ==
  ASSUME NEW S, NEW n \in Nat
  PROVE  <<>> \in Short(S, n)
  BY DEF Short

LEMMA ShortAppend ==
  ASSUME NEW S, NEW n \in Nat, NEW q \in Short(S, n), Len(q) < n, NEW x \in S
  PROVE  Append(q, x) \in Short(S, n)
  BY DEF Short

LEMMA ShortTail ==
  ASSUME NEW S, NEW n \in Nat, NEW q \in Short(S, n), q # <<>>
  PROVE  Head(q) \in S /\ Tail(q) \in Short(S, n)
  <1>1. q \in Seq(S) /\ Len(q) \in Nat /\ Len(q) <= n
    BY DEF Short
  <1>2. Head(q) \in S /\ Tail(q) \in Seq(S) /\ Len(Tail(q)) = Len(q) - 1
    BY <1>1
  <1> QED
    BY <1>1, <1>2 DEF Short

LEMMA FewOne ==
  ASSUME NEW S, NEW n \in Nat
  PROVE  {} \in Few(S, n) /\ \A x \in S : n >= 1 => {x} \in Few(S, n)
  <1>1. IsFiniteSet({}) /\ Cardinality({}) = 0
    BY FS_EmptySet
  <1>2. \A x : IsFiniteSet({x}) /\ Cardinality({x}) = 1
    BY FS_Singleton
  <1>3. {} \in Few(S, n)
    BY <1>1 DEF Few
  <1>4. ASSUME NEW x \in S, n >= 1
        PROVE  {x} \in Few(S, n)
    <2>1. Cardinality({x}) <= n /\ IsFiniteSet({x})
      BY <1>2, <1>4
    <2> QED
      BY <2>1 DEF Few
  <1> QED
    BY <1>3, <1>4

LEMMA FewAdd ==
  ASSUME NEW S, NEW n \in Nat, NEW s \in Few(S, n), Cardinality(s) < n, NEW x \in S
  PROVE  s \cup {x} \in Few(S, n)
  <1>1. s \in SUBSET S /\ IsFiniteSet(s) /\ Cardinality(s) \in Nat
    BY FS_CardinalityType DEF Few
  <1>2. /\ IsFiniteSet(s \cup {x})
        /\ Cardinality(s \cup {x}) = IF x \in s THEN Cardinality(s) ELSE Cardinality(s) + 1
    BY <1>1, FS_AddElement
  <1>3. Cardinality(s \cup {x}) <= n
    BY <1>1, <1>2
  <1> QED
    BY <1>1, <1>2, <1>3 DEF Few

LEMMA FewRemove ==
  ASSUME NEW S, NEW n \in Nat, NEW s \in Few(S, n), NEW x \in s
  PROVE  /\ s \ {x} \in Few(S, n)
         /\ Cardinality(s \ {x}) < n
  <1>1. s \in SUBSET S /\ IsFiniteSet(s) /\ Cardinality(s) \in Nat /\ Cardinality(s) <= n
    BY FS_CardinalityType DEF Few
  <1>2. IsFiniteSet(s \ {x}) /\ Cardinality(s \ {x}) = Cardinality(s) - 1
    BY <1>1, FS_RemoveElement
  <1>3. Cardinality(s \ {x}) < n /\ Cardinality(s \ {x}) <= n
    BY <1>1, <1>2
  <1> QED
    BY <1>1, <1>2, <1>3 DEF Few

LEMMA FewSwap ==
  ASSUME NEW S, NEW n \in Nat, NEW s \in Few(S, n), NEW x \in s, NEW y \in S
  PROVE  (s \ {x}) \cup {y} \in Few(S, n)
  BY FewRemove, FewAdd

-----------------------------------------------------------------------------
(* Types                                                                   *)

\* What a reader or a response tells of the topics, the daemon has been at.
FreshFrame == {f \in Frame : f.kind = "reply" => \A t \in Topic : f.at[t] <= revision[t]}

FreshTask == {t \in Task : \A p \in Topic : t.at[p] <= revision[p]}

Past == {v \in Revisions : \A t \in Topic : v[t] <= revision[t]}

TypeInv ==
    /\ FrontInv
    /\ answered \in [Request -> Nat]
    /\ revision \in Revisions
    /\ view \in Past
    /\ hungup \in BOOLEAN /\ open \in BOOLEAN /\ subscribed \in BOOLEAN
    /\ lagged \in BOOLEAN /\ stopping \in BOOLEAN
    /\ partial \in Request \cup {Nothing}
    /\ waiting \in Request \cup {Nothing}
    /\ outbound \in Short(FreshFrame, SocketBuffer)
    /\ writing \in Few(FreshFrame, 1)
    /\ lane \in Short(Request, Capacity)
    /\ working \in Few(Task, 1)
    /\ readers \in Few(FreshTask, Capacity - 1)
    /\ replies \in Short(FreshFrame, Capacity)
    /\ backlog \in Short(Topic, EventCapacity)
    /\ executed \in Seq(Request)

LEMMA CapacityTyped ==
  /\ Capacity \in Nat /\ Capacity - 1 \in Nat /\ Capacity - 1 >= 1
  /\ EventCapacity \in Nat /\ EventCapacity >= 1
  /\ SocketBuffer \in Nat /\ SocketBuffer >= 1
  /\ 1 \in Nat /\ 1 >= 1
  BY CapacityAssumption

\* The types of what changed; the rest keeps its own.
LEMMA TypeKept ==
  ASSUME TypeInv, FrontInv', revision' = revision,
         answered' = answered \/ answered' \in [Request -> Nat],
         view' = view \/ view' \in Past,
         hungup' \in {hungup, TRUE}, open' \in {open, FALSE},
         subscribed' \in {subscribed, TRUE, FALSE}, lagged' \in {lagged, FALSE},
         stopping' \in {stopping, TRUE},
         partial' = partial \/ partial' \in Request \cup {Nothing},
         waiting' = waiting \/ waiting' \in Request \cup {Nothing},
         outbound' = outbound \/ outbound' \in Short(FreshFrame, SocketBuffer),
         writing' = writing \/ writing' \in Few(FreshFrame, 1),
         lane' = lane \/ lane' \in Short(Request, Capacity),
         working' = working \/ working' \in Few(Task, 1),
         readers' = readers \/ readers' \in Few(FreshTask, Capacity - 1),
         replies' = replies \/ replies' \in Short(FreshFrame, Capacity),
         backlog' = backlog \/ backlog' \in Short(Topic, EventCapacity),
         executed' = executed \/ executed' \in Seq(Request)
  PROVE  TypeInv'
  <1>1. FreshFrame' = FreshFrame /\ FreshTask' = FreshTask /\ Past' = Past
    BY DEF FreshFrame, FreshTask, Past
  <1>2. \A S, n : Short(S, n)' = Short(S, n) /\ Few(S, n)' = Few(S, n)
    BY DEF Short, Few
  <1>3. /\ answered' \in [Request -> Nat] /\ revision' \in Revisions /\ view' \in Past
        /\ executed' \in Seq(Request)
    BY DEF TypeInv
  <1>4. /\ hungup' \in BOOLEAN /\ open' \in BOOLEAN /\ subscribed' \in BOOLEAN
        /\ lagged' \in BOOLEAN /\ stopping' \in BOOLEAN
    BY DEF TypeInv
  <1>5. partial' \in Request \cup {Nothing} /\ waiting' \in Request \cup {Nothing}
    BY DEF TypeInv
  <1>6. /\ outbound' \in Short(FreshFrame, SocketBuffer)
        /\ replies' \in Short(FreshFrame, Capacity)
        /\ writing' \in Few(FreshFrame, 1)
    BY DEF TypeInv
  <1>7. /\ lane' \in Short(Request, Capacity) /\ working' \in Few(Task, 1)
        /\ readers' \in Few(FreshTask, Capacity - 1)
        /\ backlog' \in Short(Topic, EventCapacity)
    BY DEF TypeInv
  <1> QED
    BY <1>1, <1>3, <1>4, <1>5, <1>6, <1>7 DEF TypeInv, Short, Few

LEMMA UnreadTyped ==
  /\ Unread \in Revisions /\ \A t \in Topic : Unread[t] = 0
  BY DEF Unread, Revisions

LEMMA ReplyTyped ==
  ASSUME TypeInv, NEW r \in Request, NEW at \in Revisions, \A t \in Topic : at[t] <= revision[t]
  PROVE  /\ Reply(r, at) \in FreshFrame
         /\ Reply(r, at).kind = "reply" /\ Reply(r, at).req = r
  BY DEF Reply, FreshFrame, Frame

LEMMA UnreadReplyTyped ==
  ASSUME TypeInv, NEW r \in Request
  PROVE  /\ Reply(r, Unread) \in FreshFrame
         /\ Reply(r, Unread).kind = "reply" /\ Reply(r, Unread).req = r
  <1>1. \A t \in Topic : Unread[t] <= revision[t]
    BY UnreadTyped DEF TypeInv, Revisions
  <1> QED
    BY <1>1, UnreadTyped, ReplyTyped

LEMMA NoticeTyped ==
  ASSUME TypeInv
  PROVE  /\ Resync \in FreshFrame /\ Resync.kind # "reply"
         /\ ParseError \in FreshFrame /\ ParseError.kind # "reply"
         /\ \A t \in Topic : Event(t) \in FreshFrame /\ Event(t).kind # "reply"
  BY DEF Resync, ParseError, Event, FreshFrame, Frame

LEMMA RunningTyped ==
  ASSUME TypeInv, NEW r \in Request
  PROVE  /\ Running(r) \in Task /\ Running(r) \in FreshTask
         /\ Running(r).req = r /\ Running(r).state = "running"
  <1>1. \A t \in Topic : Unread[t] <= revision[t]
    BY UnreadTyped DEF TypeInv, Revisions
  <1> QED
    BY <1>1, UnreadTyped DEF Running, Task, FreshTask

-----------------------------------------------------------------------------
(* Every step keeps the types                                              *)

LEMMA SendType ==
  ASSUME TypeInv, Send
  PROVE  TypeInv'
  <1>1. FrontInv'
    BY SendFront DEF TypeInv
  <1>2. UNCHANGED <<answered, view, hungup, outbound, loopVars, taskVars, eventVars,
                    daemonVars, executed>>
    BY DEF Send
  <1> QED
    BY <1>1, <1>2, TypeKept DEF loopVars, taskVars, eventVars, daemonVars

\* A frontend shows no state that the daemon has not been in.
LEMMA ReceiveType ==
  ASSUME TypeInv, Receive
  PROVE  TypeInv'
  <1> DEFINE f == Head(outbound)
  <1>1. /\ outbound # <<>> /\ outbound' = Tail(outbound)
        /\ answered' = IF f.kind = "reply" THEN [answered EXCEPT ![f.req] = @ + 1] ELSE answered
        /\ view' = [t \in Topic |->
             CASE f.kind = "reply" /\ f.at[t] > view[t] -> f.at[t]
               [] f.kind = "event" /\ f.topic = t -> revision[t]
               [] f.kind = "resync" -> revision[t]
               [] OTHER -> view[t]]
        /\ UNCHANGED <<script, sent, hungup, inbound, loopVars, taskVars, eventVars, daemonVars,
                       executed>>
    BY DEF Receive
  <1>2. f \in FreshFrame /\ outbound' \in Short(FreshFrame, SocketBuffer)
    BY <1>1, CapacityTyped, ShortTail DEF TypeInv
  <1>3. answered' \in [Request -> Nat]
    <2>1. answered \in [Request -> Nat]
      BY DEF TypeInv
    <2>2. f.kind = "reply" => f.req \in Request
      BY <1>2 DEF FreshFrame, Frame
    <2> QED
      BY <1>1, <2>1, <2>2
  <1>4. view' \in Past
    <2>1. view \in Revisions /\ revision \in Revisions /\ \A t \in Topic : view[t] <= revision[t]
      BY DEF TypeInv, Past
    <2>2. f.kind = "reply" => \A t \in Topic : f.at[t] \in Nat /\ f.at[t] <= revision[t]
      BY <1>2 DEF FreshFrame, Frame, Revisions
    <2>3. ASSUME NEW t \in Topic
          PROVE  view'[t] \in Nat /\ view'[t] <= revision[t]
      <3>1. /\ view[t] \in Nat /\ revision[t] \in Nat /\ view[t] <= revision[t]
            /\ f.kind = "reply" => f.at[t] \in Nat /\ f.at[t] <= revision[t]
        BY <2>1, <2>2, <2>3 DEF Revisions
      <3>2. view'[t] \in {view[t], revision[t]} \/ (f.kind = "reply" /\ view'[t] = f.at[t])
        BY <1>1, <2>3
      <3> QED
        BY <3>1, <3>2
    <2>4. view' \in [Topic -> Nat]
      <3>1. DOMAIN view' = Topic /\ view' = [t \in Topic |-> view'[t]]
        BY <1>1
      <3> QED
        BY <2>3, <3>1
    <2> QED
      BY <2>3, <2>4 DEF Past, Revisions
  <1>5. FrontInv'
    BY <1>1, FrontKept DEF TypeInv
  <1> HIDE DEF f
  <1> QED
    BY <1>1, <1>2, <1>3, <1>4, <1>5, TypeKept DEF loopVars, taskVars, eventVars, daemonVars

LEMMA HangUpType ==
  ASSUME TypeInv, HangUp
  PROVE  TypeInv'
  <1>1. /\ hungup' = TRUE
        /\ UNCHANGED <<script, sent, answered, view, socketVars, loopVars, taskVars, eventVars,
                       daemonVars, executed>>
    BY DEF HangUp
  <1>2. FrontInv'
    BY <1>1, FrontKept DEF TypeInv, socketVars
  <1> QED
    BY <1>1, <1>2, TypeKept DEF socketVars, loopVars, taskVars, eventVars, daemonVars

LEMMA CloseType ==
  ASSUME TypeInv, Close
  PROVE  TypeInv'
  <1>1. /\ open' = FALSE /\ partial' = Nothing /\ waiting' = Nothing /\ writing' = {}
        /\ subscribed' = FALSE /\ lane' = <<>> /\ working' = {} /\ readers' = {}
        /\ replies' = <<>> /\ backlog' = <<>> /\ lagged' = FALSE
        /\ UNCHANGED <<clientVars, socketVars, daemonVars, executed>>
    BY DEF Close
  <1>2. FrontInv'
    BY <1>1, FrontKept DEF TypeInv, socketVars, clientVars
  <1>3. /\ writing' \in Few(FreshFrame, 1) /\ lane' \in Short(Request, Capacity)
        /\ working' \in Few(Task, 1) /\ readers' \in Few(FreshTask, Capacity - 1)
        /\ replies' \in Short(FreshFrame, Capacity)
        /\ backlog' \in Short(Topic, EventCapacity)
    BY <1>1, CapacityTyped, FewOne, ShortEmpty
  <1> QED
    BY <1>1, <1>2, <1>3, TypeKept DEF clientVars, socketVars, daemonVars

LEMMA ForwardEventType ==
  ASSUME TypeInv, ForwardEvent
  PROVE  TypeInv'
  <1>1. /\ lagged \/ backlog # <<>>
        /\ lagged' = FALSE /\ partial' = Nothing
        /\ backlog' = IF lagged THEN backlog ELSE Tail(backlog)
        /\ writing' = CASE lagged -> {Resync}
                        [] ~lagged /\ subscribed -> {Event(Head(backlog))}
                        [] OTHER -> {}
        /\ UNCHANGED <<clientVars, socketVars, open, waiting, subscribed, taskVars, daemonVars,
                       executed>>
    BY DEF ForwardEvent
  <1>2. FrontInv'
    BY <1>1, FrontKept DEF TypeInv, socketVars, clientVars
  <1>3. lagged \in BOOLEAN /\ backlog \in Short(Topic, EventCapacity)
    BY DEF TypeInv
  <1>4. CASE lagged
    <2>1. backlog' = backlog /\ writing' = {Resync}
      BY <1>1, <1>4
    <2>2. writing' \in Few(FreshFrame, 1)
      BY <2>1, NoticeTyped, CapacityTyped, FewOne
    <2> QED
      BY <1>1, <1>2, <2>1, <2>2, TypeKept DEF clientVars, socketVars, taskVars, daemonVars
  <1>5. CASE ~lagged
    <2>1. Head(backlog) \in Topic /\ backlog' \in Short(Topic, EventCapacity)
      BY <1>1, <1>3, <1>5, CapacityTyped, ShortTail
    <2>2. writing' \in {{Event(Head(backlog))}, {}}
      BY <1>1, <1>5
    <2>3. writing' \in Few(FreshFrame, 1)
      <3>1. Event(Head(backlog)) \in FreshFrame
        BY <2>1, NoticeTyped
      <3>2. {} \in Few(FreshFrame, 1) /\ {Event(Head(backlog))} \in Few(FreshFrame, 1)
        BY <3>1, CapacityTyped, FewOne
      <3> QED
        BY <2>2, <3>2
    <2> QED
      BY <1>1, <1>2, <2>1, <2>3, TypeKept DEF clientVars, socketVars, taskVars, daemonVars
  <1> QED
    BY <1>4, <1>5

LEMMA WriteReplyType ==
  ASSUME TypeInv, WriteReply
  PROVE  TypeInv'
  <1>1. /\ replies # <<>> /\ writing' = {Head(replies)} /\ replies' = Tail(replies)
        /\ partial' = Nothing
        /\ UNCHANGED <<clientVars, socketVars, open, waiting, subscribed, lane, working, readers,
                       eventVars, daemonVars, executed>>
    BY DEF WriteReply
  <1>2. FrontInv'
    BY <1>1, FrontKept DEF TypeInv, socketVars, clientVars
  <1>3. Head(replies) \in FreshFrame /\ replies' \in Short(FreshFrame, Capacity)
    BY <1>1, CapacityTyped, ShortTail DEF TypeInv
  <1>4. writing' \in Few(FreshFrame, 1)
    BY <1>1, <1>3, CapacityTyped, FewOne
  <1> QED
    BY <1>1, <1>2, <1>3, <1>4, TypeKept DEF clientVars, socketVars, eventVars, daemonVars

LEMMA ReapType ==
  ASSUME TypeInv, Reap
  PROVE  TypeInv'
  <1>1. /\ \E t \in readers : readers' = readers \ {t}
        /\ partial' = Nothing
        /\ UNCHANGED <<clientVars, socketVars, open, waiting, writing, subscribed, lane, working,
                       replies, eventVars, daemonVars, executed>>
    BY DEF Reap
  <1>2. FrontInv'
    BY <1>1, FrontKept DEF TypeInv, socketVars, clientVars
  <1>3. readers' \in Few(FreshTask, Capacity - 1)
    <2>1. PICK t \in readers : readers' = readers \ {t}
      BY <1>1
    <2>2. readers \in Few(FreshTask, Capacity - 1)
      BY DEF TypeInv
    <2> QED
      BY <2>1, <2>2, CapacityTyped, FewRemove
  <1> QED
    BY <1>1, <1>2, <1>3, TypeKept DEF clientVars, socketVars, eventVars, daemonVars

LEMMA HandOverType ==
  ASSUME TypeInv, HandOver
  PROVE  TypeInv'
  <1>1. /\ waiting # Nothing /\ Len(lane) < Capacity /\ lane' = Append(lane, waiting)
        /\ waiting' = Nothing /\ partial' = Nothing
        /\ UNCHANGED <<clientVars, socketVars, open, writing, subscribed, working, readers, replies,
                       eventVars, daemonVars, executed>>
    BY DEF HandOver
  <1>2. FrontInv'
    BY <1>1, FrontKept DEF TypeInv, socketVars, clientVars
  <1>3. lane' \in Short(Request, Capacity)
    BY <1>1, CapacityTyped, ShortAppend DEF TypeInv
  <1> QED
    BY <1>1, <1>2, <1>3, TypeKept DEF clientVars, socketVars, eventVars, daemonVars

LEMMA ReadType ==
  ASSUME TypeInv, Read
  PROVE  TypeInv'
  <1> DEFINE p == Head(inbound)
  <1>1. /\ writing = {} /\ waiting = Nothing /\ 1 + Cardinality(readers) < Capacity
        /\ inbound # <<>> /\ inbound' = Tail(inbound)
        /\ UNCHANGED <<clientVars, outbound, open, lane, replies, eventVars, daemonVars>>
    BY DEF Read, MayRead, Selects
  <1>2. FrontInv' /\ p \in Piece
    BY <1>1, ReadFront DEF TypeInv, clientVars
  <1>3. p.req \in Request
    BY <1>2 DEF Piece
  <1>4. CASE partial' = p.req /\ UNCHANGED <<subscribed, writing, waiting, working, readers, executed>>
    BY <1>1, <1>2, <1>3, <1>4, TypeKept DEF clientVars, eventVars, daemonVars
  <1>5. CASE partial' = Nothing /\ Dispatch(p.req)
    <2>1. CASE /\ subscribed' = TRUE
               /\ writing' = {Reply(p.req, Unread)}
               /\ UNCHANGED <<waiting, working, readers, executed>>
      <3>1. writing' \in Few(FreshFrame, 1)
        BY <1>3, <2>1, UnreadReplyTyped, CapacityTyped, FewOne
      <3> QED
        BY <1>1, <1>2, <1>5, <2>1, <3>1, TypeKept DEF clientVars, eventVars, daemonVars
    <2>2. CASE /\ readers' = readers \cup {Running(p.req)}
               /\ UNCHANGED <<subscribed, writing, waiting, working, executed>>
      <3>1. readers \in Few(FreshTask, Capacity - 1) /\ Cardinality(readers) < Capacity - 1
        <4>1. readers \in Few(FreshTask, Capacity - 1)
          BY DEF TypeInv
        <4>2. Cardinality(readers) \in Nat
          BY <4>1, FS_CardinalityType DEF Few
        <4> QED
          BY <1>1, <4>1, <4>2, CapacityTyped
      <3>2. readers' \in Few(FreshTask, Capacity - 1)
        BY <1>3, <2>2, <3>1, RunningTyped, CapacityTyped, FewAdd
      <3> QED
        BY <1>1, <1>2, <1>5, <2>2, <3>2, TypeKept DEF clientVars, eventVars, daemonVars
    <2>3. CASE waiting' = p.req /\ UNCHANGED <<subscribed, writing, working, readers, executed>>
      BY <1>1, <1>2, <1>3, <1>5, <2>3, TypeKept DEF clientVars, eventVars, daemonVars
    <2> QED
      BY <1>5, <2>1, <2>2, <2>3 DEF Dispatch
  <1>6. CASE /\ partial' = Nothing /\ writing' = {ParseError}
             /\ UNCHANGED <<subscribed, waiting, working, readers, executed>>
    <2>1. writing' \in Few(FreshFrame, 1)
      BY <1>6, NoticeTyped, CapacityTyped, FewOne
    <2> QED
      BY <1>1, <1>2, <1>6, <2>1, TypeKept DEF clientVars, eventVars, daemonVars
  <1> QED
    BY <1>4, <1>5, <1>6 DEF Read

LEMMA FinishWriteType ==
  ASSUME TypeInv, FinishWrite
  PROVE  TypeInv'
  <1>1. /\ Len(outbound) < SocketBuffer
        /\ outbound' \in {Append(outbound, f) : f \in writing} /\ writing' = {}
        /\ UNCHANGED <<clientVars, inbound, open, partial, waiting, subscribed, taskVars, eventVars,
                       daemonVars, executed>>
    BY DEF FinishWrite
  <1>2. FrontInv'
    BY <1>1, FrontKept DEF TypeInv, clientVars
  <1>3. writing \subseteq FreshFrame
    BY DEF TypeInv, Few
  <1>4. outbound' \in Short(FreshFrame, SocketBuffer)
    <2>1. PICK f \in FreshFrame : outbound' = Append(outbound, f)
      BY <1>1, <1>3
    <2>2. outbound \in Short(FreshFrame, SocketBuffer)
      BY DEF TypeInv
    <2> QED
      BY <1>1, <2>1, <2>2, CapacityTyped, ShortAppend
  <1>5. writing' \in Few(FreshFrame, 1)
    BY <1>1, CapacityTyped, FewOne
  <1> QED
    BY <1>1, <1>2, <1>4, <1>5, TypeKept DEF clientVars, taskVars, eventVars, daemonVars

LEMMA TakeRequestType ==
  ASSUME TypeInv, TakeRequest
  PROVE  TypeInv'
  <1>1. /\ lane # <<>> /\ working' = {Running(Head(lane))} /\ lane' = Tail(lane)
        /\ executed' = Append(executed, Head(lane))
        /\ UNCHANGED <<clientVars, socketVars, loopVars, readers, replies, eventVars, daemonVars>>
    BY DEF TakeRequest
  <1>2. FrontInv'
    BY <1>1, FrontKept DEF TypeInv, socketVars, clientVars
  <1>3. Head(lane) \in Request /\ lane' \in Short(Request, Capacity)
    BY <1>1, CapacityTyped, ShortTail DEF TypeInv
  <1>4. working' \in Few(Task, 1)
    BY <1>1, <1>3, RunningTyped, CapacityTyped, FewOne
  <1>5. executed' \in Seq(Request)
    BY <1>1, <1>3 DEF TypeInv
  <1> QED
    BY <1>1, <1>2, <1>3, <1>4, <1>5, TypeKept DEF clientVars, socketVars, loopVars, eventVars,
       daemonVars

LEMMA StateTyped ==
  ASSUME NEW t \in Task, NEW state \in {"running", "answering", "over"}
  PROVE  /\ [t EXCEPT !.state = state] \in Task
         /\ [t EXCEPT !.state = state].req = t.req
         /\ [t EXCEPT !.state = state].state = state
         /\ [t EXCEPT !.state = state].at = t.at
  BY DEF Task

LEMMA CompleteRequestType ==
  ASSUME TypeInv, NEW t \in working, CompleteRequest(t)
  PROVE  TypeInv'
  <1>1. /\ working' = {[t EXCEPT !.state = "answering"]}
        /\ UNCHANGED <<clientVars, socketVars, loopVars, lane, readers, replies, eventVars,
                       daemonVars, executed>>
    BY DEF CompleteRequest
  <1>2. FrontInv'
    BY <1>1, FrontKept DEF TypeInv, socketVars, clientVars
  <1>3. t \in Task
    BY DEF TypeInv, Few
  <1>4. working' \in Few(Task, 1)
    BY <1>1, <1>3, StateTyped, CapacityTyped, FewOne
  <1> QED
    BY <1>1, <1>2, <1>4, TypeKept DEF clientVars, socketVars, loopVars, eventVars, daemonVars

LEMMA AnswerRequestType ==
  ASSUME TypeInv, NEW t \in working, AnswerRequest(t)
  PROVE  TypeInv'
  <1>1. /\ Len(replies) < Capacity /\ replies' = Append(replies, Reply(t.req, Unread))
        /\ working' = {}
        /\ UNCHANGED <<clientVars, socketVars, loopVars, lane, readers, eventVars, daemonVars,
                       executed>>
    BY DEF AnswerRequest
  <1>2. FrontInv'
    BY <1>1, FrontKept DEF TypeInv, socketVars, clientVars
  <1>3. t.req \in Request
    BY DEF TypeInv, Few, Task
  <1>4. replies' \in Short(FreshFrame, Capacity)
    BY <1>1, <1>3, UnreadReplyTyped, CapacityTyped, ShortAppend DEF TypeInv
  <1>5. working' \in Few(Task, 1)
    BY <1>1, CapacityTyped, FewOne
  <1> QED
    BY <1>1, <1>2, <1>4, <1>5, TypeKept DEF clientVars, socketVars, loopVars, eventVars, daemonVars

LEMMA CompleteReadType ==
  ASSUME TypeInv, NEW t \in readers, CompleteRead(t)
  PROVE  TypeInv'
  <1> DEFINE u == [t EXCEPT !.state = "answering", !.at = revision]
  <1>1. /\ readers' = (readers \ {t}) \cup {u}
        /\ UNCHANGED <<clientVars, socketVars, loopVars, lane, working, replies, eventVars,
                       daemonVars, executed>>
    BY DEF CompleteRead
  <1>2. FrontInv'
    BY <1>1, FrontKept DEF TypeInv, socketVars, clientVars
  <1>3. t \in Task /\ revision \in Revisions /\ readers \in Few(FreshTask, Capacity - 1)
    BY DEF TypeInv, Few, FreshTask
  <1>4. u \in Task /\ u.at = revision
    BY <1>3 DEF Task
  <1> HIDE DEF u
  <1>5. u \in FreshTask
    BY <1>3, <1>4 DEF FreshTask, Revisions
  <1>6. readers' \in Few(FreshTask, Capacity - 1)
    BY <1>1, <1>3, <1>5, CapacityTyped, FewSwap
  <1> QED
    BY <1>1, <1>2, <1>6, TypeKept DEF clientVars, socketVars, loopVars, eventVars, daemonVars

LEMMA AnswerReadType ==
  ASSUME TypeInv, NEW t \in readers, AnswerRead(t)
  PROVE  TypeInv'
  <1> DEFINE u == [t EXCEPT !.state = "over"]
  <1>1. /\ Len(replies) < Capacity /\ replies' = Append(replies, Reply(t.req, t.at))
        /\ readers' = (readers \ {t}) \cup {u}
        /\ UNCHANGED <<clientVars, socketVars, loopVars, lane, working, eventVars, daemonVars,
                       executed>>
    BY DEF AnswerRead
  <1>2. FrontInv'
    BY <1>1, FrontKept DEF TypeInv, socketVars, clientVars
  <1>3. /\ t \in Task /\ readers \in Few(FreshTask, Capacity - 1)
        /\ t.req \in Request /\ t.at \in Revisions /\ \A p \in Topic : t.at[p] <= revision[p]
    BY DEF TypeInv, Few, FreshTask, Task
  <1>4. u \in FreshTask
    <2>1. u \in Task /\ u.at = t.at
      BY <1>3, StateTyped
    <2> HIDE DEF u
    <2> QED
      BY <1>3, <2>1 DEF FreshTask
  <1> HIDE DEF u
  <1>5. readers' \in Few(FreshTask, Capacity - 1)
    BY <1>1, <1>3, <1>4, CapacityTyped, FewSwap
  <1>6. replies' \in Short(FreshFrame, Capacity)
    BY <1>1, <1>3, ReplyTyped, CapacityTyped, ShortAppend DEF TypeInv
  <1> QED
    BY <1>1, <1>2, <1>5, <1>6, TypeKept DEF clientVars, socketVars, loopVars, eventVars, daemonVars

\* What was of the present is of the past.
LEMMA PublishType ==
  ASSUME TypeInv, NEW t \in Topic, Publish(t)
  PROVE  TypeInv'
  <1>1. /\ revision' = [revision EXCEPT ![t] = @ + 1]
        /\ IF ~open THEN UNCHANGED eventVars
           ELSE IF Len(backlog) < EventCapacity
           THEN backlog' = Append(backlog, t) /\ UNCHANGED lagged
           ELSE backlog' = Append(Tail(backlog), t) /\ lagged' = TRUE
        /\ UNCHANGED <<clientVars, socketVars, loopVars, taskVars, stopping, executed>>
    BY DEF Publish
  <1>2. FrontInv'
    BY <1>1, FrontKept DEF TypeInv, socketVars, clientVars
  <1>3. /\ revision \in Revisions /\ revision' \in Revisions
        /\ \A p \in Topic : revision[p] \in Nat /\ revision'[p] \in Nat /\ revision[p] <= revision'[p]
    BY <1>1 DEF TypeInv, Revisions
  <1>4. FreshFrame \subseteq FreshFrame'
    <2> SUFFICES ASSUME NEW f \in FreshFrame, f.kind = "reply", NEW p \in Topic
                 PROVE  f.at[p] <= revision'[p]
      BY DEF FreshFrame
    <2>1. f.at[p] \in Nat /\ f.at[p] <= revision[p]
      BY DEF FreshFrame, Frame, Revisions
    <2> QED
      BY <1>3, <2>1
  <1>5. FreshTask \subseteq FreshTask'
    <2> SUFFICES ASSUME NEW u \in FreshTask, NEW p \in Topic
                 PROVE  u.at[p] <= revision'[p]
      BY DEF FreshTask
    <2>1. u.at[p] \in Nat /\ u.at[p] <= revision[p]
      BY DEF FreshTask, Task, Revisions
    <2> QED
      BY <1>3, <2>1
  <1>6. view' \in Past'
    <2>1. view' = view /\ view \in Revisions /\ \A p \in Topic : view[p] <= revision[p]
      BY <1>1 DEF clientVars, TypeInv, Past
    <2>2. ASSUME NEW p \in Topic
          PROVE  view[p] <= revision'[p]
      <3>1. view[p] \in Nat /\ view[p] <= revision[p]
        BY <2>1 DEF Revisions
      <3> QED
        BY <1>3, <3>1
    <2> QED
      BY <2>1, <2>2 DEF Past
  <1>7. /\ outbound' \in Short(FreshFrame', SocketBuffer)
        /\ replies' \in Short(FreshFrame', Capacity)
    <2>1. /\ outbound \in Short(FreshFrame, SocketBuffer) /\ replies \in Short(FreshFrame, Capacity)
          /\ outbound' = outbound /\ replies' = replies
      BY <1>1 DEF TypeInv, socketVars, taskVars
    <2>2. Seq(FreshFrame) \subseteq Seq(FreshFrame')
      BY <1>4
    <2> QED
      BY <2>1, <2>2 DEF Short
  <1>8. writing' \in Few(FreshFrame', 1) /\ readers' \in Few(FreshTask', Capacity - 1)
    BY <1>1, <1>4, <1>5 DEF TypeInv, Few, loopVars, taskVars
  <1>9. backlog' \in Short(Topic, EventCapacity) /\ lagged' \in BOOLEAN
    <2>1. backlog \in Short(Topic, EventCapacity) /\ lagged \in BOOLEAN
      BY DEF TypeInv
    <2>2. CASE ~open
      BY <1>1, <2>1, <2>2 DEF eventVars
    <2>3. CASE open /\ Len(backlog) < EventCapacity
      <3>1. backlog' = Append(backlog, t) /\ lagged' = lagged
        BY <1>1, <2>3
      <3> QED
        BY <2>1, <2>3, <3>1, CapacityTyped, ShortAppend
    <2>4. CASE open /\ ~(Len(backlog) < EventCapacity)
      <3>1. /\ backlog \in Seq(Topic) /\ Len(backlog) \in Nat /\ Len(backlog) = EventCapacity
            /\ EventCapacity >= 1
        BY <2>1, <2>4, CapacityTyped DEF Short
      <3>2. Append(Tail(backlog), t) \in Seq(Topic) /\ Len(Append(Tail(backlog), t)) = EventCapacity
        BY <3>1
      <3>3. backlog' = Append(Tail(backlog), t) /\ lagged' = TRUE
        BY <1>1, <2>4
      <3> QED
        BY <3>2, <3>3, CapacityTyped DEF Short
    <2> QED
      BY <2>2, <2>3, <2>4
  <1>10. /\ answered' \in [Request -> Nat]
         /\ hungup' \in BOOLEAN /\ open' \in BOOLEAN /\ subscribed' \in BOOLEAN
         /\ stopping' \in BOOLEAN
         /\ partial' \in Request \cup {Nothing} /\ waiting' \in Request \cup {Nothing}
         /\ lane' \in Short(Request, Capacity) /\ working' \in Few(Task, 1)
         /\ executed' \in Seq(Request)
    BY <1>1 DEF TypeInv, clientVars, loopVars, taskVars
  <1>11. \A S, n : Short(S, n)' = Short(S', n) /\ Few(S, n)' = Few(S', n)
    BY DEF Short, Few
  <1> QED
    BY <1>2, <1>3, <1>6, <1>7, <1>8, <1>9, <1>10 DEF TypeInv, Short, Few

LEMMA StopType ==
  ASSUME TypeInv, Stop
  PROVE  TypeInv'
  <1>1. /\ stopping' = TRUE
        /\ UNCHANGED <<clientVars, socketVars, loopVars, taskVars, eventVars, revision, executed>>
    BY DEF Stop
  <1>2. FrontInv'
    BY <1>1, FrontKept DEF TypeInv, socketVars, clientVars
  <1> QED
    BY <1>1, <1>2, TypeKept DEF clientVars, socketVars, loopVars, taskVars, eventVars

LEMMA StutterType ==
  ASSUME TypeInv, UNCHANGED vars
  PROVE  TypeInv'
  <1>1. UNCHANGED <<clientVars, socketVars, loopVars, taskVars, eventVars, daemonVars, executed>>
    BY DEF vars
  <1>2. FrontInv'
    BY <1>1, FrontKept DEF TypeInv, socketVars, clientVars
  <1> QED
    BY <1>1, <1>2, TypeKept DEF clientVars, socketVars, loopVars, taskVars, eventVars, daemonVars

LEMMA TypeInit == Init => TypeInv
  <1> SUFFICES ASSUME Init
               PROVE  TypeInv
    OBVIOUS
  <1>1. /\ script \in Scripts /\ sent = 0 /\ inbound = <<>>
        /\ answered = [r \in Request |-> 0] /\ view = Unread /\ revision = Unread
        /\ partial = Nothing /\ waiting = Nothing /\ executed = <<>>
    BY DEF Init
  <1>2. FrontInv
    <2>1. Len(script) \in Nat /\ PiecesTo(Len(script)) \in Nat
      BY <1>1, PiecesTyped
    <2> QED
      BY <1>1, <2>1, CapacityTyped DEF FrontInv
  <1>3. revision \in Revisions /\ view \in Past
    BY <1>1, UnreadTyped DEF Past
  <1>4. /\ writing = {} /\ working = {} /\ readers = {}
        /\ outbound = <<>> /\ lane = <<>> /\ replies = <<>> /\ backlog = <<>>
    BY DEF Init
  <1>5. /\ writing \in Few(FreshFrame, 1) /\ working \in Few(Task, 1)
        /\ readers \in Few(FreshTask, Capacity - 1)
    BY <1>4, CapacityTyped, FewOne
  <1>6. /\ outbound \in Short(FreshFrame, SocketBuffer) /\ lane \in Short(Request, Capacity)
        /\ replies \in Short(FreshFrame, Capacity) /\ backlog \in Short(Topic, EventCapacity)
    BY <1>4, CapacityTyped, ShortEmpty
  <1>7. /\ hungup \in BOOLEAN /\ open \in BOOLEAN /\ subscribed \in BOOLEAN
        /\ lagged \in BOOLEAN /\ stopping \in BOOLEAN
    BY DEF Init
  <1> QED
    BY <1>1, <1>2, <1>3, <1>5, <1>6, <1>7 DEF TypeInv

LEMMA TypeNext == TypeInv /\ [Next]_vars => TypeInv'
  <1> SUFFICES ASSUME TypeInv, [Next]_vars
               PROVE  TypeInv'
    OBVIOUS
  <1>1. CASE LoopStep
    BY <1>1, CloseType, ForwardEventType, WriteReplyType, ReapType, HandOverType, ReadType,
       FinishWriteType DEF LoopStep, NoticeShutdown, ReadEnd, FailWrite
  <1>2. CASE Calls
    BY <1>2, CompleteRequestType, CompleteReadType DEF Calls
  <1>3. CASE Answers
    BY <1>3, TakeRequestType, AnswerRequestType, AnswerReadType DEF Answers
  <1> QED
    BY <1>1, <1>2, <1>3, SendType, ReceiveType, HangUpType, PublishType, StopType, StutterType
       DEF Next

LEMMA TypeInvariant == Spec => []TypeInv
  BY TypeInit, TypeNext, PTL DEF Spec

\* Every queue of a connection stays within its bound, whatever is published,
\* sent and answered at whatever speed: the lane, the responses, the readers and
\* the frames in the socket; and a frontend shows no revision that has not been.
THEOREM QueuesBounded == Spec => []TypeOK
  <1>1. TypeInv => TypeOK
    <2> SUFFICES ASSUME TypeInv
                 PROVE  TypeOK
      OBVIOUS
    <2>1. /\ script \in Scripts /\ sent \in Nat /\ inbound \in Seq(Piece)
          /\ Len(inbound) <= SocketBuffer
      BY ScriptTyped DEF TypeInv, FrontInv
    <2>2. view \in Revisions /\ \A t \in Topic : view[t] <= revision[t]
      BY DEF TypeInv, Past
    <2>3. FreshFrame \subseteq Frame /\ FreshTask \subseteq Task
      BY DEF FreshFrame, FreshTask
    <2>4. /\ outbound \in Seq(FreshFrame) /\ Len(outbound) <= SocketBuffer
          /\ replies \in Seq(FreshFrame) /\ Len(replies) <= Capacity
          /\ lane \in Seq(Request) /\ Len(lane) <= Capacity
          /\ backlog \in Seq(Topic) /\ Len(backlog) <= EventCapacity
      BY DEF TypeInv, Short
    <2>5. outbound \in Seq(Frame) /\ replies \in Seq(Frame)
      BY <2>3, <2>4
    <2>6. /\ writing \subseteq Frame /\ Cardinality(writing) <= 1
          /\ working \subseteq Task /\ Cardinality(working) <= 1
      BY <2>3 DEF TypeInv, Few
    <2>7. readers \subseteq Task /\ Cardinality(readers) < Capacity
      <3>1. readers \in Few(FreshTask, Capacity - 1)
        BY DEF TypeInv
      <3>2. IsFiniteSet(readers) /\ Cardinality(readers) <= Capacity - 1
        BY <3>1 DEF Few
      <3>3. Cardinality(readers) \in Nat
        BY <3>2, FS_CardinalityType
      <3>4. Cardinality(readers) < Capacity
        BY <3>2, <3>3, CapacityTyped
      <3> QED
        BY <2>3, <3>1, <3>4 DEF Few
    <2> QED
      BY <2>1, <2>2, <2>4, <2>5, <2>6, <2>7 DEF TypeInv, TypeOK
  <1> QED
    BY <1>1, TypeInvariant, PTL

-----------------------------------------------------------------------------
(* The order of execution                                                  *)

\* All pieces of the request have been read.
HasArrived(r) == \E i \in DOMAIN script : script[i] = r /\ PiecesTo(i) <= Arrived

\* What has been executed, what is in the lane and what waits for room in it are
\* in the order of the script, and nothing that is still to be read comes before.
OrderInv ==
    /\ SerialOrder
    /\ \A i, j \in DOMAIN lane : i < j => Position(lane[i]) < Position(lane[j])
    /\ \A i \in DOMAIN executed : \A j \in DOMAIN lane :
         Position(executed[i]) < Position(lane[j])
    /\ waiting # Nothing =>
         /\ \A i \in DOMAIN executed : Position(executed[i]) < Position(waiting)
         /\ \A j \in DOMAIN lane : Position(lane[j]) < Position(waiting)
         /\ HasArrived(waiting)
    /\ \A i \in DOMAIN executed : HasArrived(executed[i])
    /\ \A j \in DOMAIN lane : HasArrived(lane[j])

\* The pieces a request needs arrive once.
LEMMA ArrivedKept ==
  ASSUME script' = script, Arrived' = Arrived
  PROVE  \A r : HasArrived(r)' = HasArrived(r) /\ Position(r)' = Position(r)
  BY DEF HasArrived, PiecesTo, Position

\* The piece that completes a request is read after all of the earlier ones.
LEMMA ReadArrives ==
  ASSUME TypeInv, Read, NEW r, r = Head(inbound).req, Head(inbound).part \in {"whole", "tail"}
  PROVE  /\ r \in Request
         /\ ~ HasArrived(r) /\ HasArrived(r)'
         /\ \A q : Position(q)' = Position(q)
         /\ \A q : HasArrived(q) => HasArrived(q)' /\ Position(q) < Position(r)
  <1>1. /\ inbound # <<>> /\ inbound' = Tail(inbound) /\ script' = script /\ sent' = sent
    BY DEF Read, clientVars
  <1>2. /\ FrontInv' /\ Arrived' = Arrived + 1 /\ Arrived + 1 \in 1..PiecesTo(Len(script))
        /\ Head(inbound) = PieceAt(Arrived + 1) /\ Head(inbound) \in Piece
    BY <1>1, ReadFront DEF TypeInv
  <1>3. script \in Seq(Request) /\ script \in Scripts /\ Arrived \in Nat
    BY ScriptTyped DEF TypeInv, FrontInv
  <1>4. PICK i \in DOMAIN script : r = script[i] /\ Arrived + 1 = PiecesTo(i)
    BY <1>2, <1>3, PieceTyped
  <1>5. r \in Request /\ Position(r) = i /\ i \in Nat
    BY <1>3, <1>4, PositionIs
  <1>6. \A q : Position(q)' = Position(q)
    BY <1>1 DEF Position
  <1>7. \A k : PiecesTo(k)' = PiecesTo(k)
    BY <1>1 DEF PiecesTo
  <1>8. HasArrived(r)'
    <2>1. PiecesTo(i)' <= Arrived'
      BY <1>2, <1>3, <1>4, <1>7
    <2>2. i \in DOMAIN script' /\ script'[i] = r
      BY <1>1, <1>4
    <2> QED
      BY <2>1, <2>2 DEF HasArrived
  <1>9. ASSUME NEW q, HasArrived(q)
        PROVE  HasArrived(q)' /\ Position(q) < Position(r)
    <2>1. PICK k \in DOMAIN script : script[k] = q /\ PiecesTo(k) <= Arrived
      BY <1>9 DEF HasArrived
    <2>2. k \in Nat /\ PiecesTo(k) \in Nat
      <3>1. k \in Nat
        BY <1>3
      <3> QED
        BY <3>1, PiecesTyped
    <2>3. PiecesTo(k) <= Arrived'
      BY <1>2, <1>3, <2>1, <2>2
    <2>4. HasArrived(q)'
      BY <1>1, <1>7, <2>1, <2>3 DEF HasArrived
    <2>5. Position(q) = k
      BY <1>3, <2>1, PositionIs
    <2>6. ~ (i <= k)
      <3>1. SUFFICES ASSUME i <= k
                     PROVE  FALSE
        OBVIOUS
      <3>2. PiecesTo(i) + (k - i) <= PiecesTo(k) /\ PiecesTo(i) \in Nat
        BY <1>5, <2>2, <3>1, PiecesGrow, PiecesTyped
      <3> QED
        BY <1>3, <1>4, <1>5, <2>1, <2>2, <3>1, <3>2
    <2> QED
      BY <1>5, <2>2, <2>4, <2>5, <2>6
  <1>10. ~ HasArrived(r)
    <2>1. HasArrived(r) => Position(r) < Position(r)
      BY <1>9
    <2> QED
      BY <1>5, <2>1
  <1> QED
    BY <1>5, <1>6, <1>8, <1>9, <1>10

LEMMA OrderKept ==
  ASSUME OrderInv, script' = script, Arrived' = Arrived, UNCHANGED <<executed, lane, waiting>>
  PROVE  OrderInv'
  BY ArrivedKept DEF OrderInv, SerialOrder

LEMMA ReadOrder ==
  ASSUME TypeInv, OrderInv, Read
  PROVE  OrderInv'
  <1> DEFINE p == Head(inbound)
  <1>1. /\ inbound # <<>> /\ inbound' = Tail(inbound) /\ script' = script /\ sent' = sent
        /\ waiting = Nothing /\ UNCHANGED <<executed, lane>>
    BY DEF Read, clientVars, MayRead, Dispatch
  <1>2. Arrived' = Arrived + 1 /\ Arrived \in Nat
    BY <1>1, ReadFront, ScriptTyped DEF TypeInv
  <1>3. \A q : Position(q)' = Position(q) /\ (HasArrived(q) => HasArrived(q)')
    <2>1. \A k : PiecesTo(k)' = PiecesTo(k)
      BY <1>1 DEF PiecesTo
    <2>2. \A k \in DOMAIN script : PiecesTo(k) \in Nat
      <3>1. script \in Seq(Request)
        BY ScriptTyped DEF TypeInv
      <3> QED
        BY <3>1, PiecesTyped
    <2>3. \A k \in DOMAIN script : PiecesTo(k) <= Arrived => PiecesTo(k) <= Arrived'
      BY <1>2, <2>2
    <2> QED
      BY <1>1, <2>1, <2>3 DEF Position, HasArrived
  <1>4. waiting' = Nothing \/ (waiting' = p.req /\ p.part \in {"whole", "tail"})
    BY <1>1 DEF Read, Dispatch
  <1>5. CASE waiting' = Nothing
    BY <1>1, <1>3, <1>5 DEF OrderInv, SerialOrder
  <1>6. CASE waiting' = p.req /\ p.part \in {"whole", "tail"}
    <2>1. PICK r : r = p.req
      OBVIOUS
    <2>2. HasArrived(r)' /\ \A q : HasArrived(q) => Position(q) < Position(r)
      BY <1>6, <2>1, ReadArrives
    <2>3. waiting' = r
      BY <1>6, <2>1
    <2> HIDE DEF p
    <2>4. /\ \A i \in DOMAIN executed : Position(executed[i]) < Position(r)
          /\ \A j \in DOMAIN lane : Position(lane[j]) < Position(r)
      BY <2>2 DEF OrderInv
    <2>5. HasArrived(waiting)'
      BY <2>2, <2>3 DEF HasArrived
    <2>6. waiting' # Nothing =>
            /\ \A i \in DOMAIN executed : Position(executed[i]) < Position(waiting')
            /\ \A j \in DOMAIN lane : Position(lane[j]) < Position(waiting')
            /\ HasArrived(waiting)'
      BY <2>3, <2>4, <2>5
    <2> QED
      BY <1>1, <1>3, <2>6 DEF OrderInv, SerialOrder
  <1> QED
    BY <1>4, <1>5, <1>6

LEMMA HandOverOrder ==
  ASSUME TypeInv, OrderInv, HandOver
  PROVE  OrderInv'
  <1>1. /\ waiting # Nothing /\ lane' = Append(lane, waiting) /\ waiting' = Nothing
        /\ UNCHANGED <<script, sent, inbound, executed>>
    BY DEF HandOver, clientVars, socketVars
  <1>2. \A q : HasArrived(q)' = HasArrived(q) /\ Position(q)' = Position(q)
    <2>1. Arrived' = Arrived
      BY <1>1 DEF Arrived
    <2> QED
      BY <1>1, <2>1, ArrivedKept
  <1>3. lane \in Seq(Request) /\ waiting \in Request
    BY <1>1 DEF TypeInv, Short
  <1>4. /\ Len(lane) \in Nat /\ DOMAIN lane = 1..Len(lane)
        /\ DOMAIN lane' = 1..(Len(lane) + 1) /\ lane'[Len(lane) + 1] = waiting
        /\ \A j \in DOMAIN lane : lane'[j] = lane[j]
    BY <1>1, <1>3
  <1>5. \A j \in DOMAIN lane' : (j \in DOMAIN lane /\ lane'[j] = lane[j])
                                  \/ (j = Len(lane) + 1 /\ lane'[j] = waiting)
    BY <1>4
  <1>6. ASSUME NEW i \in DOMAIN lane', NEW j \in DOMAIN lane', i < j
        PROVE  Position(lane'[i]) < Position(lane'[j])
    <2>1. i \in DOMAIN lane
      BY <1>4, <1>6
    <2>2. CASE j \in DOMAIN lane
      BY <1>4, <1>6, <2>1, <2>2 DEF OrderInv
    <2>3. CASE j = Len(lane) + 1
      BY <1>1, <1>4, <2>1, <2>3 DEF OrderInv
    <2> QED
      BY <1>5, <2>2, <2>3
  <1>7. \A i \in DOMAIN executed : \A j \in DOMAIN lane' : Position(executed[i]) < Position(lane'[j])
    BY <1>1, <1>5 DEF OrderInv
  <1>8. \A j \in DOMAIN lane' : HasArrived(lane'[j])
    BY <1>1, <1>5 DEF OrderInv
  <1> QED
    BY <1>1, <1>2, <1>6, <1>7, <1>8 DEF OrderInv, SerialOrder

LEMMA TakeRequestOrder ==
  ASSUME TypeInv, OrderInv, TakeRequest
  PROVE  OrderInv'
  <1>1. /\ lane # <<>> /\ lane' = Tail(lane) /\ executed' = Append(executed, Head(lane))
        /\ UNCHANGED <<script, sent, inbound, waiting>>
    BY DEF TakeRequest, clientVars, socketVars, loopVars
  <1>2. \A q : HasArrived(q)' = HasArrived(q) /\ Position(q)' = Position(q)
    <2>1. Arrived' = Arrived
      BY <1>1 DEF Arrived
    <2> QED
      BY <1>1, <2>1, ArrivedKept
  <1>3. lane \in Seq(Request) /\ executed \in Seq(Request)
    BY DEF TypeInv, Short
  <1>4. /\ Len(lane) \in Nat /\ 1 \in DOMAIN lane /\ Head(lane) = lane[1]
        /\ \A j \in DOMAIN lane' : j + 1 \in DOMAIN lane /\ lane'[j] = lane[j + 1] /\ 1 < j + 1
    BY <1>1, <1>3
  <1>5. /\ Len(executed) \in Nat /\ DOMAIN executed = 1..Len(executed)
        /\ DOMAIN executed' = 1..(Len(executed) + 1)
        /\ executed'[Len(executed) + 1] = lane[1]
        /\ \A i \in DOMAIN executed : executed'[i] = executed[i]
    BY <1>1, <1>3, <1>4
  <1>6. \A i \in DOMAIN executed' : (i \in DOMAIN executed /\ executed'[i] = executed[i])
                                      \/ (i = Len(executed) + 1 /\ executed'[i] = lane[1])
    BY <1>5
  <1>7. ASSUME NEW i \in DOMAIN executed', NEW j \in DOMAIN executed', i < j
        PROVE  Position(executed'[i]) < Position(executed'[j])
    <2>1. i \in DOMAIN executed
      BY <1>5, <1>7
    <2>2. CASE j \in DOMAIN executed
      BY <1>5, <1>7, <2>1, <2>2 DEF OrderInv, SerialOrder
    <2>3. CASE j = Len(executed) + 1
      BY <1>4, <1>5, <2>1, <2>3 DEF OrderInv
    <2> QED
      BY <1>6, <2>2, <2>3
  <1>8. ASSUME NEW i \in DOMAIN lane', NEW j \in DOMAIN lane', i < j
        PROVE  Position(lane'[i]) < Position(lane'[j])
    <2>1. i + 1 \in DOMAIN lane /\ j + 1 \in DOMAIN lane /\ i + 1 < j + 1
      BY <1>3, <1>4, <1>8
    <2> QED
      BY <1>4, <2>1 DEF OrderInv
  <1>9. \A i \in DOMAIN executed' : \A j \in DOMAIN lane' :
          Position(executed'[i]) < Position(lane'[j])
    BY <1>4, <1>6 DEF OrderInv
  <1>10. waiting # Nothing =>
           /\ \A i \in DOMAIN executed' : Position(executed'[i]) < Position(waiting)
           /\ \A j \in DOMAIN lane' : Position(lane'[j]) < Position(waiting)
           /\ HasArrived(waiting)
    BY <1>4, <1>6 DEF OrderInv
  <1>11. /\ \A i \in DOMAIN executed' : HasArrived(executed'[i])
         /\ \A j \in DOMAIN lane' : HasArrived(lane'[j])
    BY <1>4, <1>6 DEF OrderInv
  <1> QED
    BY <1>1, <1>2, <1>7, <1>8, <1>9, <1>10, <1>11 DEF OrderInv, SerialOrder

LEMMA CloseOrder ==
  ASSUME TypeInv, OrderInv, Close
  PROVE  OrderInv'
  <1>1. lane' = <<>> /\ waiting' = Nothing /\ UNCHANGED <<script, sent, inbound, executed>>
    BY DEF Close, clientVars, socketVars
  <1>2. Arrived' = Arrived
    BY <1>1 DEF Arrived
  <1> QED
    BY <1>1, <1>2, ArrivedKept DEF OrderInv, SerialOrder

LEMMA OrderInit == Init => OrderInv
  <1> SUFFICES ASSUME Init
               PROVE  OrderInv
    OBVIOUS
  <1>1. executed = <<>> /\ lane = <<>> /\ waiting = Nothing
    BY DEF Init
  <1> QED
    BY <1>1 DEF OrderInv, SerialOrder

\* The steps that leave the requests in the lane and the socket alone.
LEMMA OrderUntouched ==
  ASSUME TypeInv, OrderInv, UNCHANGED <<script, sent, inbound, executed, lane, waiting>>
  PROVE  OrderInv'
  <1>1. Arrived' = Arrived
    BY DEF Arrived
  <1> QED
    BY <1>1, OrderKept

LEMMA SendOrder ==
  ASSUME TypeInv, OrderInv, Send
  PROVE  OrderInv'
  <1>1. Arrived' = Arrived /\ script' = script
    BY SendFront DEF TypeInv, Send
  <1> QED
    BY <1>1, OrderKept DEF Send, loopVars, taskVars

LEMMA OrderNext == TypeInv /\ OrderInv /\ [Next]_vars => OrderInv'
  <1> SUFFICES ASSUME TypeInv, OrderInv, [Next]_vars
               PROVE  OrderInv'
    OBVIOUS
  <1>1. CASE Receive \/ HangUp \/ Stop \/ (\E t \in Topic : Publish(t))
    <2>1. UNCHANGED <<script, sent, inbound, executed, lane, waiting>>
      BY <1>1 DEF Receive, HangUp, Stop, Publish, clientVars, socketVars, loopVars, taskVars
    <2> QED
      BY <2>1, OrderUntouched
  <1>2. CASE ForwardEvent \/ WriteReply \/ Reap \/ FinishWrite
    <2>1. UNCHANGED <<script, sent, inbound, executed, lane, waiting>>
      BY <1>2 DEF ForwardEvent, WriteReply, Reap, FinishWrite, clientVars, socketVars, taskVars
    <2> QED
      BY <2>1, OrderUntouched
  <1>3. CASE NoticeShutdown \/ ReadEnd \/ FailWrite
    BY <1>3, CloseOrder DEF NoticeShutdown, ReadEnd, FailWrite
  <1>4. ASSUME NEW t, \/ CompleteRequest(t) \/ CompleteRead(t)
                      \/ AnswerRequest(t) \/ AnswerRead(t)
        PROVE  OrderInv'
    <2>1. UNCHANGED <<script, sent, inbound, executed, lane, waiting>>
      BY <1>4 DEF CompleteRequest, CompleteRead, AnswerRequest, AnswerRead, clientVars,
         socketVars, loopVars
    <2> QED
      BY <2>1, OrderUntouched
  <1>5. CASE UNCHANGED vars
    <2>1. UNCHANGED <<script, sent, inbound, executed, lane, waiting>>
      BY <1>5 DEF vars, clientVars, socketVars, loopVars, taskVars
    <2> QED
      BY <2>1, OrderUntouched
  <1> QED
    BY <1>1, <1>2, <1>3, <1>4, <1>5, SendOrder, HandOverOrder, ReadOrder, TakeRequestOrder
       DEF Next, LoopStep, Calls, Answers

\* User mutations are not reordered: whatever the lane holds back, requests that
\* take the ordered lane are executed in the order in which they were sent, and
\* none is executed twice.
THEOREM MutationsInOrder == Spec => []SerialOrder
  <1>1. OrderInv => SerialOrder
    BY DEF OrderInv
  <1> QED
    BY <1>1, TypeInvariant, OrderInit, OrderNext, PTL DEF Spec

-----------------------------------------------------------------------------
(* Counting                                                                *)

Mark(x, S) == IF x \in S THEN 1 ELSE 0

\* The elements of a queue, and of a set, that are in S.
Among(q, S) == Cardinality({i \in DOMAIN q : q[i] \in S})

Held(s, S) == Cardinality(s \cap S)

LEMMA MarkTyped ==
  ASSUME NEW x, NEW S
  PROVE  /\ Mark(x, S) \in 0..1
         /\ x \in S => Mark(x, S) = 1
         /\ x \notin S => Mark(x, S) = 0
  BY DEF Mark

LEMMA AmongTyped ==
  ASSUME NEW X, NEW q \in Seq(X), NEW S
  PROVE  IsFiniteSet({i \in DOMAIN q : q[i] \in S}) /\ Among(q, S) \in Nat
  <1>1. IsFiniteSet(1..Len(q))
    BY FS_Interval
  <1>2. {i \in DOMAIN q : q[i] \in S} \in SUBSET (1..Len(q))
    OBVIOUS
  <1>3. IsFiniteSet({i \in DOMAIN q : q[i] \in S})
    BY <1>1, <1>2, FS_Subset
  <1> QED
    BY <1>3, FS_CardinalityType DEF Among

LEMMA AmongEmpty ==
  ASSUME NEW S
  PROVE  Among(<<>>, S) = 0
  <1>1. {i \in DOMAIN <<>> : <<>>[i] \in S} = {}
    OBVIOUS
  <1>2. Cardinality({}) = 0
    BY FS_EmptySet
  <1> QED
    BY <1>1, <1>2 DEF Among

LEMMA AmongAppend ==
  ASSUME NEW X, NEW q \in Seq(X), NEW x, NEW S
  PROVE  Among(Append(q, x), S) = Among(q, S) + Mark(x, S)
  <1> DEFINE old == {i \in DOMAIN q : q[i] \in S}
             new == {i \in DOMAIN Append(q, x) : Append(q, x)[i] \in S}
  <1>1. /\ Len(q) \in Nat /\ DOMAIN q = 1..Len(q) /\ DOMAIN Append(q, x) = 1..(Len(q) + 1)
        /\ \A i \in 1..Len(q) : Append(q, x)[i] = q[i]
        /\ Append(q, x)[Len(q) + 1] = x
    OBVIOUS
  <1>2. IsFiniteSet(old) /\ Among(q, S) = Cardinality(old) /\ Cardinality(old) \in Nat
    <2>1. IsFiniteSet(old) /\ Among(q, S) \in Nat
      BY AmongTyped
    <2>2. Among(q, S) = Cardinality(old)
      BY Zenon DEF Among
    <2> QED
      BY <2>1, <2>2
  <1>3. Among(Append(q, x), S) = Cardinality(new)
    BY DEF Among
  <1>4. CASE x \in S
    <2>1. new = old \cup {Len(q) + 1} /\ Len(q) + 1 \notin old
      BY <1>1, <1>4
    <2> HIDE DEF old, new
    <2>2. Cardinality(new) = Cardinality(old) + 1
      BY <1>2, <2>1, FS_AddElement
    <2> QED
      BY <1>2, <1>3, <1>4, <2>2 DEF Mark
  <1>5. CASE x \notin S
    <2>1. new = old
      BY <1>1, <1>5
    <2> HIDE DEF old, new
    <2> QED
      BY <1>2, <1>3, <1>5, <2>1 DEF Mark
  <1> QED
    BY <1>4, <1>5

LEMMA AmongTail ==
  ASSUME NEW X, NEW q \in Seq(X), q # <<>>, NEW S
  PROVE  Among(Tail(q), S) + Mark(Head(q), S) <= Among(q, S)
  <1> DEFINE old == {i \in DOMAIN q : q[i] \in S}
             new == {i \in DOMAIN Tail(q) : Tail(q)[i] \in S}
             rest == old \ {1}
             shift == [i \in new |-> i + 1]
  <1>1. /\ Len(q) \in Nat /\ Len(q) >= 1 /\ DOMAIN q = 1..Len(q)
        /\ DOMAIN Tail(q) = 1..(Len(q) - 1) /\ Tail(q) \in Seq(X)
        /\ \A i \in 1..(Len(q) - 1) : Tail(q)[i] = q[i + 1]
        /\ Head(q) = q[1]
    OBVIOUS
  <1>2. IsFiniteSet(old) /\ Among(q, S) = Cardinality(old) /\ Cardinality(old) \in Nat
    <2>1. IsFiniteSet(old) /\ Among(q, S) \in Nat
      BY AmongTyped
    <2>2. Among(q, S) = Cardinality(old)
      BY Zenon DEF Among
    <2> QED
      BY <2>1, <2>2
  <1>3. Among(Tail(q), S) = Cardinality(new) /\ Cardinality(new) \in Nat
    <2>1. Among(Tail(q), S) \in Nat
      BY <1>1, AmongTyped
    <2>2. Among(Tail(q), S) = Cardinality(new)
      BY Zenon DEF Among
    <2> QED
      BY <2>1, <2>2
  <1>4. shift \in Injection(new, rest)
    <2>1. \A i \in new : i + 1 \in rest
      BY <1>1
    <2>2. \A i, j \in new : i + 1 = j + 1 => i = j
      BY <1>1
    <2> QED
      BY <2>1, <2>2 DEF Injection, IsInjective
  <1>5. IsFiniteSet(rest) /\ Cardinality(rest) = Cardinality(old) - Mark(Head(q), S)
    <2>1. 1 \in old <=> Head(q) \in S
      BY <1>1
    <2> HIDE DEF old
    <2>2. /\ IsFiniteSet(rest)
          /\ Cardinality(rest) = IF 1 \in old THEN Cardinality(old) - 1 ELSE Cardinality(old)
      BY <1>2, FS_RemoveElement
    <2> QED
      BY <1>2, <2>1, <2>2 DEF Mark
  <1>6. Cardinality(new) <= Cardinality(rest)
    <2> HIDE DEF new, rest, shift
    <2> QED
      BY <1>4, <1>5, FS_Injection
  <1>7. Mark(Head(q), S) \in 0..1
    BY MarkTyped
  <1> HIDE DEF old, new, rest, shift
  <1> QED
    BY <1>2, <1>3, <1>5, <1>6, <1>7

LEMMA HeldTyped ==
  ASSUME NEW s, IsFiniteSet(s), NEW S
  PROVE  IsFiniteSet(s \cap S) /\ Held(s, S) \in Nat
  <1>1. IsFiniteSet(s \cap S)
    BY FS_Subset
  <1> QED
    BY <1>1, FS_CardinalityType DEF Held

LEMMA HeldOne ==
  ASSUME NEW x, NEW S
  PROVE  Held({}, S) = 0 /\ Held({x}, S) = Mark(x, S)
  <1>1. Cardinality({}) = 0
    BY FS_EmptySet
  <1>2. Cardinality({x}) = 1
    BY FS_Singleton
  <1>3. {} \cap S = {} /\ {x} \cap S = IF x \in S THEN {x} ELSE {}
    OBVIOUS
  <1> QED
    BY <1>1, <1>2, <1>3 DEF Held, Mark

LEMMA HeldAdd ==
  ASSUME NEW s, IsFiniteSet(s), NEW x, NEW S
  PROVE  Held(s \cup {x}, S) <= Held(s, S) + Mark(x, S)
  <1>1. IsFiniteSet(s \cap S) /\ Held(s, S) = Cardinality(s \cap S) /\ Held(s, S) \in Nat
    BY HeldTyped DEF Held
  <1>2. CASE x \in S
    <2>1. (s \cup {x}) \cap S = (s \cap S) \cup {x}
      BY <1>2
    <2>2. Cardinality((s \cap S) \cup {x}) <= Cardinality(s \cap S) + 1
      <3>1. Cardinality((s \cap S) \cup {x}) =
              IF x \in s \cap S THEN Cardinality(s \cap S) ELSE Cardinality(s \cap S) + 1
        BY <1>1, FS_AddElement
      <3> QED
        BY <1>1, <3>1
    <2>3. Held(s \cup {x}, S) = Cardinality((s \cap S) \cup {x})
      BY <2>1, Zenon DEF Held
    <2> QED
      BY <1>1, <1>2, <2>2, <2>3 DEF Mark
  <1>3. CASE x \notin S
    <2>1. (s \cup {x}) \cap S = s \cap S
      BY <1>3
    <2>2. Held(s \cup {x}, S) = Held(s, S)
      BY <2>1, Zenon DEF Held
    <2> QED
      BY <1>1, <1>3, <2>2 DEF Mark
  <1> QED
    BY <1>2, <1>3

LEMMA HeldRemove ==
  ASSUME NEW s, IsFiniteSet(s), NEW x \in s, NEW S
  PROVE  IsFiniteSet(s \ {x}) /\ Held(s \ {x}, S) = Held(s, S) - Mark(x, S)
  <1>1. IsFiniteSet(s \cap S) /\ Held(s, S) = Cardinality(s \cap S) /\ Held(s, S) \in Nat
    BY HeldTyped DEF Held
  <1>2. (s \ {x}) \cap S = (s \cap S) \ {x}
    OBVIOUS
  <1>3. Held(s \ {x}, S) = Cardinality((s \cap S) \ {x})
    BY <1>2, Zenon DEF Held
  <1>4. x \in s \cap S <=> x \in S
    OBVIOUS
  <1>5. Cardinality((s \cap S) \ {x}) =
          IF x \in s \cap S THEN Cardinality(s \cap S) - 1 ELSE Cardinality(s \cap S)
    BY <1>1, FS_RemoveElement
  <1>6. IsFiniteSet(s \ {x})
    BY FS_RemoveElement
  <1> QED
    BY <1>1, <1>3, <1>4, <1>5, <1>6 DEF Mark

LEMMA HeldSwap ==
  ASSUME NEW s, IsFiniteSet(s), NEW x \in s, NEW y, NEW S
  PROVE  Held((s \ {x}) \cup {y}, S) <= Held(s, S) - Mark(x, S) + Mark(y, S)
  <1>1. IsFiniteSet(s \ {x}) /\ Held(s \ {x}, S) = Held(s, S) - Mark(x, S)
    BY HeldRemove
  <1>2. Held((s \ {x}) \cup {y}, S) <= Held(s \ {x}, S) + Mark(y, S)
    BY <1>1, HeldAdd
  <1> QED
    BY <1>1, <1>2

-----------------------------------------------------------------------------
(* One answer                                                              *)

AnswersTo(r) == {f \in Frame : f.kind = "reply" /\ f.req = r}

\* A task that has answered only waits to be reaped.
OwesTo(r) == {t \in Task : t.req = r /\ t.state # "over"}

\* A request that has been read is in one place: held back, in the lane, at a
\* task, or answered by a frame that is on its way or has been read.
Count(r) ==
    answered[r] + Among(outbound, AnswersTo(r)) + Among(replies, AnswersTo(r))
      + Held(writing, AnswersTo(r)) + Among(lane, {r}) + Held(working, OwesTo(r))
      + Held(readers, OwesTo(r)) + Mark(waiting, {r})

CountInv ==
    \A r \in Request : Count(r) <= 1 /\ (Count(r) >= 1 => HasArrived(r))

LEMMA CountSum ==
  ASSUME NEW r
  PROVE  /\ Count(r) =
              answered[r] + Among(outbound, AnswersTo(r)) + Among(replies, AnswersTo(r))
                + Held(writing, AnswersTo(r)) + Among(lane, {r}) + Held(working, OwesTo(r))
                + Held(readers, OwesTo(r)) + Mark(waiting, {r})
         /\ Count(r)' =
              answered'[r] + Among(outbound', AnswersTo(r)) + Among(replies', AnswersTo(r))
                + Held(writing', AnswersTo(r)) + Among(lane', {r}) + Held(working', OwesTo(r))
                + Held(readers', OwesTo(r)) + Mark(waiting', {r})
  BY DEF Count, Among, Held, Mark, AnswersTo, OwesTo

LEMMA CountTyped ==
  ASSUME TypeInv, NEW r \in Request
  PROVE  /\ answered[r] \in Nat
         /\ Among(outbound, AnswersTo(r)) \in Nat
         /\ Among(replies, AnswersTo(r)) \in Nat
         /\ Held(writing, AnswersTo(r)) \in Nat
         /\ Among(lane, {r}) \in Nat
         /\ Held(working, OwesTo(r)) \in Nat
         /\ Held(readers, OwesTo(r)) \in Nat
         /\ Mark(waiting, {r}) \in 0..1
  <1>1. /\ answered[r] \in Nat
        /\ outbound \in Seq(FreshFrame) /\ replies \in Seq(FreshFrame) /\ lane \in Seq(Request)
        /\ IsFiniteSet(writing) /\ IsFiniteSet(working) /\ IsFiniteSet(readers)
    BY DEF TypeInv, Short, Few
  <1> QED
    BY <1>1, AmongTyped, HeldTyped, MarkTyped

\* Names for the summands.
Shares(r, a, b, c, d, e, f, g, h) ==
    /\ a = answered[r] /\ b = Among(outbound, AnswersTo(r))
    /\ c = Among(replies, AnswersTo(r)) /\ d = Held(writing, AnswersTo(r))
    /\ e = Among(lane, {r}) /\ f = Held(working, OwesTo(r))
    /\ g = Held(readers, OwesTo(r)) /\ h = Mark(waiting, {r})

LEMMA CountNames ==
  ASSUME TypeInv, NEW r \in Request
  PROVE  \E a, b, c, d, e, f, g, h \in Nat :
           /\ Shares(r, a, b, c, d, e, f, g, h)
           /\ Count(r) = a + b + c + d + e + f + g + h
  <1>1. /\ answered[r] \in Nat /\ Among(outbound, AnswersTo(r)) \in Nat
        /\ Among(replies, AnswersTo(r)) \in Nat /\ Held(writing, AnswersTo(r)) \in Nat
        /\ Among(lane, {r}) \in Nat /\ Held(working, OwesTo(r)) \in Nat
        /\ Held(readers, OwesTo(r)) \in Nat /\ Mark(waiting, {r}) \in Nat
    <2>1. Mark(waiting, {r}) \in Nat
      BY CountTyped
    <2> QED
      BY <2>1, CountTyped
  <1>2. Shares(r, answered[r], Among(outbound, AnswersTo(r)), Among(replies, AnswersTo(r)),
               Held(writing, AnswersTo(r)), Among(lane, {r}), Held(working, OwesTo(r)),
               Held(readers, OwesTo(r)), Mark(waiting, {r}))
    BY DEF Shares
  <1>3. Count(r) =
          answered[r] + Among(outbound, AnswersTo(r)) + Among(replies, AnswersTo(r))
            + Held(writing, AnswersTo(r)) + Among(lane, {r}) + Held(working, OwesTo(r))
            + Held(readers, OwesTo(r)) + Mark(waiting, {r})
    BY CountSum
  <1>4. ASSUME NEW n1 \in Nat, NEW n2 \in Nat, NEW n3 \in Nat, NEW n4 \in Nat,
               NEW n5 \in Nat, NEW n6 \in Nat, NEW n7 \in Nat, NEW n8 \in Nat,
               Shares(r, n1, n2, n3, n4, n5, n6, n7, n8),
               Count(r) = n1 + n2 + n3 + n4 + n5 + n6 + n7 + n8
        PROVE  \E a, b, c, d, e, f, g, h \in Nat :
                 /\ Shares(r, a, b, c, d, e, f, g, h)
                 /\ Count(r) = a + b + c + d + e + f + g + h
    <2> WITNESS n1 \in Nat, n2 \in Nat, n3 \in Nat, n4 \in Nat,
                n5 \in Nat, n6 \in Nat, n7 \in Nat, n8 \in Nat
    <2> QED
      BY Zenon, <1>4
  <1> QED
    BY Zenon, <1>1, <1>2, <1>3, <1>4

\* The steps that move no request and no frame.
LEMMA CountUntouched ==
  ASSUME NEW r, UNCHANGED <<answered, outbound, replies, writing, lane, working, readers, waiting>>
  PROVE  Count(r)' = Count(r)
  BY CountSum

LEMMA ReceiveCount ==
  ASSUME TypeInv, Receive, NEW r \in Request
  PROVE  Count(r)' <= Count(r)
  <1> DEFINE reply == Head(outbound)
  <1>1. /\ outbound # <<>> /\ outbound' = Tail(outbound)
        /\ answered' = IF reply.kind = "reply" THEN [answered EXCEPT ![reply.req] = @ + 1] ELSE answered
        /\ UNCHANGED <<replies, writing, lane, working, readers, waiting>>
    BY DEF Receive, loopVars, taskVars
  <1>2. /\ outbound \in Seq(FreshFrame) /\ reply \in FreshFrame /\ outbound' \in Seq(FreshFrame)
        /\ answered \in [Request -> Nat]
    BY <1>1 DEF TypeInv, Short
  <1>3. answered'[r] = answered[r] + Mark(reply, AnswersTo(r))
    <2>1. reply \in Frame /\ (reply.kind = "reply" => reply.req \in Request)
      BY <1>2 DEF FreshFrame, Frame
    <2>2. reply \in AnswersTo(r) <=> reply.kind = "reply" /\ reply.req = r
      BY <2>1 DEF AnswersTo
    <2> HIDE DEF reply
    <2>3. answered[r] \in Nat
      BY <1>2
    <2>4. CASE reply.kind = "reply" /\ reply.req = r
      BY <1>1, <1>2, <2>2, <2>4, MarkTyped
    <2>5. CASE reply.kind = "reply" /\ reply.req # r
      BY <1>1, <1>2, <2>2, <2>3, <2>5, MarkTyped
    <2>6. CASE reply.kind # "reply"
      BY <1>1, <1>2, <2>2, <2>3, <2>6, MarkTyped
    <2> QED
      BY <2>4, <2>5, <2>6
  <1>4. Among(outbound', AnswersTo(r)) + Mark(reply, AnswersTo(r)) <= Among(outbound, AnswersTo(r))
    BY <1>1, <1>2, AmongTail
  <1>5. Among(outbound', AnswersTo(r)) \in Nat /\ Mark(reply, AnswersTo(r)) \in 0..1
    BY <1>2, AmongTyped, MarkTyped
  <1> HIDE DEF reply
  <1>6. PICK a, b, c, d, e, f, g, h \in Nat :
           /\ Shares(r, a, b, c, d, e, f, g, h)
           /\ Count(r) = a + b + c + d + e + f + g + h
    BY CountNames
  <1>7. PICK m \in 0..1 : m = Mark(reply, AnswersTo(r))
    BY <1>5
  <1>8. PICK n \in Nat : n = Among(outbound', AnswersTo(r))
    BY <1>5
  <1>9. Count(r)' = (a + m) + n + c + d + e + f + g + h /\ n + m <= b
    BY <1>1, <1>3, <1>4, <1>6, <1>7, <1>8, CountSum DEF Shares
  <1> QED
    BY <1>6, <1>9

LEMMA CloseCount ==
  ASSUME TypeInv, Close, NEW r \in Request
  PROVE  Count(r)' <= Count(r)
  <1>1. /\ waiting' = Nothing /\ writing' = {} /\ lane' = <<>> /\ working' = {} /\ readers' = {}
        /\ replies' = <<>> /\ UNCHANGED <<answered, outbound>>
    BY DEF Close, clientVars, socketVars
  <1>2. Among(<<>>, AnswersTo(r)) = 0 /\ Among(<<>>, {r}) = 0
    BY AmongEmpty
  <1>3. Held({}, AnswersTo(r)) = 0 /\ Held({}, OwesTo(r)) = 0
    BY HeldOne
  <1>4. Mark(Nothing, {r}) = 0
    BY MarkTyped
  <1>5. PICK a, b, c, d, e, f, g, h \in Nat :
           /\ Shares(r, a, b, c, d, e, f, g, h)
           /\ Count(r) = a + b + c + d + e + f + g + h
    BY CountNames
  <1>6. Count(r)' = a + b + 0 + 0 + 0 + 0 + 0 + 0
    BY <1>1, <1>2, <1>3, <1>4, <1>5, CountSum DEF Shares
  <1> QED
    BY <1>5, <1>6

LEMMA ForwardEventCount ==
  ASSUME TypeInv, ForwardEvent, NEW r \in Request
  PROVE  Count(r)' <= Count(r)
  <1>1. UNCHANGED <<answered, outbound, replies, lane, working, readers, waiting>>
    BY DEF ForwardEvent, clientVars, socketVars, taskVars
  <1>2. PICK cur : cur = writing'
    OBVIOUS
  <1>3. Held(cur, AnswersTo(r)) = 0
    <2>1. cur \in {{Resync}, {Event(Head(backlog))}, {}}
      BY <1>2 DEF ForwardEvent
    <2>2. Resync \notin AnswersTo(r) /\ Event(Head(backlog)) \notin AnswersTo(r)
      BY DEF Resync, Event, AnswersTo
    <2>3. /\ Held({}, AnswersTo(r)) = 0
          /\ Held({Resync}, AnswersTo(r)) = Mark(Resync, AnswersTo(r))
          /\ Held({Event(Head(backlog))}, AnswersTo(r)) = Mark(Event(Head(backlog)), AnswersTo(r))
      BY HeldOne
    <2>4. Mark(Resync, AnswersTo(r)) = 0 /\ Mark(Event(Head(backlog)), AnswersTo(r)) = 0
      BY <2>2, MarkTyped
    <2> QED
      BY <2>1, <2>3, <2>4
  <1>4. PICK a, b, c, d, e, f, g, h \in Nat :
           /\ Shares(r, a, b, c, d, e, f, g, h)
           /\ Count(r) = a + b + c + d + e + f + g + h
    BY CountNames
  <1>5. Count(r)' = a + b + c + 0 + e + f + g + h
    BY <1>1, <1>2, <1>3, <1>4, CountSum DEF Shares
  <1> QED
    BY <1>4, <1>5

LEMMA WriteReplyCount ==
  ASSUME TypeInv, WriteReply, NEW r \in Request
  PROVE  Count(r)' <= Count(r)
  <1>1. /\ replies # <<>> /\ writing = {} /\ writing' = {Head(replies)} /\ replies' = Tail(replies)
        /\ UNCHANGED <<answered, outbound, lane, working, readers, waiting>>
    BY DEF WriteReply, Selects, clientVars, socketVars
  <1>2. replies \in Seq(FreshFrame) /\ replies' \in Seq(FreshFrame)
    BY <1>1 DEF TypeInv, Short
  <1>3. Among(replies', AnswersTo(r)) + Mark(Head(replies), AnswersTo(r))
          <= Among(replies, AnswersTo(r))
    BY <1>1, <1>2, AmongTail
  <1>4. Held(writing', AnswersTo(r)) = Mark(Head(replies), AnswersTo(r))
    BY <1>1, HeldOne
  <1>5. Among(replies', AnswersTo(r)) \in Nat /\ Mark(Head(replies), AnswersTo(r)) \in 0..1
    BY <1>2, AmongTyped, MarkTyped
  <1>6. PICK a, b, c, d, e, f, g, h \in Nat :
           /\ Shares(r, a, b, c, d, e, f, g, h)
           /\ Count(r) = a + b + c + d + e + f + g + h
    BY CountNames
  <1>7. PICK m \in 0..1 : m = Mark(Head(replies), AnswersTo(r))
    BY <1>5
  <1>8. PICK n \in Nat : n = Among(replies', AnswersTo(r))
    BY <1>5
  <1>9. Count(r)' = a + b + n + m + e + f + g + h /\ n + m <= c
    BY <1>1, <1>3, <1>4, <1>6, <1>7, <1>8, CountSum DEF Shares
  <1> QED
    BY <1>6, <1>9

LEMMA ReapCount ==
  ASSUME TypeInv, Reap, NEW r \in Request
  PROVE  Count(r)' <= Count(r)
  <1>1. UNCHANGED <<answered, outbound, replies, writing, lane, working, waiting>>
    BY DEF Reap, clientVars, socketVars
  <1>2. PICK t \in readers : readers' = readers \ {t}
    BY DEF Reap
  <1>3. IsFiniteSet(readers)
    BY DEF TypeInv, Few
  <1>4. Held(readers', OwesTo(r)) = Held(readers, OwesTo(r)) - Mark(t, OwesTo(r))
    BY <1>2, <1>3, HeldRemove
  <1>5. Mark(t, OwesTo(r)) \in 0..1
    BY MarkTyped
  <1>6. PICK a, b, c, d, e, f, g, h \in Nat :
           /\ Shares(r, a, b, c, d, e, f, g, h)
           /\ Count(r) = a + b + c + d + e + f + g + h
    BY CountNames
  <1>7. PICK m \in 0..1 : m = Mark(t, OwesTo(r))
    BY <1>5
  <1>8. Count(r)' = a + b + c + d + e + f + (g - m) + h
    BY <1>1, <1>4, <1>6, <1>7, CountSum DEF Shares
  <1> QED
    BY <1>6, <1>8

LEMMA HandOverCount ==
  ASSUME TypeInv, HandOver, NEW r \in Request
  PROVE  Count(r)' <= Count(r)
  <1>1. /\ lane' = Append(lane, waiting) /\ waiting' = Nothing
        /\ UNCHANGED <<answered, outbound, replies, writing, working, readers>>
    BY DEF HandOver, clientVars, socketVars
  <1>2. lane \in Seq(Request)
    BY DEF TypeInv, Short
  <1>3. Among(lane', {r}) = Among(lane, {r}) + Mark(waiting, {r})
    BY <1>1, <1>2, AmongAppend
  <1>4. Mark(waiting', {r}) = 0
    BY <1>1, MarkTyped
  <1>5. PICK a, b, c, d, e, f, g, h \in Nat :
           /\ Shares(r, a, b, c, d, e, f, g, h)
           /\ Count(r) = a + b + c + d + e + f + g + h
    BY CountNames
  <1>6. Count(r)' = a + b + c + d + (e + h) + f + g + 0
    BY <1>1, <1>3, <1>4, <1>5, CountSum DEF Shares
  <1> QED
    BY <1>5, <1>6

LEMMA FinishWriteCount ==
  ASSUME TypeInv, FinishWrite, NEW r \in Request
  PROVE  Count(r)' <= Count(r)
  <1>1. /\ writing' = {} /\ UNCHANGED <<answered, replies, lane, working, readers, waiting>>
    BY DEF FinishWrite, clientVars, taskVars
  <1>2. PICK frame \in writing : outbound' = Append(outbound, frame)
    BY DEF FinishWrite
  <1>3. outbound \in Seq(FreshFrame) /\ IsFiniteSet(writing)
    BY DEF TypeInv, Short, Few
  <1>4. Among(outbound', AnswersTo(r)) = Among(outbound, AnswersTo(r)) + Mark(frame, AnswersTo(r))
    BY <1>2, <1>3, AmongAppend
  <1>5. /\ IsFiniteSet(writing \ {frame})
        /\ Held(writing \ {frame}, AnswersTo(r)) = Held(writing, AnswersTo(r)) - Mark(frame, AnswersTo(r))
    BY <1>2, <1>3, HeldRemove
  <1>6. Held(writing \ {frame}, AnswersTo(r)) \in Nat
    BY <1>5, HeldTyped
  <1>7. Held(writing', AnswersTo(r)) = 0
    BY <1>1, HeldOne
  <1>8. Mark(frame, AnswersTo(r)) \in 0..1
    BY MarkTyped
  <1>9. PICK a, b, c, d, e, f, g, h \in Nat :
           /\ Shares(r, a, b, c, d, e, f, g, h)
           /\ Count(r) = a + b + c + d + e + f + g + h
    BY CountNames
  <1>10. PICK m \in 0..1 : m = Mark(frame, AnswersTo(r))
    BY <1>8
  <1>11. Count(r)' = a + (b + m) + c + 0 + e + f + g + h /\ d - m \in Nat
    BY <1>1, <1>4, <1>5, <1>6, <1>7, <1>9, <1>10, CountSum DEF Shares
  <1> QED
    BY <1>9, <1>11


LEMMA HeldMember ==
  ASSUME NEW s, IsFiniteSet(s), NEW x \in s, NEW S
  PROVE  Mark(x, S) <= Held(s, S)
  <1>1. IsFiniteSet(s \ {x}) /\ Held(s \ {x}, S) = Held(s, S) - Mark(x, S)
    BY HeldRemove
  <1>2. Held(s \ {x}, S) \in Nat /\ Held(s, S) \in Nat /\ Mark(x, S) \in 0..1
    BY <1>1, HeldTyped, MarkTyped
  <1> QED
    BY <1>1, <1>2

LEMMA MarkOwes ==
  ASSUME NEW t \in Task, NEW r
  PROVE  /\ t.state # "over" => Mark(t, OwesTo(r)) = Mark(t.req, {r})
         /\ t.state = "over" => Mark(t, OwesTo(r)) = 0
  BY DEF Mark, OwesTo

LEMMA MarkAnswers ==
  ASSUME TypeInv, NEW q \in Request, NEW at \in Revisions, \A t \in Topic : at[t] <= revision[t],
         NEW r
  PROVE  Mark(Reply(q, at), AnswersTo(r)) = Mark(q, {r})
  <1>1. Reply(q, at) \in Frame /\ Reply(q, at).kind = "reply" /\ Reply(q, at).req = q
    BY ReplyTyped DEF FreshFrame
  <1> QED
    BY <1>1 DEF Mark, AnswersTo

LEMMA MarkUnread ==
  ASSUME TypeInv, NEW q \in Request, NEW r
  PROVE  Mark(Reply(q, Unread), AnswersTo(r)) = Mark(q, {r})
  <1>1. \A t \in Topic : Unread[t] <= revision[t]
    BY UnreadTyped DEF TypeInv, Revisions
  <1> QED
    BY <1>1, UnreadTyped, MarkAnswers

LEMMA TakeRequestCount ==
  ASSUME TypeInv, TakeRequest, NEW r \in Request
  PROVE  Count(r)' <= Count(r)
  <1>1. /\ lane # <<>> /\ working' = {Running(Head(lane))} /\ lane' = Tail(lane)
        /\ UNCHANGED <<answered, outbound, replies, writing, readers, waiting>>
    BY DEF TakeRequest, clientVars, socketVars, loopVars
  <1>2. lane \in Seq(Request) /\ lane' \in Seq(Request) /\ Head(lane) \in Request
    BY <1>1 DEF TypeInv, Short
  <1>3. Among(lane', {r}) + Mark(Head(lane), {r}) <= Among(lane, {r})
    BY <1>1, <1>2, AmongTail
  <1>4. Held(working', OwesTo(r)) = Mark(Head(lane), {r})
    <2>1. Held(working', OwesTo(r)) = Mark(Running(Head(lane)), OwesTo(r))
      BY <1>1, HeldOne
    <2>2. /\ Running(Head(lane)) \in Task /\ Running(Head(lane)).req = Head(lane)
          /\ Running(Head(lane)).state # "over"
      BY <1>2, RunningTyped
    <2> QED
      BY <2>1, <2>2, MarkOwes
  <1>5. PICK a, b, c, d, e, f, g, h \in Nat :
           /\ Shares(r, a, b, c, d, e, f, g, h)
           /\ Count(r) = a + b + c + d + e + f + g + h
    BY CountNames
  <1>6. PICK m \in 0..1 : m = Mark(Head(lane), {r})
    BY MarkTyped
  <1>7. PICK n \in Nat : n = Among(lane', {r})
    BY <1>2, AmongTyped
  <1>8. Count(r)' = a + b + c + d + n + m + g + h /\ n + m <= e
    BY <1>1, <1>3, <1>4, <1>5, <1>6, <1>7, CountSum DEF Shares
  <1> QED
    BY <1>5, <1>8

LEMMA CompleteRequestCount ==
  ASSUME TypeInv, NEW t \in working, CompleteRequest(t), NEW r \in Request
  PROVE  Count(r)' <= Count(r)
  <1> DEFINE u == [t EXCEPT !.state = "answering"]
  <1>1. /\ t.state = "running" /\ working' = {u}
        /\ UNCHANGED <<answered, outbound, replies, writing, lane, readers, waiting>>
    BY DEF CompleteRequest, clientVars, socketVars, loopVars
  <1>2. t \in Task /\ IsFiniteSet(working)
    BY DEF TypeInv, Few
  <1>3. u \in Task /\ u.req = t.req /\ u.state = "answering"
    BY <1>2, StateTyped
  <1> HIDE DEF u
  <1>4. Held(working', OwesTo(r)) = Mark(t, OwesTo(r))
    <2>1. Held(working', OwesTo(r)) = Mark(u, OwesTo(r))
      BY <1>1, HeldOne
    <2>2. Mark(u, OwesTo(r)) = Mark(t.req, {r}) /\ Mark(t, OwesTo(r)) = Mark(t.req, {r})
      BY <1>1, <1>2, <1>3, MarkOwes
    <2> QED
      BY <2>1, <2>2
  <1>5. Mark(t, OwesTo(r)) <= Held(working, OwesTo(r))
    BY <1>2, HeldMember
  <1>6. PICK a, b, c, d, e, f, g, h \in Nat :
           /\ Shares(r, a, b, c, d, e, f, g, h)
           /\ Count(r) = a + b + c + d + e + f + g + h
    BY CountNames
  <1>7. PICK m \in 0..1 : m = Mark(t, OwesTo(r))
    BY MarkTyped
  <1>8. Count(r)' = a + b + c + d + e + m + g + h /\ m <= f
    BY <1>1, <1>4, <1>5, <1>6, <1>7, CountSum DEF Shares
  <1> QED
    BY <1>6, <1>8

LEMMA AnswerRequestCount ==
  ASSUME TypeInv, NEW t \in working, AnswerRequest(t), NEW r \in Request
  PROVE  Count(r)' <= Count(r)
  <1>1. /\ t.state = "answering" /\ replies' = Append(replies, Reply(t.req, Unread)) /\ working' = {}
        /\ UNCHANGED <<answered, outbound, writing, lane, readers, waiting>>
    BY DEF AnswerRequest, clientVars, socketVars, loopVars
  <1>2. t \in Task /\ t.req \in Request /\ IsFiniteSet(working) /\ replies \in Seq(FreshFrame)
    BY DEF TypeInv, Few, Short, Task
  <1>3. Among(replies', AnswersTo(r)) = Among(replies, AnswersTo(r)) + Mark(t.req, {r})
    <2>1. Among(replies', AnswersTo(r)) =
            Among(replies, AnswersTo(r)) + Mark(Reply(t.req, Unread), AnswersTo(r))
      BY <1>1, <1>2, AmongAppend
    <2> QED
      BY <1>2, <2>1, MarkUnread
  <1>4. Mark(t.req, {r}) <= Held(working, OwesTo(r))
    <2>1. Mark(t, OwesTo(r)) = Mark(t.req, {r})
      BY <1>1, <1>2, MarkOwes
    <2> QED
      BY <1>2, <2>1, HeldMember
  <1>5. Held(working', OwesTo(r)) = 0
    BY <1>1, HeldOne
  <1>6. PICK a, b, c, d, e, f, g, h \in Nat :
           /\ Shares(r, a, b, c, d, e, f, g, h)
           /\ Count(r) = a + b + c + d + e + f + g + h
    BY CountNames
  <1>7. PICK m \in 0..1 : m = Mark(t.req, {r})
    BY MarkTyped
  <1>8. Count(r)' = a + b + (c + m) + d + e + 0 + g + h /\ m <= f
    BY <1>1, <1>3, <1>4, <1>5, <1>6, <1>7, CountSum DEF Shares
  <1> QED
    BY <1>6, <1>8

LEMMA CompleteReadCount ==
  ASSUME TypeInv, NEW t \in readers, CompleteRead(t), NEW r \in Request
  PROVE  Count(r)' <= Count(r)
  <1> DEFINE u == [t EXCEPT !.state = "answering", !.at = revision]
  <1>1. /\ t.state = "running" /\ readers' = (readers \ {t}) \cup {u}
        /\ UNCHANGED <<answered, outbound, replies, writing, lane, working, waiting>>
    BY DEF CompleteRead, clientVars, socketVars, loopVars
  <1>2. t \in Task /\ IsFiniteSet(readers) /\ revision \in Revisions
    BY DEF TypeInv, Few, FreshTask
  <1>3. u \in Task /\ u.req = t.req /\ u.state = "answering"
    BY <1>2 DEF Task
  <1> HIDE DEF u
  <1>4. Mark(u, OwesTo(r)) = Mark(t.req, {r}) /\ Mark(t, OwesTo(r)) = Mark(t.req, {r})
    BY <1>1, <1>2, <1>3, MarkOwes
  <1>5. /\ Held(readers', OwesTo(r)) <= Held(readers, OwesTo(r)) - Mark(t, OwesTo(r)) + Mark(u, OwesTo(r))
        /\ Held(readers', OwesTo(r)) \in Nat
    <2>1. IsFiniteSet(readers')
      BY <1>1, <1>2, FS_RemoveElement, FS_AddElement
    <2> QED
      BY <1>1, <1>2, <2>1, HeldSwap, HeldTyped
  <1>6. PICK a, b, c, d, e, f, g, h \in Nat :
           /\ Shares(r, a, b, c, d, e, f, g, h)
           /\ Count(r) = a + b + c + d + e + f + g + h
    BY CountNames
  <1>7. PICK m \in 0..1 : m = Mark(t.req, {r})
    BY MarkTyped
  <1>8. PICK n \in Nat : n = Held(readers', OwesTo(r))
    BY <1>5
  <1>9. Count(r)' = a + b + c + d + e + f + n + h /\ n <= g - m + m
    BY <1>1, <1>4, <1>5, <1>6, <1>7, <1>8, CountSum DEF Shares
  <1> QED
    BY <1>6, <1>9

LEMMA AnswerReadCount ==
  ASSUME TypeInv, NEW t \in readers, AnswerRead(t), NEW r \in Request
  PROVE  Count(r)' <= Count(r)
  <1> DEFINE u == [t EXCEPT !.state = "over"]
  <1>1. /\ t.state = "answering" /\ replies' = Append(replies, Reply(t.req, t.at))
        /\ readers' = (readers \ {t}) \cup {u}
        /\ UNCHANGED <<answered, outbound, writing, lane, working, waiting>>
    BY DEF AnswerRead, clientVars, socketVars, loopVars
  <1>2. /\ t \in Task /\ t.req \in Request /\ IsFiniteSet(readers) /\ replies \in Seq(FreshFrame)
        /\ t.at \in Revisions /\ \A p \in Topic : t.at[p] <= revision[p]
    BY DEF TypeInv, Few, Short, FreshTask, Task
  <1>3. u \in Task /\ u.state = "over"
    BY <1>2, StateTyped
  <1> HIDE DEF u
  <1>4. Mark(u, OwesTo(r)) = 0 /\ Mark(t, OwesTo(r)) = Mark(t.req, {r})
    BY <1>1, <1>2, <1>3, MarkOwes
  <1>5. /\ Held(readers', OwesTo(r)) <= Held(readers, OwesTo(r)) - Mark(t, OwesTo(r)) + Mark(u, OwesTo(r))
        /\ Held(readers', OwesTo(r)) \in Nat
    <2>1. IsFiniteSet(readers')
      BY <1>1, <1>2, FS_RemoveElement, FS_AddElement
    <2> QED
      BY <1>1, <1>2, <2>1, HeldSwap, HeldTyped
  <1>6. Among(replies', AnswersTo(r)) = Among(replies, AnswersTo(r)) + Mark(t.req, {r})
    <2>1. Among(replies', AnswersTo(r)) =
            Among(replies, AnswersTo(r)) + Mark(Reply(t.req, t.at), AnswersTo(r))
      BY <1>1, <1>2, AmongAppend
    <2> QED
      BY <1>2, <2>1, MarkAnswers
  <1>7. PICK a, b, c, d, e, f, g, h \in Nat :
           /\ Shares(r, a, b, c, d, e, f, g, h)
           /\ Count(r) = a + b + c + d + e + f + g + h
    BY CountNames
  <1>8. PICK m \in 0..1 : m = Mark(t.req, {r})
    BY MarkTyped
  <1>9. PICK n \in Nat : n = Held(readers', OwesTo(r))
    BY <1>5
  <1>10. Count(r)' = a + b + (c + m) + d + e + f + n + h /\ n <= g - m + 0
    BY <1>1, <1>4, <1>5, <1>6, <1>7, <1>8, <1>9, CountSum DEF Shares
  <1> QED
    BY <1>7, <1>10

\* Only the request whose last piece was read is counted anew.
LEMMA ReadCount ==
  ASSUME TypeInv, Read, NEW r \in Request
  PROVE  \/ Count(r)' <= Count(r)
         \/ /\ Head(inbound).part \in {"whole", "tail"} /\ r = Head(inbound).req
            /\ Count(r)' = Count(r) + 1
  <1>1. PICK p : p = Head(inbound)
    OBVIOUS
  <1>2. /\ writing = {} /\ waiting = Nothing
        /\ UNCHANGED <<answered, outbound, replies, lane>>
        /\ \/ UNCHANGED <<writing, waiting, working, readers>>
           \/ p.part \in {"whole", "tail"} /\ Dispatch(p.req)
           \/ writing' = {ParseError} /\ UNCHANGED <<waiting, working, readers>>
    BY <1>1 DEF Read, MayRead, Selects, clientVars
  <1>3. p.req \in Request
    <2>1. Head(inbound) \in Piece
      BY ReadFront DEF TypeInv, Read, clientVars
    <2> QED
      BY <1>1, <2>1 DEF Piece
  <1>4. PICK q \in Request : q = p.req
    BY <1>3
  <1>5. PICK a, b, c, d, e, f, g, h \in Nat :
           /\ Shares(r, a, b, c, d, e, f, g, h)
           /\ Count(r) = a + b + c + d + e + f + g + h
    BY CountNames
  <1>6. PICK m \in 0..1 : m = Mark(q, {r})
    BY MarkTyped
  <1>7. Held({}, AnswersTo(r)) = 0 /\ Mark(Nothing, {r}) = 0
    BY HeldOne, MarkTyped
  <1>8. d = 0 /\ h = 0
    BY <1>2, <1>5, <1>7 DEF Shares
  <1>9. CASE UNCHANGED <<writing, waiting, working, readers>>
    BY <1>2, <1>5, <1>9, CountUntouched
  <1>10. CASE writing' = {ParseError} /\ UNCHANGED <<waiting, working, readers>>
    <2>1. Held(writing', AnswersTo(r)) = 0
      <3>1. ParseError \notin AnswersTo(r)
        BY DEF ParseError, AnswersTo
      <3> QED
        BY <1>10, <3>1, HeldOne, MarkTyped
    <2>2. Count(r)' = a + b + c + 0 + e + f + g + h
      BY <1>2, <1>5, <1>10, <2>1, CountSum DEF Shares
    <2> QED
      BY <1>5, <2>2
  <1>11. CASE p.part \in {"whole", "tail"} /\ Dispatch(p.req)
    <2>1. \/ writing' = {Reply(q, Unread)} /\ UNCHANGED <<waiting, working, readers>>
          \/ readers' = readers \cup {Running(q)} /\ UNCHANGED <<writing, waiting, working>>
          \/ waiting' = q /\ UNCHANGED <<writing, working, readers>>
      BY <1>4, <1>11 DEF Dispatch
    <2>2. CASE writing' = {Reply(q, Unread)} /\ UNCHANGED <<waiting, working, readers>>
      <3>1. Held(writing', AnswersTo(r)) = m
        BY <1>6, <2>2, HeldOne, MarkUnread
      <3>2. Count(r)' = a + b + c + m + e + f + g + h
        BY <1>2, <1>5, <2>2, <3>1, CountSum DEF Shares
      <3>3. Count(r)' = Count(r) + m
        BY <1>5, <1>8, <3>2
      <3> QED
        BY <1>1, <1>4, <1>5, <1>6, <1>11, <3>3 DEF Mark
    <2>3. CASE readers' = readers \cup {Running(q)} /\ UNCHANGED <<writing, waiting, working>>
      <3>1. IsFiniteSet(readers) /\ IsFiniteSet(readers')
        BY <2>3, FS_AddElement DEF TypeInv, Few
      <3>2. Mark(Running(q), OwesTo(r)) = m
        <4>1. /\ Running(q) \in Task /\ Running(q).req = q /\ Running(q).state # "over"
          BY RunningTyped
        <4> QED
          BY <1>6, <4>1, MarkOwes
      <3>3. Held(readers', OwesTo(r)) <= Held(readers, OwesTo(r)) + m
        BY <2>3, <3>1, <3>2, HeldAdd
      <3>4. PICK n \in Nat : n = Held(readers', OwesTo(r))
        BY <3>1, HeldTyped
      <3>5. Count(r)' = a + b + c + d + e + f + n + h /\ n <= g + m
        BY <1>2, <1>5, <2>3, <3>3, <3>4, CountSum DEF Shares
      <3>6. Count(r)' <= Count(r) + m /\ Count(r)' \in Nat /\ Count(r) \in Nat
        BY <1>5, <3>5
      <3>7. m = 0 \/ (m = 1 /\ r = q)
        BY <1>6 DEF Mark
      <3>8. Count(r)' <= Count(r) \/ (r = q /\ Count(r)' = Count(r) + 1)
        BY <3>6, <3>7
      <3> QED
        BY <1>1, <1>4, <1>11, <3>8
    <2>4. CASE waiting' = q /\ UNCHANGED <<writing, working, readers>>
      <3>1. Count(r)' = a + b + c + d + e + f + g + m
        BY <1>2, <1>5, <1>6, <2>4, CountSum DEF Shares
      <3>2. Count(r)' = Count(r) + m
        BY <1>5, <1>8, <3>1
      <3> QED
        BY <1>1, <1>4, <1>5, <1>6, <1>11, <3>2 DEF Mark
    <2> QED
      BY <2>1, <2>2, <2>3, <2>4
  <1> QED
    BY <1>2, <1>9, <1>10, <1>11

CountsNat == \A r \in Request : Count(r) \in Nat

LEMMA CountNat == TypeInv => CountsNat
  BY CountNames DEF CountsNat

LEMMA OtherCount ==
  ASSUME TypeInv, [Next]_vars, ~ Read, NEW r \in Request
  PROVE  Count(r)' <= Count(r)
  <1>1. Count(r)' = Count(r) => Count(r)' <= Count(r)
    BY CountNat DEF CountsNat
  <1>2. CASE Send \/ HangUp \/ Stop \/ (\E t \in Topic : Publish(t)) \/ UNCHANGED vars
    <2>1. UNCHANGED <<answered, outbound, replies, writing, lane, working, readers, waiting>>
      BY <1>2 DEF Send, HangUp, Stop, Publish, vars, clientVars, socketVars, loopVars, taskVars
    <2> QED
      BY <1>1, <2>1, CountUntouched
  <1>3. CASE NoticeShutdown \/ ReadEnd \/ FailWrite
    BY <1>3, CloseCount DEF NoticeShutdown, ReadEnd, FailWrite
  <1>4. CASE LoopStep
    BY <1>3, <1>4, ForwardEventCount, WriteReplyCount, ReapCount, HandOverCount, FinishWriteCount
       DEF LoopStep
  <1>5. CASE Calls \/ Answers
    BY <1>5, CompleteRequestCount, CompleteReadCount, TakeRequestCount, AnswerRequestCount,
       AnswerReadCount DEF Calls, Answers
  <1> QED
    BY <1>2, <1>4, <1>5, ReceiveCount DEF Next

\* What has been read stays read.
LEMMA ArrivedGrows ==
  ASSUME TypeInv, [Next]_vars
  PROVE  \A q : HasArrived(q) => HasArrived(q)'
  <1>1. script' = script /\ Arrived' \in {Arrived, Arrived + 1}
    <2>1. CASE Send
      BY <2>1, SendFront DEF TypeInv, Send
    <2>2. CASE Read
      BY <2>2, ReadFront DEF TypeInv, Read, clientVars
    <2>3. ASSUME UNCHANGED <<script, sent, inbound>>
          PROVE  Arrived' = Arrived /\ script' = script
      BY <2>3 DEF Arrived
    <2>4. CASE Receive \/ HangUp \/ Stop \/ (\E t \in Topic : Publish(t)) \/ UNCHANGED vars
      BY <2>3, <2>4 DEF Receive, HangUp, Stop, Publish, vars, clientVars, socketVars
    <2>5. CASE LoopStep /\ ~ Read
      BY <2>3, <2>5 DEF LoopStep, NoticeShutdown, ForwardEvent, WriteReply, Reap, HandOver, ReadEnd,
         FinishWrite, FailWrite, Close, clientVars, socketVars
    <2>6. CASE Calls \/ Answers
      BY <2>3, <2>6 DEF Calls, Answers, CompleteRequest, CompleteRead, TakeRequest, AnswerRequest,
         AnswerRead, clientVars, socketVars
    <2> QED
      BY <2>1, <2>2, <2>4, <2>5, <2>6 DEF Next
  <1>2. script \in Seq(Request) /\ Arrived \in Nat
    BY ScriptTyped DEF TypeInv
  <1>3. \A k \in DOMAIN script : PiecesTo(k) \in Nat /\ PiecesTo(k)' = PiecesTo(k)
    <2>1. \A k : PiecesTo(k)' = PiecesTo(k)
      BY <1>1 DEF PiecesTo
    <2>2. \A k \in DOMAIN script : k \in Nat
      BY <1>2
    <2> QED
      BY <2>1, <2>2, PiecesTyped
  <1>4. \A k \in DOMAIN script : PiecesTo(k) <= Arrived => PiecesTo(k)' <= Arrived'
    BY <1>1, <1>2, <1>3
  <1> QED
    BY <1>1, <1>4 DEF HasArrived

LEMMA CountInit == Init => CountInv
  <1> SUFFICES ASSUME Init, NEW r \in Request
               PROVE  Count(r) = 0
    BY DEF CountInv
  <1>1. /\ answered[r] = 0 /\ outbound = <<>> /\ replies = <<>> /\ lane = <<>>
        /\ writing = {} /\ working = {} /\ readers = {} /\ waiting = Nothing
    BY DEF Init
  <1>2. Among(<<>>, AnswersTo(r)) = 0 /\ Among(<<>>, {r}) = 0
    BY AmongEmpty
  <1>3. Held({}, AnswersTo(r)) = 0 /\ Held({}, OwesTo(r)) = 0 /\ Mark(Nothing, {r}) = 0
    BY HeldOne, MarkTyped
  <1>4. Count(r) = 0 + 0 + 0 + 0 + 0 + 0 + 0 + 0
    BY <1>1, <1>2, <1>3, CountSum
  <1> QED
    BY <1>4

LEMMA CountNext == TypeInv /\ TypeInv' /\ CountInv /\ [Next]_vars => CountInv'
  <1>0. (TypeInv => CountsNat)'
    BY CountNat, PTL
  <1> SUFFICES ASSUME TypeInv, TypeInv', CountInv, [Next]_vars, NEW r \in Request
               PROVE  Count(r)' <= 1 /\ (Count(r)' >= 1 => HasArrived(r)')
    BY DEF CountInv
  <1>1. Count(r) \in Nat /\ Count(r) <= 1 /\ (Count(r) >= 1 => HasArrived(r))
    BY CountNat DEF CountsNat, CountInv
  <1>2. Count(r)' \in Nat
    BY <1>0 DEF CountsNat
  <1>3. HasArrived(r) => HasArrived(r)'
    BY ArrivedGrows
  <1>4. CASE Count(r)' <= Count(r)
    BY <1>1, <1>2, <1>3, <1>4
  <1>5. CASE /\ Read /\ Head(inbound).part \in {"whole", "tail"} /\ r = Head(inbound).req
             /\ Count(r)' = Count(r) + 1
    <2>1. ~ HasArrived(r) /\ HasArrived(r)'
      BY <1>5, ReadArrives
    <2>2. Count(r) = 0
      BY <1>1, <2>1
    <2> QED
      BY <1>5, <2>1, <2>2
  <1> QED
    BY <1>4, <1>5, ReadCount, OtherCount

\* A request is never answered twice: one that has been read is in one place
\* only, from the request held back to the response in the socket, and no
\* piece is read again.
THEOREM AnsweredAtMostOnce == Spec => []AnsweredOnce
  <1>1. TypeInv /\ CountInv => AnsweredOnce
    <2> SUFFICES ASSUME TypeInv, CountInv, NEW r \in Request
                 PROVE  answered[r] + InQueue(outbound, r) + InQueue(replies, r)
                          + Cardinality({f \in writing : f.kind = "reply" /\ f.req = r}) <= 1
      BY DEF AnsweredOnce
    <2>1. /\ outbound \in Seq(FreshFrame) /\ replies \in Seq(FreshFrame) /\ writing \subseteq Frame
          /\ FreshFrame \subseteq Frame
      BY DEF TypeInv, Short, Few, FreshFrame
    <2>2. ASSUME NEW q \in Seq(Frame)
          PROVE  InQueue(q, r) = Among(q, AnswersTo(r))
      <3>1. {i \in DOMAIN q : q[i].kind = "reply" /\ q[i].req = r} =
              {i \in DOMAIN q : q[i] \in AnswersTo(r)}
        BY DEF AnswersTo
      <3> QED
        BY <3>1, Zenon DEF InQueue, Among
    <2>3. outbound \in Seq(Frame) /\ replies \in Seq(Frame)
      BY <2>1
    <2>4. Cardinality({f \in writing : f.kind = "reply" /\ f.req = r}) = Held(writing, AnswersTo(r))
      <3>1. {f \in writing : f.kind = "reply" /\ f.req = r} = writing \cap AnswersTo(r)
        BY <2>1 DEF AnswersTo
      <3> QED
        BY <3>1, Zenon DEF Held
    <2>5. PICK a, b, c, d, e, f, g, h \in Nat :
           /\ Shares(r, a, b, c, d, e, f, g, h)
           /\ Count(r) = a + b + c + d + e + f + g + h
      BY CountNames
    <2>6. a + b + c + d <= 1
      BY <2>5 DEF CountInv
    <2> QED
      BY <2>2, <2>3, <2>4, <2>5, <2>6 DEF Shares
  <1> QED
    BY <1>1, TypeInvariant, CountInit, CountNext, PTL DEF Spec

-----------------------------------------------------------------------------
(* No request is lost                                                      *)

AnyIn(q, S) == \E i \in DOMAIN q : q[i] \in S

\* The request is somewhere between the loop that has read it and the frontend
\* that has its response.
Present(r) ==
    \/ answered[r] > 0
    \/ AnyIn(outbound, AnswersTo(r)) \/ AnyIn(replies, AnswersTo(r))
    \/ \E f \in writing : f \in AnswersTo(r)
    \/ AnyIn(lane, {r}) \/ waiting = r
    \/ \E t \in working \cup readers : t \in OwesTo(r)

PresentInv == \A r \in Request : open /\ HasArrived(r) /\ r \notin Large => Present(r)

\* Who executes what: the lane and its worker have what neither subscribes nor
\* reads, and a worker that has answered is rid of its request at once.
PlaceInv ==
    /\ waiting \notin Subscribe \cup Reader
    /\ \A i \in DOMAIN lane : lane[i] \notin Subscribe \cup Reader
    /\ \A t \in working : t.req \notin Subscribe \cup Reader /\ t.state # "over"
    /\ \A t \in readers : t.req \in Reader

\* While the connection lasts, a request that has been read is in exactly one
\* place: none that the loop, the lane, a task or a queue had is dropped or
\* doubled, whatever the bounded queues hold.  (A frame that does not arrive in
\* one piece may lose its head to another branch of the select.)
Accounted ==
    open => \A r \in Request : HasArrived(r) /\ r \notin Large => Count(r) = 1

\* The guards of the steps that move a request or a response on: a frontend that
\* reads, FinishWrite, WriteReply, HandOver, TakeRequest, AnswerRequest, AnswerRead.
Moves ==
    \/ outbound # <<>>
    \/ writing # {} /\ Len(outbound) < SocketBuffer
    \/ Selects /\ replies # <<>>
    \/ Selects /\ waiting # Nothing /\ Len(lane) < Capacity
    \/ working = {} /\ lane # <<>>
    \/ \E t \in working \cup readers : t.state = "answering" /\ Len(replies) < Capacity

\* The queues never wait for each other in a circle: a request without a response
\* waits for a step that can be taken, or for a call into the daemon, a read for
\* its own and a mutation for the worker's.
NoGridlock ==
    open => \A r \in Request :
        HasArrived(r) /\ r \notin Large /\ answered[r] = 0 =>
            \/ Moves
            \/ r \notin Reader /\ \E t \in working : t.state = "running"
            \/ r \in Reader /\ \E t \in readers : t.state = "running" /\ t.req = r

LEMMA FewAlone ==
  ASSUME NEW S, NEW s \in Few(S, 1), NEW x \in s, NEW y \in s
  PROVE  x = y
  <1>1. IsFiniteSet(s) /\ Cardinality(s) <= 1 /\ Cardinality(s) \in Nat
    BY FS_CardinalityType DEF Few
  <1>2. IsFiniteSet(s \ {x}) /\ Cardinality(s \ {x}) = Cardinality(s) - 1
    BY <1>1, FS_RemoveElement
  <1>3. Cardinality(s \ {x}) = 0
    BY <1>1, <1>2, FS_CardinalityType
  <1> QED
    BY <1>2, <1>3, FS_EmptySet

LEMMA AnyInAppend ==
  ASSUME NEW X, NEW q \in Seq(X), NEW x, NEW S
  PROVE  AnyIn(Append(q, x), S) <=> AnyIn(q, S) \/ x \in S
  <1>1. /\ DOMAIN q = 1..Len(q) /\ DOMAIN Append(q, x) = 1..(Len(q) + 1) /\ Len(q) \in Nat
        /\ \A i \in 1..Len(q) : Append(q, x)[i] = q[i]
        /\ Append(q, x)[Len(q) + 1] = x
    OBVIOUS
  <1>2. \A i \in 1..(Len(q) + 1) : i \in 1..Len(q) \/ i = Len(q) + 1
    BY <1>1
  <1>3. Len(q) + 1 \in 1..(Len(q) + 1) /\ \A i \in 1..Len(q) : i \in 1..(Len(q) + 1)
    BY <1>1
  <1> QED
    BY <1>1, <1>2, <1>3 DEF AnyIn

LEMMA AnyInTail ==
  ASSUME NEW X, NEW q \in Seq(X), q # <<>>, NEW S
  PROVE  AnyIn(q, S) => AnyIn(Tail(q), S) \/ Head(q) \in S
  <1>1. /\ DOMAIN q = 1..Len(q) /\ DOMAIN Tail(q) = 1..(Len(q) - 1) /\ Len(q) \in Nat
        /\ \A i \in 1..(Len(q) - 1) : Tail(q)[i] = q[i + 1]
        /\ Head(q) = q[1]
    OBVIOUS
  <1>2. \A i \in 1..Len(q) : i = 1 \/ \E j \in 1..(Len(q) - 1) : q[i] = Tail(q)[j]
    <2> SUFFICES ASSUME NEW i \in 1..Len(q), i # 1
                 PROVE  \E j \in 1..(Len(q) - 1) : q[i] = Tail(q)[j]
      OBVIOUS
    <2>1. i - 1 \in 1..(Len(q) - 1) /\ (i - 1) + 1 = i
      BY <1>1
    <2>2. Tail(q)[i - 1] = q[i]
      BY <1>1, <2>1
    <2> QED
      BY <2>1, <2>2
  <1>3. (\E i \in 1..Len(q) : q[i] \in S) =>
          (\E j \in 1..(Len(q) - 1) : Tail(q)[j] \in S) \/ Head(q) \in S
    BY <1>1, <1>2
  <1> QED
    BY <1>1, <1>3 DEF AnyIn

LEMMA PlaceInit == Init => PlaceInv /\ PresentInv
  <1> SUFFICES ASSUME Init PROVE PlaceInv /\ PresentInv
    OBVIOUS
  <1>1. /\ script \in Scripts /\ sent = 0 /\ inbound = <<>> /\ waiting = Nothing /\ lane = <<>>
        /\ working = {} /\ readers = {}
    BY DEF Init
  <1>2. PlaceInv
    BY <1>1, RequestAssumption DEF PlaceInv
  <1>3. \A r : ~ HasArrived(r)
    <2>1. Arrived = 0
      <3>1. Len(inbound) = 0
        BY <1>1
      <3>2. sent = 0
        BY <1>1
      <3>3. sent - Len(inbound) = 0
        BY <3>1, <3>2
      <3> QED
        BY <3>3 DEF Arrived
    <2>2. ASSUME NEW i \in DOMAIN script
          PROVE  ~ (PiecesTo(i) <= 0)
      <3>1. i \in Nat /\ i >= 1 /\ 0 \in Nat
        BY <1>1, RequestAssumption
      <3>2. PiecesTo(0) + (i - 0) <= PiecesTo(i) /\ PiecesTo(i) \in Nat
        BY <3>1, PiecesGrow, PiecesTyped
      <3> QED
        BY <3>1, <3>2, PiecesFirst
    <2> QED
      BY <2>1, <2>2 DEF HasArrived
  <1> QED
    BY <1>2, <1>3 DEF PresentInv

LEMMA PlaceNext == TypeInv /\ PlaceInv /\ [Next]_vars => PlaceInv'
  <1> SUFFICES ASSUME TypeInv, PlaceInv, [Next]_vars PROVE PlaceInv'
    OBVIOUS
  <1>0. Nothing \notin Subscribe \cup Reader
    BY RequestAssumption
  <1>1. CASE UNCHANGED <<waiting, lane, working, readers>>
    BY <1>1 DEF PlaceInv
  <1>2. CASE NoticeShutdown \/ ReadEnd \/ FailWrite
    <2>1. waiting' = Nothing /\ lane' = <<>> /\ working' = {} /\ readers' = {}
      BY <1>2 DEF NoticeShutdown, ReadEnd, FailWrite, Close
    <2> QED
      BY <1>0, <2>1 DEF PlaceInv
  <1>3. CASE Reap
    <2>1. readers' \subseteq readers /\ UNCHANGED <<waiting, lane, working>>
      BY <1>3 DEF Reap
    <2> QED
      BY <2>1 DEF PlaceInv
  <1>4. CASE HandOver
    <2>1. /\ lane' = Append(lane, waiting) /\ waiting' = Nothing /\ UNCHANGED <<working, readers>>
      BY <1>4 DEF HandOver
    <2>2. lane \in Seq(Request)
      BY DEF TypeInv, Short
    <2>3. \A i \in DOMAIN lane' : lane'[i] \notin Subscribe \cup Reader
      <3>1. ~ AnyIn(lane, Subscribe \cup Reader)
        BY DEF PlaceInv, AnyIn
      <3>2. ~ AnyIn(lane', Subscribe \cup Reader)
        BY <2>1, <2>2, <3>1, AnyInAppend DEF PlaceInv
      <3> QED
        BY <3>2 DEF AnyIn
    <2> QED
      BY <1>0, <2>1, <2>3 DEF PlaceInv
  <1>5. CASE Read
    <2>1. Head(inbound).req \in Request
      <3>1. Head(inbound) \in Piece
        BY <1>5, ReadFront DEF TypeInv, Read, clientVars
      <3> QED
        BY <3>1 DEF Piece
    <2>2. PICK q \in Request : q = Head(inbound).req
      BY <2>1
    <2>3. \/ UNCHANGED <<waiting, lane, working, readers>>
          \/ Dispatch(q) /\ lane' = lane
      BY <1>5, <2>2 DEF Read
    <2>4. CASE q \in Reader /\ readers' = readers \cup {Running(q)}
                 /\ UNCHANGED <<waiting, lane, working>>
      <3>1. Running(q).req = q
        BY RunningTyped
      <3> QED
        BY <2>4, <3>1 DEF PlaceInv
    <2>5. CASE waiting' = q /\ q \notin Subscribe \cup Reader /\ UNCHANGED <<lane, working, readers>>
      BY <2>5 DEF PlaceInv
    <2> QED
      BY <1>1, <2>3, <2>4, <2>5 DEF Dispatch
  <1>6. CASE TakeRequest
    <2>1. /\ lane # <<>> /\ working' = {Running(Head(lane))} /\ lane' = Tail(lane)
          /\ UNCHANGED <<waiting, readers>>
      BY <1>6 DEF TakeRequest, loopVars
    <2>2. lane \in Seq(Request)
      BY DEF TypeInv, Short
    <2>3. /\ DOMAIN lane = 1..Len(lane) /\ DOMAIN lane' = 1..(Len(lane) - 1) /\ Len(lane) \in Nat
          /\ Len(lane) >= 1 /\ Head(lane) = lane[1] /\ Head(lane) \in Request
          /\ \A i \in 1..(Len(lane) - 1) : lane'[i] = lane[i + 1]
      BY <2>1, <2>2
    <2>4. Head(lane) \notin Subscribe \cup Reader
      BY <2>3 DEF PlaceInv
    <2>5. \A i \in DOMAIN lane' : lane'[i] \notin Subscribe \cup Reader
      BY <2>3 DEF PlaceInv
    <2>6. Running(Head(lane)).req = Head(lane) /\ Running(Head(lane)).state = "running"
      BY <2>3, RunningTyped
    <2>7. \A t \in working' : t.req \notin Subscribe \cup Reader /\ t.state # "over"
      BY <2>1, <2>4, <2>6
    <2> QED
      BY <2>1, <2>5, <2>7 DEF PlaceInv
  <1>7. ASSUME NEW t \in working, CompleteRequest(t) \/ AnswerRequest(t)
        PROVE  PlaceInv'
    <2>1. t \in Task
      BY DEF TypeInv, Few
    <2>2. [t EXCEPT !.state = "answering"].req = t.req
            /\ [t EXCEPT !.state = "answering"].state = "answering"
      BY <2>1 DEF Task
    <2>3. /\ working' \subseteq {[t EXCEPT !.state = "answering"]}
          /\ UNCHANGED <<waiting, lane, readers>>
      BY <1>7 DEF CompleteRequest, AnswerRequest, loopVars
    <2> QED
      BY <2>2, <2>3 DEF PlaceInv
  <1>8. ASSUME NEW t \in readers, CompleteRead(t) \/ AnswerRead(t)
        PROVE  PlaceInv'
    <2>1. t \in Task
      BY DEF TypeInv, Few, FreshTask
    <2>2. /\ [t EXCEPT !.state = "answering", !.at = revision].req = t.req
          /\ [t EXCEPT !.state = "over"].req = t.req
      BY <2>1 DEF Task
    <2>3. /\ readers' \subseteq readers \cup {[t EXCEPT !.state = "answering", !.at = revision],
                                             [t EXCEPT !.state = "over"]}
          /\ UNCHANGED <<waiting, lane, working>>
      BY <1>8 DEF CompleteRead, AnswerRead, loopVars
    <2> QED
      BY <2>2, <2>3 DEF PlaceInv
  <1>9. CASE Send \/ Receive \/ HangUp \/ Stop \/ (\E t \in Topic : Publish(t)) \/ UNCHANGED vars
    BY <1>1, <1>9 DEF Send, Receive, HangUp, Stop, Publish, vars, loopVars, taskVars
  <1>10. CASE ForwardEvent \/ WriteReply \/ FinishWrite
    BY <1>1, <1>10 DEF ForwardEvent, WriteReply, FinishWrite, taskVars
  <1> QED
    BY <1>2, <1>3, <1>4, <1>5, <1>6, <1>7, <1>8, <1>9, <1>10 DEF Next, LoopStep, Calls, Answers

LEMMA PresentSum ==
  ASSUME NEW r
  PROVE  /\ Present(r) <=>
              \/ answered[r] > 0
              \/ AnyIn(outbound, AnswersTo(r)) \/ AnyIn(replies, AnswersTo(r))
              \/ \E f \in writing : f \in AnswersTo(r)
              \/ AnyIn(lane, {r}) \/ waiting = r
              \/ \E t \in working \cup readers : t \in OwesTo(r)
         /\ Present(r)' <=>
              \/ answered'[r] > 0
              \/ AnyIn(outbound', AnswersTo(r)) \/ AnyIn(replies', AnswersTo(r))
              \/ \E f \in writing' : f \in AnswersTo(r)
              \/ AnyIn(lane', {r}) \/ waiting' = r
              \/ \E t \in working' \cup readers' : t \in OwesTo(r)
  BY DEF Present, AnyIn, AnswersTo, OwesTo

\* A request that is somewhere stays somewhere as long as the connection does.
LEMMA PresentKept ==
  ASSUME TypeInv, PlaceInv, [Next]_vars, open', NEW r \in Request, Present(r)
  PROVE  Present(r)'
  <1>0. /\ outbound \in Seq(FreshFrame) /\ replies \in Seq(FreshFrame) /\ lane \in Seq(Request)
        /\ answered \in [Request -> Nat]
    BY DEF TypeInv, Short
  <1>1. CASE UNCHANGED <<answered, outbound, replies, writing, lane, waiting, working, readers>>
    BY <1>1, PresentSum
  <1>2. CASE Receive
    <2>1. /\ outbound # <<>> /\ outbound' = Tail(outbound)
          /\ answered' = IF Head(outbound).kind = "reply"
                         THEN [answered EXCEPT ![Head(outbound).req] = @ + 1] ELSE answered
          /\ UNCHANGED <<replies, writing, lane, waiting, working, readers>>
      BY <1>2 DEF Receive, loopVars, taskVars
    <2>2. answered[r] \in Nat /\ (answered[r] > 0 => answered'[r] > 0)
      BY <1>0, <2>1
    <2>3. Head(outbound) \in AnswersTo(r) => answered'[r] > 0
      BY <1>0, <2>1, <2>2 DEF AnswersTo
    <2>4. AnyIn(outbound, AnswersTo(r)) =>
            AnyIn(outbound', AnswersTo(r)) \/ Head(outbound) \in AnswersTo(r)
      BY <1>0, <2>1, AnyInTail
    <2> QED
      BY <2>1, <2>2, <2>3, <2>4, PresentSum
  <1>3. CASE NoticeShutdown \/ ReadEnd \/ FailWrite
    BY <1>3 DEF NoticeShutdown, ReadEnd, FailWrite, Close
  <1>4. CASE ForwardEvent
    <2>1. /\ writing = {}
          /\ UNCHANGED <<answered, outbound, replies, lane, waiting, working, readers>>
      BY <1>4 DEF ForwardEvent, Selects, clientVars, socketVars, taskVars
    <2> QED
      BY <2>1, PresentSum
  <1>5. CASE WriteReply
    <2>1. /\ writing = {} /\ replies # <<>>
          /\ writing' = {Head(replies)} /\ replies' = Tail(replies)
          /\ UNCHANGED <<answered, outbound, lane, waiting, working, readers>>
      BY <1>5 DEF WriteReply, Selects, clientVars, socketVars
    <2>2. AnyIn(replies, AnswersTo(r)) =>
            AnyIn(replies', AnswersTo(r)) \/ Head(replies) \in AnswersTo(r)
      BY <1>0, <2>1, AnyInTail
    <2> QED
      BY <2>1, <2>2, PresentSum
  <1>6. CASE Reap
    <2>1. PICK t \in readers : t.state = "over" /\ readers' = readers \ {t}
      BY <1>6 DEF Reap
    <2>2. UNCHANGED <<answered, outbound, replies, writing, lane, waiting, working>>
      BY <1>6 DEF Reap, clientVars, socketVars
    <2>3. t \notin OwesTo(r)
      BY <2>1 DEF OwesTo
    <2> QED
      BY <2>1, <2>2, <2>3, PresentSum
  <1>7. CASE HandOver
    <2>1. /\ lane' = Append(lane, waiting)
          /\ UNCHANGED <<answered, outbound, replies, writing, working, readers>>
      BY <1>7 DEF HandOver, clientVars, socketVars
    <2>2. AnyIn(lane', {r}) <=> AnyIn(lane, {r}) \/ waiting \in {r}
      BY <1>0, <2>1, AnyInAppend
    <2> QED
      BY <2>1, <2>2, PresentSum
  <1>8. CASE Read
    <2>1. /\ writing = {} /\ waiting = Nothing /\ UNCHANGED <<answered, outbound, replies, lane, working>>
          /\ readers \subseteq readers'
      BY <1>8 DEF Read, MayRead, Selects, Dispatch, clientVars
    <2>2. r # Nothing
      BY RequestAssumption
    <2> QED
      BY <2>1, <2>2, PresentSum
  <1>9. CASE FinishWrite
    <2>1. PICK frame \in writing : outbound' = Append(outbound, frame)
      BY <1>9 DEF FinishWrite
    <2>2. UNCHANGED <<answered, replies, lane, waiting, working, readers>>
      BY <1>9 DEF FinishWrite, clientVars, taskVars
    <2>3. AnyIn(outbound', AnswersTo(r)) <=> AnyIn(outbound, AnswersTo(r)) \/ frame \in AnswersTo(r)
      BY <1>0, <2>1, AnyInAppend
    <2>4. \A f \in writing : f = frame
      BY <2>1, FewAlone DEF TypeInv
    <2> QED
      BY <2>2, <2>3, <2>4, PresentSum
  <1>10. CASE TakeRequest
    <2>1. /\ lane # <<>> /\ working = {} /\ working' = {Running(Head(lane))} /\ lane' = Tail(lane)
          /\ UNCHANGED <<answered, outbound, replies, writing, waiting, readers>>
      BY <1>10 DEF TakeRequest, clientVars, socketVars, loopVars
    <2>2. AnyIn(lane, {r}) => AnyIn(lane', {r}) \/ Head(lane) \in {r}
      BY <1>0, <2>1, AnyInTail
    <2>3. Head(lane) = r => Running(Head(lane)) \in OwesTo(r)
      BY RunningTyped DEF OwesTo
    <2> QED
      BY <2>1, <2>2, <2>3, PresentSum
  <1>11. ASSUME NEW t \in working, CompleteRequest(t)
         PROVE  Present(r)'
    <2>1. t \in Task /\ \A s \in working : s = t
      BY FewAlone DEF TypeInv, Few
    <2>2. PICK u : u = [t EXCEPT !.state = "answering"]
      OBVIOUS
    <2>3. u \in Task /\ u.req = t.req /\ u.state = "answering"
      BY <2>1, <2>2 DEF Task
    <2>4. /\ working' = {u}
          /\ UNCHANGED <<answered, outbound, replies, writing, lane, waiting, readers>>
      BY <1>11, <2>2 DEF CompleteRequest, clientVars, socketVars, loopVars
    <2>5. t \in OwesTo(r) => u \in OwesTo(r)
      BY <2>3 DEF OwesTo
    <2> QED
      BY <2>1, <2>4, <2>5, PresentSum
  <1>12. ASSUME NEW t \in readers, CompleteRead(t)
         PROVE  Present(r)'
    <2>1. t \in Task /\ revision \in Revisions
      BY DEF TypeInv, Few, FreshTask
    <2>2. PICK u : u = [t EXCEPT !.state = "answering", !.at = revision]
      OBVIOUS
    <2>3. u \in Task /\ u.req = t.req /\ u.state = "answering"
      BY <2>1, <2>2 DEF Task
    <2>4. /\ readers' = (readers \ {t}) \cup {u}
          /\ UNCHANGED <<answered, outbound, replies, writing, lane, waiting, working>>
      BY <1>12, <2>2 DEF CompleteRead, clientVars, socketVars, loopVars
    <2>5. t \in OwesTo(r) => u \in OwesTo(r)
      BY <2>3 DEF OwesTo
    <2> QED
      BY <2>4, <2>5, PresentSum
  <1>13. ASSUME NEW t \in working \cup readers, NEW at, at \in {Unread, t.at},
                t.state = "answering", replies' = Append(replies, Reply(t.req, at)),
                working \cup readers \subseteq working' \cup readers' \cup {t},
                UNCHANGED <<answered, outbound, writing, lane, waiting>>
         PROVE  Present(r)'
    <2>1. t \in Task
      BY DEF TypeInv, Few, FreshTask
    <2>2. t.req = r => Reply(t.req, at) \in AnswersTo(r)
      <3>1. at \in Revisions
        BY <1>13, <2>1, UnreadTyped DEF Task
      <3> QED
        BY <3>1 DEF Reply, Frame, AnswersTo
    <2>3. AnyIn(replies', AnswersTo(r)) <=> AnyIn(replies, AnswersTo(r)) \/ Reply(t.req, at) \in AnswersTo(r)
      BY <1>0, <1>13, AnyInAppend
    <2>4. t \in OwesTo(r) => t.req = r
      BY DEF OwesTo
    <2> QED
      BY <1>13, <2>2, <2>3, <2>4, PresentSum
  <1>14. ASSUME NEW t \in working, AnswerRequest(t)
         PROVE  Present(r)'
    <2>1. \A s \in working : s = t
      BY FewAlone DEF TypeInv
    <2>2. /\ t.state = "answering" /\ replies' = Append(replies, Reply(t.req, Unread))
          /\ working \cup readers \subseteq working' \cup readers' \cup {t}
          /\ UNCHANGED <<answered, outbound, writing, lane, waiting>>
      BY <1>14, <2>1 DEF AnswerRequest, clientVars, socketVars, loopVars
    <2> QED
      BY <1>13, <2>2
  <1>15. ASSUME NEW t \in readers, AnswerRead(t)
         PROVE  Present(r)'
    <2>1. /\ t.state = "answering" /\ replies' = Append(replies, Reply(t.req, t.at))
          /\ working \cup readers \subseteq working' \cup readers' \cup {t}
          /\ UNCHANGED <<answered, outbound, writing, lane, waiting>>
      BY <1>15 DEF AnswerRead, clientVars, socketVars, loopVars
    <2> QED
      BY <1>13, <2>1
  <1>16. CASE Send \/ HangUp \/ Stop \/ (\E t \in Topic : Publish(t)) \/ UNCHANGED vars
    BY <1>1, <1>16 DEF Send, HangUp, Stop, Publish, vars, clientVars, socketVars, loopVars, taskVars
  <1> QED
    BY <1>2, <1>3, <1>4, <1>5, <1>6, <1>7, <1>8, <1>9, <1>10, <1>11, <1>12, <1>14, <1>15, <1>16
       DEF Next, LoopStep, Calls, Answers

\* What the places of two pieces say of the requests they are of.
LEMMA PlacesApart ==
  ASSUME NEW i \in Nat, NEW k \in Nat, NEW n \in Nat, NEW q \in Nat
  PROVE  /\ k <= i /\ n + (i - k) <= n => k = i
         /\ ~ (i <= k - 1 /\ q < n /\ n + ((k - 1) - i) <= q)
  OBVIOUS

\* The piece that completes a request that is not large is all of it.
LEMMA WholePiece ==
  ASSUME script \in Seq(Request), NEW i \in DOMAIN script, script[i] \notin Large,
         PiecesTo(i) <= PiecesTo(Len(script))
  PROVE  PieceAt(PiecesTo(i)).req = script[i] /\ PieceAt(PiecesTo(i)).part = "whole"
  <1>1. i \in Nat /\ i >= 1 /\ i - 1 \in Nat
    OBVIOUS
  <1>2. PICK n \in Nat : n = PiecesTo(i)
    BY <1>1, PiecesTyped
  <1>3. n \in 1..PiecesTo(Len(script))
    <2>1. PiecesTo(0) + (i - 0) <= n /\ PiecesTo(Len(script)) \in Nat
      BY <1>1, <1>2, PiecesGrow, PiecesTyped
    <2> QED
      BY <1>1, <1>2, <2>1, PiecesFirst
  <1>4. PICK k \in DOMAIN script :
          /\ PieceAt(n).req = script[k]
          /\ \/ PieceAt(n).part = "whole" /\ script[k] \notin Large /\ n = PiecesTo(k)
             \/ PieceAt(n).part = "head" /\ script[k] \in Large /\ n = PiecesTo(k) - 1
             \/ PieceAt(n).part = "tail" /\ script[k] \in Large /\ n = PiecesTo(k)
    BY <1>3, PieceTyped
  <1>5. k \in Nat /\ k - 1 \in Nat /\ (k - 1) + 1 = k
    OBVIOUS
  <1>6. /\ PiecesTo(k) = PiecesTo(k - 1) + (IF script[k] \in Large THEN 2 ELSE 1)
        /\ PiecesTo(k) \in Nat /\ PiecesTo(k - 1) \in Nat
    <2>1. PiecesTo((k - 1) + 1) = PiecesTo(k - 1) + (IF script[(k - 1) + 1] \in Large THEN 2 ELSE 1)
      BY <1>5, PiecesStep
    <2>2. PiecesTo(k) \in Nat /\ PiecesTo(k - 1) \in Nat
      BY <1>5, PiecesTyped
    <2> QED
      BY <1>5, <2>1, <2>2
  <1>7. k <= i => PiecesTo(k) + (i - k) <= n
    BY <1>1, <1>2, <1>5, PiecesGrow
  <1>8. i <= k - 1 => n + ((k - 1) - i) <= PiecesTo(k - 1)
    BY <1>1, <1>2, <1>5, PiecesGrow
  <1>9. k <= i \/ i <= k - 1
    BY <1>1, <1>5
  <1>10. k = i
    <2>0. PiecesTo(k - 1) < PiecesTo(k)
      BY <1>6
    <2>1. CASE n = PiecesTo(k)
      <3>1. ASSUME i <= k - 1
            PROVE  FALSE
        <4>1. n + ((k - 1) - i) <= PiecesTo(k - 1)
          BY <1>8, <3>1
        <4>2. PiecesTo(k - 1) < n
          BY <2>0, <2>1
        <4> QED
          BY Zenon, <1>1, <1>5, <1>6, <3>1, <4>1, <4>2, PlacesApart
      <3>2. k <= i
        BY Zenon, <1>9, <3>1
      <3>3. n + (i - k) <= n
        BY Zenon, <1>7, <2>1, <3>2
      <3> QED
        BY Zenon, <1>1, <1>5, <3>2, <3>3, PlacesApart
    <2>2. CASE script[k] \in Large /\ n = PiecesTo(k) - 1
      <3>1. PiecesTo(k - 1) < n
        <4>1. PiecesTo(k) = PiecesTo(k - 1) + 2
          BY <1>6, <2>2
        <4> QED
          BY <1>6, <2>2, <4>1
      <3>2. ASSUME k <= i
            PROVE  FALSE
        <4>1. PiecesTo(k) + (i - k) <= n
          BY <1>7, <3>2
        <4>2. n < PiecesTo(k)
          BY <1>6, <2>2
        <4>3. i - k \in Nat
          BY <1>1, <1>5, <3>2
        <4> QED
          BY <1>6, <4>1, <4>2, <4>3
      <3>3. i <= k - 1
        BY Zenon, <1>9, <3>2
      <3>4. n + ((k - 1) - i) <= PiecesTo(k - 1)
        BY Zenon, <1>8, <3>3
      <3> QED
        BY Zenon, <1>1, <1>5, <1>6, <3>1, <3>3, <3>4, PlacesApart
    <2> QED
      BY <1>4, <2>1, <2>2
  <1> QED
    BY <1>2, <1>4, <1>10

\* A request that has not been read before comes to be somewhere when it is.
LEMMA PresentArrives ==
  ASSUME TypeInv, [Next]_vars, NEW r \in Request, r \notin Large, ~ HasArrived(r), HasArrived(r)'
  PROVE  Present(r)'
  <1>1. CASE Read
    <2>1. /\ inbound # <<>> /\ inbound' = Tail(inbound) /\ script' = script /\ sent' = sent
      BY <1>1 DEF Read, clientVars
    <2>2. /\ Arrived' = Arrived + 1 /\ Arrived + 1 \in 1..PiecesTo(Len(script))
          /\ Head(inbound) = PieceAt(Arrived + 1)
      BY <2>1, ReadFront DEF TypeInv
    <2>3. script \in Seq(Request) /\ Arrived \in Nat /\ PiecesTo(Len(script)) \in Nat
      BY ScriptTyped DEF TypeInv
    <2>4. PICK i \in DOMAIN script : script[i] = r /\ PiecesTo(i) <= Arrived + 1
      <3>1. \A k : PiecesTo(k)' = PiecesTo(k)
        BY <2>1 DEF PiecesTo
      <3> QED
        BY <2>1, <2>2, <3>1 DEF HasArrived
    <2>5. PiecesTo(i) \in Nat /\ ~ (PiecesTo(i) <= Arrived)
      <3>1. i \in Nat
        BY <2>3
      <3> QED
        BY <2>4, <3>1, PiecesTyped DEF HasArrived
    <2>6. PiecesTo(i) = Arrived + 1
      BY <2>3, <2>4, <2>5
    <2>7. Head(inbound).req = r /\ Head(inbound).part = "whole"
      <3>1. PiecesTo(i) <= PiecesTo(Len(script))
        BY <2>2, <2>3, <2>6
      <3> QED
        BY <2>2, <2>3, <2>4, <2>6, <3>1, WholePiece
    <2>8. Dispatch(r)
      BY <1>1, <2>7 DEF Read
    <2>9. CASE writing' = {Reply(r, Unread)}
      <3>1. Reply(r, Unread) \in AnswersTo(r)
        BY UnreadReplyTyped DEF AnswersTo, FreshFrame
      <3> QED
        BY <2>9, <3>1, PresentSum
    <2>10. CASE readers' = readers \cup {Running(r)}
      <3>1. Running(r) \in OwesTo(r)
        BY RunningTyped DEF OwesTo
      <3> QED
        BY <2>10, <3>1, PresentSum
    <2>11. CASE waiting' = r
      BY <2>11, PresentSum
    <2> QED
      BY <2>8, <2>9, <2>10, <2>11 DEF Dispatch
  <1>2. CASE ~ Read
    <2>1. script' = script /\ Arrived' = Arrived
      <3>1. CASE Send
        BY <3>1, SendFront DEF TypeInv, Send
      <3>2. ASSUME UNCHANGED <<script, sent, inbound>>
            PROVE  Arrived' = Arrived /\ script' = script
        BY <3>2 DEF Arrived
      <3>3. CASE Receive \/ HangUp \/ Stop \/ (\E t \in Topic : Publish(t)) \/ UNCHANGED vars
        BY <3>2, <3>3 DEF Receive, HangUp, Stop, Publish, vars, clientVars, socketVars
      <3>4. CASE LoopStep
        BY <1>2, <3>2, <3>4 DEF LoopStep, NoticeShutdown, ForwardEvent, WriteReply, Reap, HandOver,
           ReadEnd, FinishWrite, FailWrite, Close, clientVars, socketVars
      <3>5. CASE Calls \/ Answers
        BY <3>2, <3>5 DEF Calls, Answers, CompleteRequest, CompleteRead, TakeRequest, AnswerRequest,
           AnswerRead, clientVars, socketVars
      <3> QED
        BY <3>1, <3>3, <3>4, <3>5 DEF Next
    <2> QED
      BY <2>1, ArrivedKept
  <1> QED
    BY <1>1, <1>2

LEMMA PresentNext == TypeInv /\ PlaceInv /\ PresentInv /\ [Next]_vars => PresentInv'
  <1> SUFFICES ASSUME TypeInv, PlaceInv, PresentInv, [Next]_vars, open', NEW r \in Request,
                      HasArrived(r)', r \notin Large
               PROVE  Present(r)'
    BY DEF PresentInv
  <1>1. open
    BY DEF Next, LoopStep, Calls, Answers, Send, Receive, HangUp, Stop, Publish, NoticeShutdown,
       ForwardEvent, WriteReply, Reap, HandOver, Read, MayRead, Selects, ReadEnd, FinishWrite,
       FailWrite, TakeRequest, CompleteRequest, CompleteRead, AnswerRequest, AnswerRead, vars, loopVars
  <1> QED
    BY <1>1, PresentKept, PresentArrives DEF PresentInv

LEMMA AnyAmong ==
  ASSUME NEW X, NEW q \in Seq(X), NEW S, AnyIn(q, S)
  PROVE  Among(q, S) >= 1
  <1> DEFINE hits == {i \in DOMAIN q : q[i] \in S}
  <1>1. hits \in SUBSET (1..Len(q))
    OBVIOUS
  <1>2. IsFiniteSet(1..Len(q))
    BY FS_Interval
  <1>3. hits # {}
    BY DEF AnyIn
  <1>4. Among(q, S) = Cardinality(hits)
    BY Zenon DEF Among
  <1> HIDE DEF hits
  <1>5. IsFiniteSet(hits)
    BY <1>1, <1>2, FS_Subset
  <1>6. Cardinality(hits) \in Nat /\ Cardinality(hits) # 0
    BY <1>5, <1>3, FS_CardinalityType, FS_EmptySet
  <1> QED
    BY <1>4, <1>6

\* The bridge from being somewhere to being counted.
LEMMA PresentCounts ==
  ASSUME TypeInv, NEW r \in Request, Present(r)
  PROVE  Count(r) >= 1
  <1>1. /\ outbound \in Seq(FreshFrame) /\ replies \in Seq(FreshFrame) /\ lane \in Seq(Request)
        /\ IsFiniteSet(writing) /\ IsFiniteSet(working) /\ IsFiniteSet(readers)
    BY DEF TypeInv, Short, Few
  <1>2. PICK a, b, c, d, e, f, g, h \in Nat :
           /\ Shares(r, a, b, c, d, e, f, g, h)
           /\ Count(r) = a + b + c + d + e + f + g + h
    BY CountNames
  <1>3. ASSUME NEW X, NEW q \in Seq(X), NEW S, AnyIn(q, S)
        PROVE  Among(q, S) >= 1
    BY <1>3, AnyAmong
  <1>4. ASSUME NEW s, IsFiniteSet(s), NEW x \in s, NEW S, x \in S
        PROVE  Held(s, S) >= 1
    <2>1. Mark(x, S) <= Held(s, S) /\ Held(s, S) \in Nat
      BY <1>4, HeldMember, HeldTyped
    <2> QED
      BY <1>4, <2>1 DEF Mark
  <1>5. CASE answered[r] > 0
    <2>1. a >= 1
      BY <1>2, <1>5 DEF Shares
    <2> QED
      BY <1>2, <2>1
  <1>6. CASE AnyIn(outbound, AnswersTo(r)) \/ AnyIn(replies, AnswersTo(r)) \/ AnyIn(lane, {r})
    <2>1. b >= 1 \/ c >= 1 \/ e >= 1
      BY <1>1, <1>2, <1>3, <1>6 DEF Shares
    <2> QED
      BY <1>2, <2>1
  <1>7. CASE \/ \E x \in writing : x \in AnswersTo(r)
             \/ \E x \in working \cup readers : x \in OwesTo(r)
    <2>1. d >= 1 \/ f >= 1 \/ g >= 1
      BY <1>1, <1>2, <1>4, <1>7 DEF Shares
    <2> QED
      BY <1>2, <2>1
  <1>8. CASE waiting = r
    <2>1. h = 1
      BY <1>2, <1>8 DEF Shares, Mark
    <2> QED
      BY <1>2, <2>1
  <1> QED
    BY <1>5, <1>6, <1>7, <1>8 DEF Present

LEMMA PresentInvariant == Spec => [](TypeInv /\ CountInv /\ PlaceInv /\ PresentInv)
  BY TypeInvariant, CountInit, CountNext, PlaceInit, PlaceNext, PresentNext, PTL DEF Spec

\* No request is lost or doubled on its way through the loop, the lane, the
\* tasks and the queues while the connection lasts.
THEOREM RequestsAccounted == Spec => []Accounted
  <1>1. TypeInv /\ CountInv /\ PlaceInv /\ PresentInv => Accounted
    <2> SUFFICES ASSUME TypeInv, CountInv, PresentInv, open, NEW r \in Request, HasArrived(r),
                        r \notin Large
                 PROVE  Count(r) = 1
      BY DEF Accounted
    <2>1. Count(r) \in Nat /\ Count(r) <= 1
      BY CountNat DEF CountsNat, CountInv
    <2>2. Count(r) >= 1
      BY PresentCounts DEF PresentInv
    <2> QED
      BY <2>1, <2>2
  <1> QED
    BY <1>1, PresentInvariant, PTL

\* The lane, the worker, the readers and the responses never wait for each other
\* in a circle, whatever their capacities are.
THEOREM QueuesNeverLock == Spec => []NoGridlock
  <1>1. TypeInv /\ CountInv /\ PlaceInv /\ PresentInv => NoGridlock
    <2> SUFFICES ASSUME TypeInv, PlaceInv, PresentInv, open, NEW r \in Request, HasArrived(r),
                        r \notin Large, answered[r] = 0, ~ Moves,
                        r \notin Reader => ~ \E t \in working : t.state = "running",
                        r \in Reader => ~ \E t \in readers : t.state = "running" /\ t.req = r
                 PROVE  FALSE
      BY DEF NoGridlock
    <2>1. Present(r)
      BY DEF PresentInv
    <2>2. /\ outbound \in Seq(FreshFrame) /\ Len(outbound) = 0
          /\ replies \in Seq(FreshFrame) /\ lane \in Seq(Request)
          /\ working \subseteq Task /\ readers \subseteq Task
      BY DEF TypeInv, Short, Few, FreshTask, Moves
    <2>3. writing = {}
      <3>1. 0 < SocketBuffer
        BY CapacityTyped
      <3> QED
        BY <2>2, <3>1 DEF Moves
    <2>4. replies = <<>> /\ Len(replies) < Capacity
      <3>1. replies = <<>>
        BY <2>3 DEF Moves, Selects
      <3> QED
        BY <3>1, CapacityTyped
    <2>5. \A t \in working \cup readers : t.state # "answering"
      BY <2>4 DEF Moves
    <2>6. \A t \in working : t.state = "running"
      BY <2>2, <2>5 DEF PlaceInv, Task
    <2>7. CASE r \in Reader
      <3>1. waiting # r /\ ~ AnyIn(lane, {r}) /\ \A t \in working : t.req # r
        BY <2>7 DEF PlaceInv, AnyIn
      <3>2. \A t \in readers : t \notin OwesTo(r)
        BY <2>2, <2>5, <2>7 DEF OwesTo, Task
      <3> QED
        BY <2>1, <2>2, <2>3, <2>4, <3>1, <3>2 DEF Present, AnyIn, OwesTo, Moves
    <2>8. CASE r \notin Reader
      <3>1. working = {}
        BY <2>6, <2>8
      <3>2. lane = <<>>
        BY <3>1 DEF Moves
      <3>3. waiting = Nothing
        <4>1. Len(lane) < Capacity
          BY <3>2, CapacityTyped
        <4> QED
          BY <2>3, <4>1 DEF Moves, Selects
      <3>4. \A t \in readers : t \notin OwesTo(r)
        BY <2>8 DEF PlaceInv, OwesTo
      <3> QED
        BY <2>1, <2>2, <2>3, <2>4, <3>1, <3>2, <3>3, <3>4, RequestAssumption
           DEF Present, AnyIn, OwesTo, Moves
    <2> QED
      BY <2>7, <2>8
  <1> QED
    BY <1>1, PresentInvariant, PTL

-----------------------------------------------------------------------------
(* No change is missed                                                     *)

\* A notice that makes the frontend reload the topic is on its way: an event of
\* it, or the demand to reload everything.
Notices(t) == {Event(t), Resync}

Notified(t) ==
    \/ lagged \/ AnyIn(backlog, {t})
    \/ \E f \in writing : f \in Notices(t)
    \/ AnyIn(outbound, Notices(t))

Informed(t) == Notified(t) \/ view[t] = revision[t]

\* From the subscription on, a frontend shows what is, or a notice that makes it
\* look is on its way: a published change brings one, even when the receiver is
\* full and loses its oldest event, and no notice is used up but by a reload.
NothingMissed ==
    [][\A t \in Topic :
         subscribed /\ open' /\ (Informed(t) \/ revision'[t] # revision[t]) => Informed(t)']_vars

LEMMA InformedSum ==
  ASSUME NEW t
  PROVE  /\ Informed(t) <=>
              \/ lagged \/ AnyIn(backlog, {t})
              \/ \E f \in writing : f \in Notices(t)
              \/ AnyIn(outbound, Notices(t)) \/ view[t] = revision[t]
         /\ Informed(t)' <=>
              \/ lagged' \/ AnyIn(backlog', {t})
              \/ \E f \in writing' : f \in Notices(t)
              \/ AnyIn(outbound', Notices(t)) \/ view'[t] = revision'[t]
  BY DEF Informed, Notified, Notices, AnyIn, Event, Resync

\* What the frontend reads is not newer than the state.
LEMMA ReceiveInforms ==
  ASSUME TypeInv, Receive, NEW t \in Topic, Informed(t)
  PROVE  Informed(t)'
  <1>1. PICK f : f = Head(outbound)
    OBVIOUS
  <1>2. /\ outbound \in Seq(FreshFrame) /\ outbound # <<>> /\ f \in FreshFrame
        /\ view[t] \in Nat /\ revision[t] \in Nat
    BY <1>1 DEF Receive, TypeInv, Short, Past, Revisions
  <1>3. /\ outbound' = Tail(outbound)
        /\ view'[t] = CASE f.kind = "reply" /\ f.at[t] > view[t] -> f.at[t]
                        [] f.kind = "event" /\ f.topic = t -> revision[t]
                        [] f.kind = "resync" -> revision[t]
                        [] OTHER -> view[t]
        /\ UNCHANGED <<backlog, lagged, writing, revision>>
    BY <1>1 DEF Receive, loopVars, eventVars, daemonVars
  <1>4. AnyIn(outbound, Notices(t)) => AnyIn(outbound', Notices(t)) \/ f \in Notices(t)
    BY <1>1, <1>2, <1>3, AnyInTail
  <1>5. f \in Notices(t) => view'[t] = revision[t]
    <2>1. CASE f = Event(t)
      <3>1. f.kind = "event" /\ f.topic = t
        BY <2>1 DEF Event
      <3> QED
        BY <1>3, <3>1
    <2>2. CASE f = Resync
      <3>1. f.kind = "resync"
        BY <2>2 DEF Resync
      <3> QED
        BY <1>3, <3>1
    <2> QED
      BY <2>1, <2>2 DEF Notices
  <1>6. view[t] = revision[t] => view'[t] = revision[t]
    <2>1. f.kind = "reply" => f.at[t] \in Nat /\ f.at[t] <= revision[t]
      BY <1>2 DEF FreshFrame, Frame, Revisions
    <2>2. CASE f.kind = "reply"
      BY <1>2, <1>3, <2>1, <2>2
    <2>3. CASE f.kind # "reply"
      BY <1>2, <1>3, <2>3
    <2> QED
      BY <2>2, <2>3
  <1> QED
    BY <1>3, <1>4, <1>5, <1>6, InformedSum

\* A published change reaches the receiver, or the receiver learns that it lost some.
LEMMA PublishInforms ==
  ASSUME TypeInv, NEW p \in Topic, Publish(p), open, NEW t \in Topic,
         Informed(t) \/ revision'[t] # revision[t]
  PROVE  Informed(t)'
  <1>1. /\ revision' = [revision EXCEPT ![p] = @ + 1]
        /\ \/ backlog' = Append(backlog, p) /\ lagged' = lagged
           \/ backlog' = Append(Tail(backlog), p) /\ lagged' = TRUE
        /\ UNCHANGED <<outbound, writing, view>>
    BY DEF Publish, clientVars, socketVars, loopVars
  <1>2. backlog \in Seq(Topic) /\ revision \in [Topic -> Nat]
    BY DEF TypeInv, Short, Revisions
  <1>3. CASE lagged' = TRUE
    BY <1>3, InformedSum
  <1>4. CASE backlog' = Append(backlog, p) /\ lagged' = lagged
    <2>1. AnyIn(backlog', {t}) <=> AnyIn(backlog, {t}) \/ p \in {t}
      BY <1>2, <1>4, AnyInAppend
    <2>2. p # t => revision'[t] = revision[t]
      BY <1>1, <1>2
    <2> QED
      BY <1>1, <1>4, <2>1, <2>2, InformedSum
  <1> QED
    BY <1>1, <1>3, <1>4

LEMMA ForwardInforms ==
  ASSUME TypeInv, ForwardEvent, subscribed, NEW t \in Topic, Informed(t)
  PROVE  Informed(t)'
  <1>1. writing = {} /\ UNCHANGED <<outbound, view, revision>>
    BY DEF ForwardEvent, Selects, clientVars, socketVars, daemonVars
  <1>2. CASE lagged
    <2>1. writing' = {Resync}
      BY <1>2 DEF ForwardEvent
    <2> QED
      BY <2>1, InformedSum DEF Notices
  <1>3. CASE ~ lagged
    <2>1. /\ backlog # <<>> /\ backlog' = Tail(backlog) /\ writing' = {Event(Head(backlog))}
          /\ backlog \in Seq(Topic)
      BY <1>3 DEF ForwardEvent, TypeInv, Short
    <2>2. AnyIn(backlog, {t}) => AnyIn(backlog', {t}) \/ Head(backlog) \in {t}
      BY <2>1, AnyInTail
    <2>3. Head(backlog) = t => Event(Head(backlog)) \in Notices(t)
      BY DEF Notices
    <2> QED
      BY <1>1, <1>3, <2>1, <2>2, <2>3, InformedSum
  <1> QED
    BY <1>2, <1>3

LEMMA StepInforms ==
  ASSUME TypeInv, [Next]_vars, subscribed, open', NEW t \in Topic,
         Informed(t) \/ revision'[t] # revision[t]
  PROVE  Informed(t)'
  <1>1. CASE UNCHANGED <<backlog, lagged, writing, outbound, view, revision>>
    BY <1>1, InformedSum
  <1>2. CASE Receive
    BY <1>2, ReceiveInforms DEF Receive, daemonVars
  <1>3. ASSUME NEW p \in Topic, Publish(p)
        PROVE  Informed(t)'
    <2>1. open
      BY <1>3 DEF Publish, loopVars
    <2> QED
      BY <1>3, <2>1, PublishInforms
  <1>4. CASE ForwardEvent
    BY <1>4, ForwardInforms DEF ForwardEvent, daemonVars
  <1>5. CASE NoticeShutdown \/ ReadEnd \/ FailWrite
    BY <1>5 DEF NoticeShutdown, ReadEnd, FailWrite, Close
  <1>6. CASE WriteReply \/ Read
    <2>1. writing = {} /\ UNCHANGED <<backlog, lagged, outbound, view, revision>>
      BY <1>6 DEF WriteReply, Read, MayRead, Selects, clientVars, socketVars, eventVars, daemonVars
    <2> QED
      BY <2>1, InformedSum
  <1>7. CASE FinishWrite
    <2>1. PICK frame \in writing : outbound' = Append(outbound, frame)
      BY <1>7 DEF FinishWrite
    <2>2. UNCHANGED <<backlog, lagged, view, revision>> /\ outbound \in Seq(FreshFrame)
      BY <1>7 DEF FinishWrite, clientVars, eventVars, daemonVars, TypeInv, Short
    <2>3. AnyIn(outbound', Notices(t)) <=> AnyIn(outbound, Notices(t)) \/ frame \in Notices(t)
      BY <2>1, <2>2, AnyInAppend
    <2>4. \A f \in writing : f = frame
      BY <2>1, FewAlone DEF TypeInv
    <2> QED
      BY <2>2, <2>3, <2>4, InformedSum
  <1>8. CASE Reap \/ HandOver
    BY <1>1, <1>8 DEF Reap, HandOver, clientVars, socketVars, eventVars, daemonVars
  <1>9. CASE Calls \/ Answers
    BY <1>1, <1>9 DEF Calls, Answers, CompleteRequest, CompleteRead, TakeRequest, AnswerRequest,
       AnswerRead, clientVars, socketVars, loopVars, eventVars, daemonVars
  <1>10. CASE Send \/ HangUp \/ Stop \/ UNCHANGED vars
    BY <1>1, <1>10 DEF Send, HangUp, Stop, vars, clientVars, socketVars, loopVars, eventVars,
       daemonVars
  <1> QED
    BY <1>2, <1>3, <1>4, <1>5, <1>6, <1>7, <1>8, <1>9, <1>10 DEF Next, LoopStep

\* A subscribed frontend is never left with an old view and no notice: full
\* receivers, an older read that arrives late and a loop that is busy lose none.
THEOREM ChangesNoticed == Spec => NothingMissed
  <1>1. TypeInv /\ [Next]_vars =>
          [\A t \in Topic :
             subscribed /\ open' /\ (Informed(t) \/ revision'[t] # revision[t]) => Informed(t)']_vars
    BY StepInforms
  <1> QED
    BY <1>1, TypeInvariant, PTL DEF Spec, NothingMissed

=============================================================================
