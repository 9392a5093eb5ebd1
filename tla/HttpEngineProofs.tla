--------------------------- MODULE HttpEngineProofs ---------------------------
(***************************************************************************)
(* Proofs about HttpEngine, for any number of queries, redirections and    *)
(* pieces.  Types are right always; the rest is about a program that       *)
(* starts no query while another waits.                                    *)
(***************************************************************************)
EXTENDS HttpEngine, SequenceTheorems, TLAPS

LastReply == Len(replies)

\* At most one query waits, and it is the latest one.
OneWaits == stack # <<>> => stack = <<queries>>

\* Only the latest reply is under way: it is that of the query that waits, which
\* has neither failed nor ended.  Without it the timer is off.
OneReply ==
    /\ Live \subseteq {LastReply}
    /\ Live # {} => stack # <<>> /\ busy /\ ~aborted
    /\ timer => Live # {}

\* The latest reply's body is the data of the query that waits, and the host of a
\* GET is that of m_url.
LastIsCurrent ==
    stack # <<>> =>
        /\ LastReply > 0
        /\ ~aborted => data = Body(LastReply)
        /\ ~replies[LastReply].post => replies[LastReply].host = url

\* Which queries have failed, and which have returned.
Ended ==
    /\ \A q \in failed : q <= queries
    /\ stack # <<>> /\ queries \in failed => aborted
    /\ \A i \in DOMAIN result :
          /\ result[i].query <= queries
          /\ stack # <<>> => result[i].query # queries

\* Every query has one reply, the one of its latest request.
OneEach == LastReply = queries

\* What holds without reentrancy.
Single ==
    /\ OneWaits
    /\ OneReply
    /\ LastIsCurrent
    /\ Ended
    /\ EmptyOnFailure

IInv ==
    /\ TypeOK
    /\ OneEach
    /\ Single

-----------------------------------------------------------------------------
\* Types.

AnyReply == [host : Hosts, target : Hosts, post : BOOLEAN, hop : 0 .. 1,
             live : BOOLEAN, sent : 0 .. MaxChunks]
Answers == [query : Queries, data : Seq(Pieces)]

LEMMA TypeInit == Init => TypeOK /\ OneEach
<1> SUFFICES ASSUME Init PROVE TypeOK /\ OneEach
  OBVIOUS
<1>1. /\ <<>> \in Seq(Queries) /\ <<>> \in Seq(AnyReply) /\ <<>> \in Seq(Pieces)
      /\ <<>> \in Seq(Answers) /\ Len(<<>>) = 0
  BY EmptySeq
<1>2. OneEach
  BY <1>1 DEF Init, OneEach, LastReply
<1>3. queries \in 0 .. MaxQueries
  BY BoundsAssumption DEF Init
<1>4. TypeOK
  BY <1>1, <1>3 DEF Init, TypeOK, AnyReply, Answers, Hosts
<1>5. QED
  BY <1>2, <1>4

LEMMA TypeBeginQuery ==
    ASSUME TypeOK, OneEach, BeginQuery, NEW p \in BOOLEAN,
           timer' = TRUE, replies' = Append(replies, Reply(queries + 1, NoHost, p, 0)),
           url' \in Hosts, UNCHANGED <<failed, result>>
    PROVE  TypeOK' /\ OneEach'
<1>1. queries + 1 \in Queries /\ queries' = queries + 1 /\ queries \in Nat
  BY BoundsAssumption DEF BeginQuery, TypeOK, Queries
<1>2. Reply(queries + 1, NoHost, p, 0) \in AnyReply
  BY <1>1, BoundsAssumption DEF Reply, AnyReply, Hosts
<1>3. replies' \in Seq(AnyReply) /\ Len(replies') = queries + 1
  <2>1. replies \in Seq(AnyReply) /\ Len(replies) = queries
    BY DEF TypeOK, OneEach, LastReply, AnyReply
  <2>2. QED
    BY <1>2, <2>1, AppendProperties
<1>4. stack' \in Seq(Queries)
  BY <1>1, AppendProperties DEF TypeOK, BeginQuery
<1>5. data' \in Seq(Pieces)
  BY EmptySeq DEF BeginQuery
<1>6. queries' \in 0 .. MaxQueries
  BY BoundsAssumption DEF BeginQuery, TypeOK
<1>7. QED
  BY <1>1, <1>3, <1>4, <1>5, <1>6 DEF TypeOK, BeginQuery, OneEach, LastReply, AnyReply

LEMMA TypeAbortAll ==
    ASSUME TypeOK, OneEach, AbortAll, timer' \in BOOLEAN
    PROVE  TypeOK' /\ OneEach'
<1>1. replies \in Seq(AnyReply) /\ DOMAIN replies = 1 .. LastReply /\ LastReply \in Nat
  BY LenProperties DEF TypeOK, AnyReply, LastReply
<1>2. \A r \in DOMAIN replies : replies[r] \in AnyReply
  BY <1>1, ElementOfSeq DEF LastReply
<1>3. \A r \in DOMAIN replies : [replies[r] EXCEPT !.live = FALSE] \in AnyReply
  BY <1>2 DEF AnyReply
<1>4. replies' \in [1 .. LastReply -> AnyReply]
  BY <1>1, <1>3 DEF AbortAll
<1>5. replies' \in Seq(AnyReply) /\ Len(replies') = LastReply
  BY <1>1, <1>4, SeqDef
<1>6. failed' \subseteq Queries
  BY <1>1, BoundsAssumption DEF AbortAll, TypeOK, OneEach, Live, Queries
<1>7. QED
  BY <1>5, <1>6 DEF TypeOK, AbortAll, OneEach, LastReply, AnyReply

LEMMA TypeStep == TypeOK /\ OneEach /\ [Next]_vars => TypeOK' /\ OneEach'
<1> SUFFICES ASSUME TypeOK, OneEach, [Next]_vars PROVE TypeOK' /\ OneEach'
  OBVIOUS
<1>1. CASE Get
  <2>1. url' \in Hosts
    BY <1>1, BoundsAssumption DEF Get, BeginQuery, TypeOK, Queries, Hosts
  <2>2. QED
    BY <1>1, <2>1, TypeBeginQuery DEF Get
<1>2. CASE PostQuery
  BY <1>2, TypeBeginQuery DEF PostQuery, TypeOK
<1>3. CASE Return
  <2> DEFINE n == Len(stack)
  <2>1. n \in Nat /\ n >= 1 /\ stack \in Seq(Queries) /\ \A i \in 1 .. n : stack[i] \in Queries
    BY <1>3, EmptySeq, LenProperties, ElementOfSeq DEF Return, TypeOK
  <2>2. stack' \in Seq(Queries)
    <3>1. \A i \in 1 .. n - 1 : stack[i] \in Queries
      BY <2>1
    <3>2. n - 1 \in Int
      BY <2>1
    <3>3. SubSeq(stack, 1, n - 1) \in Seq(Queries)
      BY <3>1, <3>2, SubSeqProperties
    <3>4. QED
      BY <1>3, <3>3 DEF Return
  <2>3. <<>> \in Seq(Pieces) /\ data \in Seq(Pieces) /\ result \in Seq(Answers)
    BY EmptySeq DEF TypeOK, Answers
  <2>4. [query |-> stack[n], data |-> IF aborted THEN <<>> ELSE data] \in Answers
    BY <2>1, <2>3 DEF Answers
  <2>5. result' \in Seq(Answers)
    BY <1>3, <2>3, <2>4, AppendProperties DEF Return
  <2>6. QED
    BY <1>3, <2>2, <2>5 DEF Return, TypeOK, OneEach, LastReply, flags, Answers
<1>4. CASE CancelDownload
  BY <1>4, TypeAbortAll DEF CancelDownload, TypeOK
<1>5. CASE Timeout
  BY <1>5, TypeAbortAll DEF Timeout
<1>6. ASSUME NEW r \in DOMAIN replies, HttpError(r) PROVE TypeOK' /\ OneEach'
  BY <1>6, TypeAbortAll DEF HttpError
<1>7. /\ replies \in Seq(AnyReply) /\ DOMAIN replies = 1 .. LastReply
      /\ LastReply \in Nat /\ LastReply \in 0 .. MaxQueries
      /\ \A r \in DOMAIN replies : replies[r] \in AnyReply
  BY LenProperties, ElementOfSeq DEF TypeOK, AnyReply, LastReply, OneEach
<1>8. ASSUME NEW r \in DOMAIN replies, HttpReadyRead(r) PROVE TypeOK' /\ OneEach'
  <2>1. replies[r].sent + 1 \in 1 .. MaxChunks /\ r \in Queries
    BY <1>7, <1>8, BoundsAssumption DEF HttpReadyRead, AnyReply, Queries
  <2>2. [query |-> r, hop |-> replies[r].hop, n |-> replies[r].sent + 1] \in Pieces
    BY <1>7, <2>1 DEF Pieces, AnyReply
  <2>3. [replies[r] EXCEPT !.sent = @ + 1] \in AnyReply
    BY <1>7, <2>1 DEF AnyReply
  <2>4. replies' \in Seq(AnyReply) /\ Len(replies') = LastReply
    BY <1>7, <1>8, <2>3, ExceptSeq DEF HttpReadyRead, LastReply
  <2>5. data' \in Seq(Pieces)
    BY <1>8, <2>2, AppendProperties DEF HttpReadyRead, TypeOK
  <2>6. QED
    BY <1>7, <1>8, <2>4, <2>5
    DEF HttpReadyRead, TypeOK, OneEach, LastReply, flags, AnyReply
<1>9. \A r \in DOMAIN replies : /\ [replies EXCEPT ![r].live = FALSE] \in Seq(AnyReply)
                                /\ Len([replies EXCEPT ![r].live = FALSE]) = LastReply
  <2> SUFFICES ASSUME NEW r \in DOMAIN replies
               PROVE  /\ [replies EXCEPT ![r].live = FALSE] \in Seq(AnyReply)
                      /\ Len([replies EXCEPT ![r].live = FALSE]) = LastReply
    OBVIOUS
  <2>1. [replies[r] EXCEPT !.live = FALSE] \in AnyReply
    BY <1>7 DEF AnyReply
  <2>2. QED
    BY <1>7, <2>1, ExceptSeq DEF LastReply
<1>10. ASSUME NEW r \in DOMAIN replies, HttpFinished(r) PROVE TypeOK' /\ OneEach'
  BY <1>7, <1>9, <1>10
  DEF HttpFinished, TypeOK, OneEach, LastReply, AnyReply
<1>11. ASSUME NEW r \in DOMAIN replies, NEW t \in Hosts, Redirect(r, t)
       PROVE  TypeOK' /\ OneEach'
  <2>1. 1 - replies[r].hop \in 0 .. 1 /\ url' \in Hosts
    <3>1. url' \in Hosts
      BY <1>11 DEF Redirect, TypeOK
    <3>2. replies[r].hop \in 0 .. 1
      BY <1>7 DEF AnyReply
    <3>3. QED
      BY <3>1, <3>2
  <2>2. Reply(url', t, FALSE, 1 - replies[r].hop) \in AnyReply
    BY <2>1, BoundsAssumption DEF Reply, AnyReply
  <2>3. replies' = [replies EXCEPT ![r] = Reply(url', t, FALSE, 1 - replies[r].hop)]
    BY <1>11 DEF Redirect
  <2>4. replies' \in Seq(AnyReply) /\ Len(replies') = LastReply
    <3> DEFINE x == Reply(url', t, FALSE, 1 - replies[r].hop)
    <3>1. replies' = [replies EXCEPT ![r] = x] /\ x \in AnyReply
      BY <2>2, <2>3
    <3> HIDE DEF x
    <3>2. QED
      BY <1>7, <3>1, ExceptSeq DEF LastReply
  <2>5. data' \in Seq(Pieces)
    BY <1>11, EmptySeq DEF Redirect
  <2>6. QED
    BY <1>11, <2>1, <2>4, <2>5 DEF Redirect, TypeOK, OneEach, LastReply, AnyReply
<1>12. CASE UNCHANGED vars
  BY <1>12 DEF vars, flags, TypeOK, OneEach, LastReply
<1>13. QED
  BY <1>1, <1>2, <1>3, <1>4, <1>5, <1>6, <1>8, <1>10, <1>11, <1>12 DEF Next, Slots

\* Every variable keeps its type, with and without reentrancy.
THEOREM TypeCorrect == Spec => []TypeOK
<1>1. Spec => [](TypeOK /\ OneEach)
  BY TypeInit, TypeStep, PTL DEF Spec
<1>2. QED
  BY <1>1, PTL

-----------------------------------------------------------------------------
\* One query at a time.

LEMMA Shapes ==
    ASSUME TypeOK, OneEach
    PROVE  /\ LastReply \in Nat /\ DOMAIN replies = 1 .. LastReply
           /\ replies \in Seq(AnyReply)
           /\ \A r \in 1 .. LastReply : replies[r] \in AnyReply
           /\ queries \in Nat /\ LastReply = queries
           /\ \A r \in 1 .. LastReply : r \in Queries
           /\ data \in Seq(Pieces)
           /\ result \in Seq(Answers)
           /\ \A i \in DOMAIN result : result[i] \in Answers
<1>1. replies \in Seq(AnyReply) /\ result \in Seq(Answers) /\ data \in Seq(Pieces)
  BY DEF TypeOK, AnyReply, Answers
<1>2. /\ LastReply \in Nat /\ DOMAIN replies = 1 .. LastReply
      /\ \A r \in 1 .. LastReply : replies[r] \in AnyReply
  BY <1>1, LenProperties, ElementOfSeq DEF LastReply
<1>3. \A i \in DOMAIN result : result[i] \in Answers
  BY <1>1, LenProperties, ElementOfSeq
<1>4. queries \in Nat /\ LastReply = queries /\ \A r \in 1 .. LastReply : r \in Queries
  BY <1>2, BoundsAssumption DEF TypeOK, OneEach, Queries
<1>5. QED
  BY <1>1, <1>2, <1>3, <1>4

\* What a reply has sent, as a sequence.
LEMMA BodyIsSeq ==
    ASSUME TypeOK, OneEach, NEW r \in 1 .. LastReply
    PROVE  /\ Body(r) \in Seq(Pieces) /\ Len(Body(r)) = replies[r].sent
           /\ replies[r].sent \in Nat
           /\ \A n \in 1 .. replies[r].sent :
                 Body(r)[n] = [query |-> r, hop |-> replies[r].hop, n |-> n]
<1>1. replies[r].sent \in 0 .. MaxChunks /\ replies[r].hop \in 0 .. 1 /\ r \in Queries
  BY Shapes DEF AnyReply
<1>2. \A n \in 1 .. replies[r].sent : [query |-> r, hop |-> replies[r].hop, n |-> n] \in Pieces
  BY <1>1, BoundsAssumption DEF Pieces
<1>3. Body(r) \in [1 .. replies[r].sent -> Pieces] /\ replies[r].sent \in Nat
  BY <1>1, <1>2, BoundsAssumption DEF Body
<1>4. Body(r) \in Seq(Pieces)
  BY <1>3, SeqDef
<1>5. QED
  BY <1>3, <1>4, LenProperties DEF Body

\* A query's first request: its reply is the latest, and nothing was heard yet.
LEMMA NewReply ==
    ASSUME TypeOK, OneEach, queries < MaxQueries, NEW p \in BOOLEAN,
           replies' = Append(replies, Reply(queries + 1, NoHost, p, 0))
    PROVE  /\ LastReply' = LastReply + 1
           /\ DOMAIN replies' = 1 .. LastReply + 1
           /\ \A r \in 1 .. LastReply : replies'[r] = replies[r]
           /\ replies'[LastReply'] = [host |-> queries + 1, target |-> NoHost, post |-> p,
                                     hop |-> 0, live |-> TRUE, sent |-> 0]
           /\ Body(LastReply)' = <<>>
<1>1. Reply(queries + 1, NoHost, p, 0) \in AnyReply
  BY Shapes, BoundsAssumption DEF Reply, AnyReply, Hosts, Queries
<1>2. /\ LastReply \in Nat
      /\ Len(replies') = LastReply + 1 /\ DOMAIN replies' = 1 .. LastReply + 1
      /\ \A r \in 1 .. LastReply : replies'[r] = replies[r]
      /\ replies'[LastReply + 1] = Reply(queries + 1, NoHost, p, 0)
  BY <1>1, Shapes, AppendProperties, LenProperties DEF LastReply
<1>3. replies'[LastReply'].sent = 0
  BY <1>2 DEF LastReply, Reply
<1>4. Body(LastReply)' = <<>>
  <2> DEFINE m == replies'[LastReply'].sent
             piece(n) == [query |-> LastReply', hop |-> replies'[LastReply'].hop, n |-> n]
  <2>1. Body(LastReply)' = [n \in 1 .. m |-> piece(n)]
    BY DEF Body
  <2>2. m = 0
    BY <1>3
  <2> HIDE DEF m, piece
  <2>3. [n \in 1 .. m |-> piece(n)] = <<>>
    BY <2>2
  <2>4. QED
    BY <2>1, <2>3
<1>5. QED
  BY <1>2, <1>4 DEF LastReply, Reply

LEMMA SingleInit == Init => Single
<1> SUFFICES ASSUME Init PROVE Single
  OBVIOUS
<1>1. DOMAIN <<>> = {} /\ Live = {}
  BY DEF Init, Live
<1>2. QED
  BY <1>1 DEF Init, Single, OneWaits, OneReply, LastIsCurrent, Ended, EmptyOnFailure

LEMMA SingleBeginQuery ==
    ASSUME TypeOK, OneEach, Single, stack = <<>>, BeginQuery, NEW p \in BOOLEAN,
           replies' = Append(replies, Reply(queries + 1, NoHost, p, 0)),
           ~p => url' = queries + 1, UNCHANGED <<failed, result>>
    PROVE  Single'
<1> DEFINE q == queries + 1
<1>1. /\ queries' = q /\ q \in Nat /\ stack' = <<q>> /\ data' = <<>> /\ ~aborted'
      /\ busy' /\ q \in Queries
  BY Shapes, BoundsAssumption DEF BeginQuery, TypeOK, Queries
<1>3. /\ LastReply \in Nat /\ LastReply' = LastReply + 1
      /\ DOMAIN replies' = 1 .. LastReply + 1
      /\ \A r \in 1 .. LastReply : replies'[r] = replies[r]
      /\ replies'[LastReply'] = [host |-> q, target |-> NoHost, post |-> p, hop |-> 0,
                                live |-> TRUE, sent |-> 0]
      /\ Body(LastReply)' = <<>>
  BY Shapes, NewReply DEF BeginQuery
<1>4. \A r \in 1 .. LastReply : ~replies[r].live
  BY Shapes DEF Single, OneReply, Live
<1>5. Live' = {LastReply'}
  BY <1>3, <1>4 DEF Live
<1>6. OneWaits' /\ OneReply' /\ LastIsCurrent'
  BY <1>1, <1>3, <1>5 DEF OneWaits, OneReply, LastIsCurrent
<1>7. Ended' /\ EmptyOnFailure'
  <2>1. Ended /\ EmptyOnFailure
    BY DEF Single
  <2>2. Ended'
    <3>1. queries \in Nat /\ queries' = queries + 1
      BY <1>1, Shapes
    <3>2. /\ \A e \in failed : e \in Nat /\ e <= queries
          /\ \A i \in DOMAIN result : result[i].query \in Nat /\ result[i].query <= queries
      BY <2>1, Shapes DEF Ended, Answers, TypeOK, Queries
    <3>3. failed' = failed /\ result' = result /\ queries' \notin failed
      BY <1>1, <3>1, <3>2
    <3>4. QED
      BY <3>1, <3>2, <3>3 DEF Ended
  <2>3. EmptyOnFailure'
    BY <1>1, <2>1, Shapes DEF EmptyOnFailure, Ended, Answers, TypeOK, Queries
  <2>4. QED
    BY <2>2, <2>3
<1>8. QED
  BY <1>6, <1>7 DEF Single

LEMMA SingleReturn ==
    ASSUME TypeOK, OneEach, Single, Return
    PROVE  Single'
<1>1. /\ stack = <<queries>> /\ stack # <<>>
      /\ UNCHANGED <<queries, replies, url, data, flags, failed>>
  BY DEF Return, Single, OneWaits
<1>2. stack' = <<>>
  BY <1>1, SubSeqEmpty DEF Return
<1>3. Live = {} /\ ~timer /\ Live' = Live
  BY <1>1 DEF Return, Single, OneReply, Live
<1>4. OneWaits' /\ OneReply' /\ LastIsCurrent'
  BY <1>1, <1>2, <1>3 DEF OneWaits, OneReply, LastIsCurrent, flags
<1> DEFINE a == [query |-> queries, data |-> IF aborted THEN <<>> ELSE data]
<1>5. result' = Append(result, a) /\ a \in Answers
  <2>1. queries \in Queries
    BY <1>1, ElementOfSeq DEF TypeOK
  <2>2. (IF aborted THEN <<>> ELSE data) \in Seq(Pieces)
    BY EmptySeq, Shapes
  <2>3. QED
    BY <1>1, <2>1, <2>2 DEF Return, Answers
<1>6. \A i \in DOMAIN result' : \/ i \in DOMAIN result /\ result'[i] = result[i]
                                \/ result'[i] = a
  BY <1>5, Shapes, AppendProperties, LenProperties
<1>7. queries \in failed => a.data = <<>>
  BY <1>1 DEF Single, Ended
<1>8. Ended' /\ EmptyOnFailure'
  BY <1>1, <1>2, <1>6, <1>7, Shapes DEF Single, Ended, EmptyOnFailure
<1>9. QED
  BY <1>4, <1>8 DEF Single

\* What AbortAll leaves of the replies.
LEMMA Aborted ==
    ASSUME TypeOK, OneEach, AbortAll
    PROVE  /\ Live' = {} /\ LastReply' = LastReply /\ DOMAIN replies' = DOMAIN replies
           /\ \A r \in 1 .. LastReply :
                 /\ replies'[r].target = replies[r].target
                 /\ replies'[r].host = replies[r].host
                 /\ replies'[r].post = replies[r].post
                 /\ replies'[r].hop = replies[r].hop
                 /\ replies'[r].sent = replies[r].sent
                 /\ Body(r)' = Body(r)
<1>1. /\ DOMAIN replies = 1 .. LastReply /\ LastReply \in Nat
      /\ \A r \in 1 .. LastReply : replies[r] \in AnyReply
  BY Shapes
<1>2. \A r \in 1 .. LastReply : replies'[r] = [replies[r] EXCEPT !.live = FALSE]
  BY <1>1 DEF AbortAll
<1>3. DOMAIN replies' = 1 .. LastReply
  BY <1>1 DEF AbortAll
<1>4. LastReply' = LastReply
  <2>1. replies' \in [1 .. LastReply -> {replies'[r] : r \in 1 .. LastReply}]
    BY <1>1 DEF AbortAll
  <2>2. replies' \in Seq({replies'[r] : r \in 1 .. LastReply})
    BY <1>1, <2>1, SeqDef
  <2>3. QED
    BY <1>1, <1>3, <2>2, LenProperties DEF LastReply
<1>5. \A r \in 1 .. LastReply :
          /\ ~replies'[r].live
          /\ replies'[r].target = replies[r].target
          /\ replies'[r].host = replies[r].host
          /\ replies'[r].post = replies[r].post
          /\ replies'[r].hop = replies[r].hop
          /\ replies'[r].sent = replies[r].sent
  BY <1>1, <1>2 DEF AnyReply
<1>6. QED
  BY <1>1, <1>3, <1>4, <1>5 DEF Live, Body

LEMMA SingleAbortAll ==
    ASSUME TypeOK, OneEach, Single, AbortAll, ~timer'
    PROVE  Single'
<1>1. /\ Live' = {} /\ LastReply' = LastReply
      /\ stack # <<>> => /\ replies'[LastReply].host = replies[LastReply].host
                         /\ replies'[LastReply].post = replies[LastReply].post
  BY Aborted, Shapes DEF Single, LastIsCurrent
<1>2. aborted' /\ UNCHANGED <<stack, queries, url, data, result>>
  BY DEF AbortAll
<1>3. OneWaits' /\ OneReply' /\ LastIsCurrent'
  BY <1>1, <1>2 DEF Single, OneWaits, OneReply, LastIsCurrent
<1>4. failed' \subseteq failed \cup {queries} /\ (stack = <<>> => failed' = failed)
  BY DEF AbortAll, Waiting, Single, OneWaits
<1>5. Ended' /\ EmptyOnFailure'
  BY <1>2, <1>4, Shapes DEF Single, Ended, EmptyOnFailure
<1>6. QED
  BY <1>3, <1>5 DEF Single

\* The reply whose slot runs is the latest, and the query waits for it.
LEMMA LiveIsLast ==
    ASSUME TypeOK, OneEach, Single, NEW r \in Live
    PROVE  /\ r = LastReply /\ r \in 1 .. LastReply /\ Live = {r}
           /\ stack = <<queries>> /\ stack # <<>> /\ busy /\ ~aborted
           /\ data = Body(r) /\ r = queries
           /\ ~replies[r].post => replies[r].host = url
BY Shapes DEF Single, OneWaits, OneReply, LastIsCurrent, Live

\* One field of one reply changes.
LEMMA ReplyExcept ==
    ASSUME TypeOK, OneEach, NEW r \in 1 .. LastReply, NEW x \in AnyReply,
           replies' = [replies EXCEPT ![r] = x]
    PROVE  /\ LastReply' = LastReply /\ DOMAIN replies' = DOMAIN replies
           /\ replies'[r] = x
           /\ \A s \in 1 .. LastReply : s # r => replies'[s] = replies[s]
<1>1. replies \in Seq(AnyReply) /\ DOMAIN replies = 1 .. LastReply
  BY Shapes
<1>2. Len(replies') = LastReply /\ DOMAIN replies' = DOMAIN replies
  BY <1>1, ExceptSeq DEF LastReply
<1>3. QED
  BY <1>1, <1>2 DEF LastReply

Piece(r, n) == [query |-> r, hop |-> replies[r].hop, n |-> n]

\* A piece that arrives is the next one of the latest reply's body.
LEMMA ReadyRead ==
    ASSUME TypeOK, OneEach, Single, NEW r \in DOMAIN replies, HttpReadyRead(r)
    PROVE  /\ LastReply' = LastReply /\ DOMAIN replies' = DOMAIN replies
           /\ replies'[r] = [replies[r] EXCEPT !.sent = @ + 1]
           /\ Live' = Live
           /\ Piece(r, replies[r].sent + 1) \in Pieces
           /\ Body(r)' = Append(Body(r), Piece(r, replies[r].sent + 1))
<1> DEFINE n == replies[r].sent
           p == Piece(r, n + 1)
<1>1. /\ r \in 1 .. LastReply /\ r \in Live /\ LastReply \in Nat
      /\ replies[r] \in AnyReply /\ n \in Nat /\ n < MaxChunks
      /\ DOMAIN replies = 1 .. LastReply
  BY Shapes, BodyIsSeq DEF HttpReadyRead
<1>2. p \in Pieces
  BY <1>1, Shapes, BoundsAssumption DEF Pieces, Piece, AnyReply
<1>3. [replies[r] EXCEPT !.sent = @ + 1] \in AnyReply
  BY <1>1, BoundsAssumption DEF AnyReply
<1>4. /\ LastReply' = LastReply /\ DOMAIN replies' = DOMAIN replies
      /\ replies'[r] = [replies[r] EXCEPT !.sent = @ + 1]
      /\ \A s \in 1 .. LastReply : s # r => replies'[s] = replies[s]
  <2>1. replies' = [replies EXCEPT ![r] = [replies[r] EXCEPT !.sent = @ + 1]]
    BY DEF HttpReadyRead
  <2>2. QED
    BY <1>1, <1>3, <2>1, ReplyExcept
<1>5. /\ replies'[r].live = replies[r].live /\ replies'[r].sent = n + 1
      /\ replies'[r].hop = replies[r].hop
  BY <1>1, <1>4 DEF AnyReply
<1>6. Live' = Live
  BY <1>1, <1>4, <1>5 DEF Live
<1>7. Body(r)' = [i \in 1 .. n + 1 |-> Piece(r, i)]
  BY <1>5 DEF Body, Piece
<1>8. Body(r)' = Append(Body(r), p)
  <2>1. /\ Body(r) \in Seq(Pieces) /\ Len(Body(r)) = n
        /\ \A i \in 1 .. n : Body(r)[i] = Piece(r, i)
    BY <1>1, BodyIsSeq DEF Piece
  <2>2. /\ Append(Body(r), p) \in Seq(Pieces) /\ Len(Append(Body(r), p)) = n + 1
        /\ \A i \in 1 .. n : Append(Body(r), p)[i] = Piece(r, i)
        /\ Append(Body(r), p)[n + 1] = p
    BY <1>1, <1>2, <2>1, AppendProperties
  <2>3. \A i \in 1 .. n + 1 : Append(Body(r), p)[i] = Piece(r, i)
    BY <1>1, <2>2
  <2>4. Append(Body(r), p) = [i \in 1 .. n + 1 |-> Append(Body(r), p)[i]]
    BY <1>1, <2>2, LenProperties
  <2>5. QED
    BY <1>7, <2>3, <2>4
<1>9. QED
  BY <1>2, <1>4, <1>6, <1>8

LEMMA SingleHttpReadyRead ==
    ASSUME TypeOK, OneEach, Single, NEW r \in DOMAIN replies, HttpReadyRead(r)
    PROVE  Single'
<1>1. r \in Live
  BY DEF HttpReadyRead
<1>2. /\ r = LastReply /\ LastReply' = r /\ Live' = Live
      /\ replies'[r].host = replies[r].host
      /\ replies'[r].post = replies[r].post
      /\ Body(r)' = Append(Body(r), Piece(r, replies[r].sent + 1))
  BY <1>1, LiveIsLast, ReadyRead, Shapes DEF AnyReply
<1>3. /\ UNCHANGED <<stack, queries, url, aborted, busy, timer, failed, result>>
      /\ data' = Append(data, Piece(r, replies[r].sent + 1))
  BY DEF HttpReadyRead, flags, Piece
<1>4. OneWaits' /\ OneReply'
  BY <1>2, <1>3 DEF Single, OneWaits, OneReply
<1>5. LastIsCurrent'
  <2>1. data' = Body(LastReply)'
    BY <1>1, <1>2, <1>3, LiveIsLast DEF Body
  <2>2. QED
    BY <1>1, <1>2, <1>3, <2>1, LiveIsLast, Shapes DEF LastIsCurrent
<1>6. Ended' /\ EmptyOnFailure'
  BY <1>3 DEF Single, Ended, EmptyOnFailure
<1>7. QED
  BY <1>4, <1>5, <1>6 DEF Single

\* The latest reply is over.
LEMMA ReplyOver ==
    ASSUME TypeOK, OneEach, Single, NEW r \in Live,
           NEW old, old = [replies EXCEPT ![r].live = FALSE]
    PROVE  /\ old \in Seq(AnyReply) /\ Len(old) = LastReply
           /\ \A s \in 1 .. LastReply : ~old[s].live
           /\ \A s \in 1 .. LastReply :
                  /\ old[s].target = replies[s].target
                  /\ old[s].host = replies[s].host
                  /\ old[s].post = replies[s].post
                  /\ old[s].hop = replies[s].hop
                  /\ old[s].sent = replies[s].sent
<1>1. /\ r \in 1 .. LastReply /\ replies \in Seq(AnyReply) /\ LastReply = Len(replies)
      /\ \A s \in 1 .. LastReply : replies[s] \in AnyReply /\ (s # r => ~replies[s].live)
      /\ DOMAIN replies = 1 .. LastReply
  BY Shapes, LiveIsLast DEF Live, LastReply
<1>2. [replies[r] EXCEPT !.live = FALSE] \in AnyReply
  BY <1>1 DEF AnyReply
<1>3. old = [replies EXCEPT ![r] = [replies[r] EXCEPT !.live = FALSE]]
  OBVIOUS
<1>4. old \in Seq(AnyReply) /\ Len(old) = LastReply
  BY <1>1, <1>2, <1>3, ExceptSeq
<1>5. \A s \in 1 .. LastReply :
          old[s] = IF s = r THEN [replies[s] EXCEPT !.live = FALSE] ELSE replies[s]
  BY <1>1, <1>3
<1>6. \A s \in 1 .. LastReply :
          /\ ~old[s].live
          /\ old[s].target = replies[s].target
          /\ old[s].host = replies[s].host
          /\ old[s].post = replies[s].post
          /\ old[s].hop = replies[s].hop
          /\ old[s].sent = replies[s].sent
  BY <1>1, <1>5 DEF AnyReply
<1>7. QED
  BY <1>4, <1>6

LEMMA SingleHttpFinished ==
    ASSUME TypeOK, OneEach, Single, NEW r \in DOMAIN replies, HttpFinished(r)
    PROVE  Single'
<1>1. r \in Live /\ replies' = [replies EXCEPT ![r].live = FALSE]
  BY DEF HttpFinished
<1>2. /\ LastReply' = LastReply /\ DOMAIN replies' = 1 .. LastReply
      /\ \A s \in 1 .. LastReply : ~replies'[s].live
      /\ replies'[r].hop = replies[r].hop
      /\ replies'[r].host = replies[r].host
      /\ replies'[r].post = replies[r].post
      /\ replies'[r].sent = replies[r].sent
  <2>1. /\ replies' \in Seq(AnyReply) /\ Len(replies') = LastReply
        /\ \A s \in 1 .. LastReply :
              /\ ~replies'[s].live
              /\ replies'[s].hop = replies[s].hop
              /\ replies'[s].host = replies[s].host
              /\ replies'[s].post = replies[s].post
              /\ replies'[s].sent = replies[s].sent
    <3> DEFINE now == [replies EXCEPT ![r].live = FALSE]
    <3>1. now = [replies EXCEPT ![r].live = FALSE]
      OBVIOUS
    <3> HIDE DEF now
    <3>2. /\ now \in Seq(AnyReply) /\ Len(now) = LastReply
          /\ \A s \in 1 .. LastReply : ~now[s].live
          /\ \A s \in 1 .. LastReply :
                 /\ now[s].target = replies[s].target
                 /\ now[s].host = replies[s].host
                 /\ now[s].post = replies[s].post
                 /\ now[s].hop = replies[s].hop
                 /\ now[s].sent = replies[s].sent
      BY <1>1, <3>1, ReplyOver, ZenonT(90)
    <3>3. replies' = now
      BY <1>1, <3>1
    <3>4. QED
      BY <3>2, <3>3
  <2>2. QED
    BY <1>1, <2>1, LiveIsLast, LenProperties, ZenonT(30) DEF LastReply
<1>3. Live' = {}
  BY <1>2 DEF Live
<1>4. /\ UNCHANGED <<stack, queries, url, data, aborted, failed, result>>
      /\ ~timer'
  BY DEF HttpFinished
<1>5. r = LastReply /\ Body(r)' = Body(r)
  BY <1>1, <1>2, LiveIsLast DEF Body
<1>6. OneWaits' /\ OneReply' /\ LastIsCurrent'
  <2>1. Body(LastReply)' = Body(LastReply)
    BY <1>2, <1>5 DEF Body
  <2>2. QED
    BY <1>2, <1>3, <1>4, <1>5, <2>1 DEF Single, OneWaits, OneReply, LastIsCurrent
<1>7. Ended' /\ EmptyOnFailure'
  BY <1>4 DEF Single, Ended, EmptyOnFailure
<1>8. QED
  BY <1>6, <1>7 DEF Single

\* A redirection: the latest reply is that of a new request, nothing of which was
\* heard yet, to the host that is now in m_url.
LEMMA Redirected ==
    ASSUME TypeOK, OneEach, Single, NEW r \in DOMAIN replies, NEW t \in Hosts, Redirect(r, t)
    PROVE  /\ LastReply' = LastReply /\ r = LastReply /\ DOMAIN replies' = DOMAIN replies
           /\ replies'[r].host = url' /\ replies'[r].target = t /\ ~replies'[r].post
           /\ replies'[r].live
           /\ Live' = {r}
           /\ Body(LastReply)' = <<>>
<1> DEFINE x == Reply(url', t, FALSE, 1 - replies[r].hop)
<1>1. r \in Live /\ r \in 1 .. LastReply /\ url' \in Hosts
  BY Shapes DEF Redirect, TypeOK
<1>2. r = LastReply /\ Live = {r}
  BY <1>1, LiveIsLast
<1>3. x \in AnyReply
  <2>1. 1 - replies[r].hop \in 0 .. 1
    <3>1. replies[r].hop \in 0 .. 1
      BY <1>1, Shapes, Zenon DEF AnyReply
    <3>2. QED
      BY <3>1
  <2>2. 0 \in 0 .. MaxChunks
    BY BoundsAssumption
  <2>3. QED
    BY <1>1, <2>1, <2>2, ZenonT(30) DEF Reply, AnyReply
<1>4. replies' = [replies EXCEPT ![r] = x]
  BY DEF Redirect
<1>5. x.host = url' /\ x.target = t /\ ~x.post /\ x.live /\ x.sent = 0
  BY DEF Reply
<1> HIDE DEF x
<1>6. /\ LastReply' = LastReply /\ DOMAIN replies' = DOMAIN replies
      /\ replies'[r] = x
      /\ \A s \in 1 .. LastReply : s # r => replies'[s] = replies[s]
  BY <1>1, <1>3, <1>4, ReplyExcept
<1>7. Live' = {r}
  BY <1>1, <1>2, <1>5, <1>6, Shapes DEF Live
<1>8. Body(LastReply)' = <<>>
  BY <1>2, <1>5, <1>6 DEF Body
<1>9. QED
  BY <1>2, <1>5, <1>6, <1>7, <1>8

LEMMA SingleRedirect ==
    ASSUME TypeOK, OneEach, Single, NEW r \in DOMAIN replies, NEW t \in Hosts, Redirect(r, t)
    PROVE  Single'
<1>1. r \in Live /\ LastReply \in Nat
  BY Shapes DEF Redirect
<1>2. /\ UNCHANGED <<stack, queries, aborted, busy, failed, result>>
      /\ data' = <<>>
  BY DEF Redirect
<1>3. /\ stack = <<queries>> /\ stack # <<>> /\ busy /\ ~aborted
      /\ r \in 1 .. LastReply
  BY <1>1, LiveIsLast
<1>4. /\ LastReply' = r /\ Live' = {r} /\ replies'[r].host = url'
      /\ Body(LastReply)' = <<>>
  BY Redirected
<1>5. OneWaits' /\ OneReply'
  BY <1>2, <1>3, <1>4 DEF OneWaits, OneReply
<1>6. LastIsCurrent'
  <2>1. data' = Body(LastReply)' /\ LastReply' > 0
    BY <1>1, <1>2, <1>3, <1>4
  <2>2. QED
    BY <1>2, <1>4, <2>1 DEF LastIsCurrent
<1>7. Ended' /\ EmptyOnFailure'
  BY <1>2 DEF Single, Ended, EmptyOnFailure
<1>8. QED
  BY <1>5, <1>6, <1>7 DEF Single

LEMMA SingleStep ==
    ASSUME ~Reentrant, IInv, [Next]_vars
    PROVE  Single'
<1> USE DEF IInv
<1>1. CASE Get
  <2>1. stack = <<>>
    BY <1>1 DEF Get, BeginQuery
  <2>2. QED
    BY <1>1, <2>1, SingleBeginQuery DEF Get
<1>2. CASE PostQuery
  <2>1. stack = <<>>
    BY <1>2 DEF PostQuery, BeginQuery
  <2>2. QED
    BY <1>2, <2>1, SingleBeginQuery DEF PostQuery
<1>3. CASE Return
  BY <1>3, SingleReturn
<1>4. CASE CancelDownload
  <2>1. ~timer'
    BY <1>4 DEF CancelDownload, Single, OneReply
  <2>2. QED
    BY <1>4, <2>1, SingleAbortAll DEF CancelDownload
<1>5. CASE Timeout
  BY <1>5, SingleAbortAll DEF Timeout
<1>6. ASSUME NEW r \in DOMAIN replies, HttpError(r) PROVE Single'
  BY <1>6, SingleAbortAll DEF HttpError
<1>7. ASSUME NEW r \in DOMAIN replies, HttpReadyRead(r) PROVE Single'
  BY <1>7, SingleHttpReadyRead
<1>8. ASSUME NEW r \in DOMAIN replies, HttpFinished(r) PROVE Single'
  BY <1>8, SingleHttpFinished
<1>9. ASSUME NEW r \in DOMAIN replies, NEW t \in Hosts, Redirect(r, t) PROVE Single'
  BY <1>9, SingleRedirect
<1>10. CASE UNCHANGED vars
  <2>1. Live' = Live /\ LastReply' = LastReply /\ Body(LastReply)' = Body(LastReply)
    BY <1>10 DEF vars, flags, Live, LastReply, Body
  <2>2. OneWaits' /\ OneReply' /\ LastIsCurrent'
    BY <1>10, <2>1 DEF vars, flags, Single, OneWaits, OneReply, LastIsCurrent
  <2>3. Ended' /\ EmptyOnFailure'
    BY <1>10 DEF vars, flags, Single, Ended, EmptyOnFailure
  <2>4. QED
    BY <2>2, <2>3 DEF Single
<1>11. QED
  BY <1>1, <1>2, <1>3, <1>4, <1>5, <1>6, <1>7, <1>8, <1>9, <1>10 DEF Next, Slots

\* The invariant of an engine whose queries never overlap.
THEOREM Invariance ==
    ASSUME ~Reentrant
    PROVE  Spec => []IInv
<1>1. Init => IInv
  BY TypeInit, SingleInit DEF IInv
<1>2. IInv /\ [Next]_vars => IInv'
  BY TypeStep, SingleStep DEF IInv
<1>3. QED
  BY <1>1, <1>2, PTL DEF Spec

\* Between two queries nothing of the first is left that could touch the second:
\* no reply whose slots would run, and no timer.
THEOREM Quiet ==
    ASSUME ~Reentrant
    PROVE  Spec => []QuietWhenIdle
<1>1. IInv => QuietWhenIdle
  BY DEF IInv, Single, OneReply, QuietWhenIdle
<1>2. QED
  BY <1>1, Invariance, PTL

\* A query that failed gives back an empty array, as GetQueryInBA documents.
THEOREM FailuresAreEmpty ==
    ASSUME ~Reentrant
    PROVE  Spec => []EmptyOnFailure
<1>1. IInv => EmptyOnFailure
  BY DEF IInv, Single
<1>2. QED
  BY <1>1, Invariance, PTL

-----------------------------------------------------------------------------
\* The engine implements QueriesInTurn.

Phase == IF aborted THEN "failed" ELSE IF busy THEN "open" ELSE "complete"

\* What QueriesInTurn sees of a query that waits is its reply, the latest.
Shown ==
    [phase |-> Phase, own |-> ~replies[LastReply].post, host |-> replies[LastReply].host,
     target |-> replies[LastReply].target, heard |-> Body(LastReply)]

ShowsLast ==
    /\ stack = <<>> => Current = Turns!NoQuery
    /\ stack # <<>> => Current = Shown

LEMMA CurrentIs == IInv => ShowsLast
<1> SUFFICES ASSUME IInv, stack # <<>>
             PROVE  Current = Shown
  BY DEF Current, Turns!NoQuery, ShowsLast
<1>1. stack[1] = LastReply
  BY Shapes DEF IInv, Single, OneWaits
<1>2. QED
  BY <1>1 DEF Current, Phase, Shown

LEMMA CurrentIsNext == IInv' => ShowsLast'
BY CurrentIs, PTL

LEMMA TurnsInitial == Init => Turns!TurnsInit
BY DEF Init, Turns!TurnsInit, Current, Turns!NoQuery

LEMMA AskStep ==
    ASSUME IInv, IInv', stack = <<>>, BeginQuery, NEW p \in BOOLEAN,
           replies' = Append(replies, Reply(queries + 1, NoHost, p, 0)), UNCHANGED result
    PROVE  Turns!Ask(~p)
<1>1. /\ replies'[LastReply'] = [host |-> queries + 1, target |-> NoHost, post |-> p,
                                hop |-> 0, live |-> TRUE, sent |-> 0]
      /\ Body(LastReply)' = <<>>
  <2>1. queries < MaxQueries
    BY DEF BeginQuery
  <2>2. QED
    BY <2>1, NewReply DEF IInv
<1>2. /\ stack' = <<queries + 1>> /\ stack' # <<>> /\ queries' = queries + 1
      /\ Phase' = "open"
  BY DEF BeginQuery, Phase
<1>3. Current' = Shown'
  BY <1>2, CurrentIsNext DEF ShowsLast
<1>4. Current' = [phase |-> "open", own |-> ~p, host |-> queries + 1, target |-> NoHost,
                  heard |-> <<>>]
  BY <1>1, <1>2, <1>3 DEF Shown
<1>5. Current = Turns!NoQuery
  BY CurrentIs DEF ShowsLast
<1>6. QED
  BY <1>2, <1>4, <1>5 DEF Turns!Ask

LEMMA AnswerStep ==
    ASSUME IInv, IInv', Return
    PROVE  Turns!Answer
<1>1. /\ stack = <<queries>> /\ stack # <<>>
      /\ UNCHANGED <<queries, replies, url, data, flags, failed>>
  BY DEF Return, IInv, Single, OneWaits
<1>2. stack' = <<>>
  BY <1>1, SubSeqEmpty DEF Return
<1>3. Current' = Turns!NoQuery
  BY <1>2, CurrentIsNext DEF ShowsLast
<1>4. /\ Current.phase = Phase /\ Current.heard = Body(LastReply)
      /\ ~aborted => data = Body(LastReply)
  BY <1>1, CurrentIs DEF ShowsLast, Shown, IInv, Single, LastIsCurrent
<1>5. Phase \in {"complete", "failed"} /\ (Phase = "failed" <=> aborted)
  BY DEF Return, Phase
<1>6. result' = Append(result,
          [query |-> queries,
           data |-> IF Current.phase = "failed" THEN <<>> ELSE Current.heard])
  BY <1>1, <1>4, <1>5 DEF Return
<1>7. QED
  BY <1>1, <1>3, <1>4, <1>5, <1>6 DEF Turns!Answer

\* Without a query nothing is aborted; a query that failed stays so.
LEMMA FailStep ==
    ASSUME IInv, IInv', AbortAll
    PROVE  Turns!Fail \/ UNCHANGED Turns!turnVars
<1>1. UNCHANGED <<stack, queries, result>> /\ Phase' = "failed"
  BY DEF AbortAll, Phase
<1>2. CASE stack = <<>>
  <2>1. Current' = Current
    BY <1>1, <1>2, CurrentIs, CurrentIsNext DEF ShowsLast
  <2>2. QED
    BY <1>1, <2>1 DEF Turns!turnVars
<1>3. CASE stack # <<>>
  <2>1. LastReply' = LastReply /\ LastReply \in 1 .. LastReply
    BY <1>3, Aborted, Shapes DEF IInv, Single, LastIsCurrent
  <2>2. /\ replies'[LastReply'].post = replies[LastReply].post
        /\ replies'[LastReply'].host = replies[LastReply].host
        /\ replies'[LastReply'].target = replies[LastReply].target
        /\ Body(LastReply)' = Body(LastReply)
    <3>1. /\ replies'[LastReply].post = replies[LastReply].post
          /\ replies'[LastReply].host = replies[LastReply].host
          /\ replies'[LastReply].target = replies[LastReply].target
          /\ replies'[LastReply].hop = replies[LastReply].hop
          /\ replies'[LastReply].sent = replies[LastReply].sent
      BY <2>1, Aborted DEF IInv
    <3>2. QED
      BY <2>1, <3>1 DEF Body
  <2>3. Current = Shown /\ Current' = Shown'
    BY <1>1, <1>3, CurrentIs, CurrentIsNext DEF ShowsLast
  <2>4. Current' = [Current EXCEPT !.phase = "failed"]
    BY <1>1, <2>2, <2>3 DEF Shown
  <2>5. Phase \in {"open", "complete", "failed"} /\ Current.phase = Phase
    BY <2>3 DEF Phase, Shown
  <2>6. CASE Phase = "failed"
    BY <1>1, <2>2, <2>3, <2>6 DEF Turns!turnVars, Shown
  <2>7. CASE Phase # "failed"
    BY <1>1, <2>4, <2>5, <2>7 DEF Turns!Fail, Turns!Open
  <2>8. QED
    BY <2>6, <2>7
<1>4. QED
  BY <1>2, <1>3

LEMMA HeardMore ==
    ASSUME NEW own, NEW host, NEW target, NEW heard, NEW more
    PROVE  [[phase |-> "open", own |-> own, host |-> host, target |-> target,
             heard |-> heard] EXCEPT !.heard = more]
               = [phase |-> "open", own |-> own, host |-> host, target |-> target,
                  heard |-> more]
OBVIOUS

LEMMA HearStep ==
    ASSUME IInv, IInv', NEW r \in DOMAIN replies, HttpReadyRead(r)
    PROVE  \E p \in Pieces : Turns!Hear(p)
<1> DEFINE p == Piece(r, replies[r].sent + 1)
<1>1. /\ r \in Live /\ UNCHANGED <<stack, queries, aborted, busy, result>>
  BY DEF HttpReadyRead, flags
<1>2. /\ r = LastReply /\ stack # <<>> /\ Phase = "open" /\ Phase' = "open"
  BY <1>1, LiveIsLast DEF IInv, Phase
<1>3. /\ LastReply' = LastReply /\ p \in Pieces
      /\ replies'[LastReply'].post = replies[LastReply].post
      /\ replies'[LastReply'].host = replies[LastReply].host
      /\ replies'[LastReply'].target = replies[LastReply].target
      /\ Body(LastReply)' = Append(Body(LastReply), p)
  <2>1. /\ LastReply' = LastReply /\ p \in Pieces
        /\ replies'[r] = [replies[r] EXCEPT !.sent = @ + 1]
        /\ Body(r)' = Append(Body(r), p)
    BY ReadyRead DEF IInv
  <2>2. /\ replies'[r].post = replies[r].post
        /\ replies'[r].host = replies[r].host
        /\ replies'[r].target = replies[r].target
    BY <1>2, <2>1, Shapes DEF IInv, AnyReply
  <2>3. QED
    BY <1>2, <2>1, <2>2 DEF Body
<1> HIDE DEF p
<1>4. Current = Shown /\ Current' = Shown'
  BY <1>1, <1>2, CurrentIs, CurrentIsNext DEF ShowsLast
<1>5. Current' = [Current EXCEPT !.heard = Append(@, p)] /\ Current.phase = "open"
  <2>1. /\ Current = [phase |-> "open", own |-> ~replies[LastReply].post,
                      host |-> replies[LastReply].host, target |-> replies[LastReply].target,
                      heard |-> Body(LastReply)]
        /\ Current' = [phase |-> "open", own |-> ~replies[LastReply].post,
                       host |-> replies[LastReply].host, target |-> replies[LastReply].target,
                       heard |-> Append(Body(LastReply), p)]
    BY <1>2, <1>3, <1>4 DEF Shown
  <2>2. Current.phase = "open" /\ Current.heard = Body(LastReply)
    BY <2>1
  <2> DEFINE own == ~replies[LastReply].post
             host == replies[LastReply].host
             target == replies[LastReply].target
             heard == Body(LastReply)
             more == Append(heard, p)
  <2>3. Current = [phase |-> "open", own |-> own, host |-> host, target |-> target, heard |-> heard]
    BY <2>1
  <2> HIDE DEF own, host, target, heard, more
  <2>4. [Current EXCEPT !.heard = more]
            = [phase |-> "open", own |-> own, host |-> host, target |-> target, heard |-> more]
    BY <2>3, HeardMore
  <2>5. [Current EXCEPT !.heard = Append(Body(LastReply), p)]
            = [phase |-> "open", own |-> ~replies[LastReply].post,
               host |-> replies[LastReply].host, target |-> replies[LastReply].target,
               heard |-> Append(Body(LastReply), p)]
    BY <2>4 DEF own, host, target, heard, more
  <2>6. QED
    BY <2>1, <2>2, <2>5
<1>6. QED
  BY <1>1, <1>3, <1>5 DEF Turns!Hear, Turns!Open

LEMMA CompleteStep ==
    ASSUME IInv, IInv', NEW r \in DOMAIN replies, HttpFinished(r)
    PROVE  Turns!Complete
<1>1. /\ r \in Live /\ replies' = [replies EXCEPT ![r].live = FALSE]
      /\ ~busy' /\ UNCHANGED <<stack, queries, aborted, result>>
  BY DEF HttpFinished
<1>2. /\ r = LastReply /\ stack # <<>> /\ Phase = "open" /\ Phase' = "complete"
  BY <1>1, LiveIsLast DEF IInv, Phase
<1>3. /\ LastReply' = LastReply
      /\ replies'[LastReply'].post = replies[LastReply].post
      /\ replies'[LastReply'].host = replies[LastReply].host
      /\ replies'[LastReply'].target = replies[LastReply].target
      /\ Body(LastReply)' = Body(LastReply)
  <2>1. /\ Len(replies') = LastReply
        /\ replies'[r].post = replies[r].post
        /\ replies'[r].host = replies[r].host
        /\ replies'[r].target = replies[r].target
        /\ replies'[r].hop = replies[r].hop
        /\ replies'[r].sent = replies[r].sent
    <3>1. /\ Len(replies') = LastReply
          /\ \A s \in 1 .. LastReply :
                /\ replies'[s].post = replies[s].post
                /\ replies'[s].host = replies[s].host
                /\ replies'[s].target = replies[s].target
                /\ replies'[s].hop = replies[s].hop
                /\ replies'[s].sent = replies[s].sent
      BY <1>1, ReplyOver DEF IInv
    <3>2. r \in 1 .. LastReply
      BY <1>1, LiveIsLast DEF IInv
    <3>3. QED
      BY <3>1, <3>2
  <2>2. LastReply' = r
    BY <1>2, <2>1 DEF LastReply
  <2>3. QED
    BY <1>2, <2>1, <2>2 DEF Body
<1>4. Current = Shown /\ Current' = Shown'
  BY <1>1, <1>2, CurrentIs, CurrentIsNext DEF ShowsLast
<1>5. Current' = [Current EXCEPT !.phase = "complete"] /\ Current.phase = "open"
  BY <1>2, <1>3, <1>4 DEF Shown
<1>6. QED
  BY <1>1, <1>5 DEF Turns!Complete, Turns!Open

LEMMA FollowStep ==
    ASSUME IInv, IInv', NEW r \in DOMAIN replies, NEW t \in Hosts, Redirect(r, t)
    PROVE  Turns!Follow(t)
<1>1. /\ r \in Live /\ UNCHANGED <<stack, queries, aborted, busy, result>>
      /\ url' \in Hosts /\ url' = IF t = NoHost THEN url ELSE t
  BY DEF Redirect, IInv, TypeOK
<1>2. /\ r = LastReply /\ stack # <<>> /\ Phase = "open" /\ Phase' = "open"
      /\ ~replies[r].post => replies[r].host = url
  BY <1>1, LiveIsLast DEF IInv, Phase
<1>3. /\ LastReply' = r /\ ~replies'[r].post
      /\ replies'[r].host = url' /\ replies'[r].target = t
      /\ Body(LastReply)' = <<>>
  BY Redirected DEF IInv
<1>4. Current = Shown /\ Current' = Shown'
  BY <1>1, <1>2, CurrentIs, CurrentIsNext DEF ShowsLast
<1>5. /\ Current = [phase |-> "open", own |-> ~replies[r].post, host |-> replies[r].host,
                    target |-> replies[r].target, heard |-> Body(r)]
      /\ Current' = [phase |-> "open", own |-> TRUE, host |-> url', target |-> t,
                     heard |-> <<>>]
  BY <1>2, <1>3, <1>4 DEF Shown
<1>6. /\ Current.phase = "open" /\ Current.host = replies[r].host
      /\ Current.own = ~replies[r].post
  BY <1>5
<1>7. /\ t # NoHost => url' = t
      /\ t = NoHost /\ Current.own => url' = Current.host
  BY <1>1, <1>2, <1>6
<1>8. QED
  BY <1>1, <1>5, <1>6, <1>7 DEF Turns!Follow, Turns!Open

\* Each step of the engine is one of QueriesInTurn, or none that it sees.
LEMMA TurnsStep ==
    ASSUME ~Reentrant, IInv, IInv', [Next]_vars
    PROVE  [Turns!TurnsNext]_(Turns!turnVars)
<1> USE DEF Turns!TurnsNext
<1>1. CASE Get
  <2>1. Turns!Ask(~FALSE)
    BY <1>1, AskStep DEF Get, BeginQuery
  <2>2. QED
    BY <2>1
<1>2. CASE PostQuery
  <2>1. Turns!Ask(~TRUE)
    BY <1>2, AskStep DEF PostQuery, BeginQuery
  <2>2. QED
    BY <2>1
<1>3. CASE Return
  BY <1>3, AnswerStep
<1>4. ASSUME AbortAll PROVE [Turns!TurnsNext]_(Turns!turnVars)
  BY <1>4, FailStep
<1>5. CASE CancelDownload \/ Timeout \/ \E r \in DOMAIN replies : HttpError(r)
  BY <1>4, <1>5 DEF CancelDownload, Timeout, HttpError
<1>6. ASSUME NEW r \in DOMAIN replies, HttpReadyRead(r)
      PROVE  [Turns!TurnsNext]_(Turns!turnVars)
  BY <1>6, HearStep
<1>7. ASSUME NEW r \in DOMAIN replies, HttpFinished(r)
      PROVE  [Turns!TurnsNext]_(Turns!turnVars)
  BY <1>7, CompleteStep
<1>8. ASSUME NEW r \in DOMAIN replies, NEW t \in Hosts, Redirect(r, t)
      PROVE  [Turns!TurnsNext]_(Turns!turnVars)
  BY <1>8, FollowStep
<1>9. CASE UNCHANGED vars
  <2>1. UNCHANGED <<stack, aborted, busy, queries, result>> /\ LastReply' = LastReply
        /\ replies' = replies /\ Body(LastReply)' = Body(LastReply) /\ Phase' = Phase
    BY <1>9 DEF vars, flags, LastReply, Body, Phase
  <2>2. Current' = Current
    BY <2>1, CurrentIs, CurrentIsNext DEF ShowsLast, Shown
  <2>3. QED
    BY <2>1, <2>2 DEF Turns!turnVars
<1>10. QED
  BY <1>1, <1>2, <1>3, <1>5, <1>6, <1>7, <1>8, <1>9 DEF Next, Slots

\* Without reentrancy the engine answers queries in turn, each once, with what
\* the host it was led to last sent, whole and in order, or with nothing; a
\* redirection leads to the host it names, and a relative one to the host that
\* was heard.
THEOREM Implements ==
    ASSUME ~Reentrant
    PROVE  Spec => InTurn
<1>1. IInv /\ IInv' /\ [Next]_vars => [Turns!TurnsNext]_(Turns!turnVars)
  BY TurnsStep
<1>2. QED
  BY TurnsInitial, <1>1, Invariance, PTL DEF Spec, InTurn, Turns!TurnsSpec
=============================================================================
