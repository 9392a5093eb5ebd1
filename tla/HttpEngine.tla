----------------------------- MODULE HttpEngine -----------------------------
(***************************************************************************)
(* HttpEngine makes Qt's asynchronous network replies look synchronous: a  *)
(* query starts a request, then spins event loops until the slots of the   *)
(* reply have reset ReqBusy or set m_httpRequestAborted.  The flags, the   *)
(* data and the timeout timer are one per engine.  The event loops deliver *)
(* other events too: with Reentrant, one of them starts another query      *)
(* before the first has returned.                                          *)
(*                                                                         *)
(* Each query asks a host of its own, which carries the query's number; a  *)
(* redirection leads to any of them, or is relative.  A redirected query   *)
(* has a new QNetworkReply, and its record here takes the place of the     *)
(* finished one: the query may be redirected for ever.                     *)
(***************************************************************************)
EXTENDS Naturals, Sequences

CONSTANTS
    Reentrant,    \* whether a query may start while another waits
    MaxQueries,   \* bound: queries in a behaviour
    MaxChunks     \* bound: pieces a reply's body arrives in

ASSUME ReentrantAssumption == Reentrant \in BOOLEAN
ASSUME BoundsAssumption == MaxQueries \in Nat /\ MaxChunks \in Nat

VARIABLES
    stack,     \* the queries that wait, the innermost last
    queries,   \* number of queries made
    replies,   \* for each query its QNetworkReply, the last one if redirected
    url,       \* host of m_url
    data,      \* m_httpData, as the pieces it was put together from
    aborted,   \* m_httpRequestAborted
    busy,      \* ReqBusy
    timer,     \* whether m_timeoutTimer runs
    failed,    \* queries that failed while they waited (history variable)
    result     \* what each query that returned gave back

flags == <<aborted, busy, timer>>
vars == <<stack, queries, replies, url, data, flags, failed, result>>

Queries == 1 .. MaxQueries

NoHost == 0

Hosts == Queries \cup {NoHost}

Init ==
    /\ stack = <<>>
    /\ queries = 0
    /\ replies = <<>>
    /\ url = NoHost
    /\ data = <<>>
    /\ aborted = FALSE
    /\ busy = FALSE
    /\ timer = FALSE
    /\ failed = {}
    /\ result = <<>>

\* The reply to a request to host, whose slots are connected to the engine's.
\* target is the host a redirection named, and NoHost for a relative one and
\* for a query's first request; hop tells the pieces of a request from those of
\* the one before.
Reply(host, target, post, hop) ==
    [host |-> host, target |-> target, post |-> post, hop |-> hop,
     live |-> TRUE, sent |-> 0]

Live == {r \in DOMAIN replies : replies[r].live}

Waiting(q) == \E i \in DOMAIN stack : stack[i] = q

-----------------------------------------------------------------------------
\* Queries.

\* What GetQueryInBA and PostQuery do before the request; a query that stops
\* earlier, at an invalid URL or a file that does not open, changes nothing.
BeginQuery ==
    /\ stack = <<>> \/ Reentrant
    /\ queries < MaxQueries
    /\ queries' = queries + 1
    /\ stack' = Append(stack, queries + 1)
    /\ data' = <<>>
    /\ aborted' = FALSE
    /\ busy' = TRUE

PostQueryMutant ==  \* the timer is not started
    /\ BeginQuery
    /\ timer' = timer
    /\ replies' = Append(replies, Reply(queries + 1, NoHost, TRUE, 0))
    /\ UNCHANGED <<url, failed, result>>

GetMutant ==  \* the URL is not stored
    /\ BeginQuery
    /\ timer' = TRUE
    /\ replies' = Append(replies, Reply(queries + 1, NoHost, FALSE, 0))
    /\ UNCHANGED <<url, failed, result>>

\* GetQueryInBA, with the call of Request.
Get ==
    /\ BeginQuery
    /\ url' = queries + 1
    /\ timer' = TRUE
    /\ replies' = Append(replies, Reply(queries + 1, NoHost, FALSE, 0))
    /\ UNCHANGED <<failed, result>>

\* PostQuery, with the call of Post, which leaves m_url alone.
PostQuery ==
    /\ BeginQuery
    /\ timer' = TRUE
    /\ replies' = Append(replies, Reply(queries + 1, NoHost, TRUE, 0))
    /\ UNCHANGED <<url, failed, result>>

\* The end of the innermost wait loop.
ReturnMutant ==  \* the abort flag is not looked at
    /\ stack # <<>>
    /\ ~busy \/ aborted
    /\ result' = Append(result, [query |-> stack[Len(stack)], data |-> data])
    /\ stack' = SubSeq(stack, 1, Len(stack) - 1)
    /\ UNCHANGED <<queries, replies, url, data, flags, failed>>

Return ==
    /\ stack # <<>>
    /\ ~busy \/ aborted
    /\ result' = Append(result, [query |-> stack[Len(stack)],
                                 data |-> IF aborted THEN <<>> ELSE data])
    /\ stack' = SubSeq(stack, 1, Len(stack) - 1)
    /\ UNCHANGED <<queries, replies, url, data, flags, failed>>

-----------------------------------------------------------------------------
\* Slots, run by whichever event loop is innermost.

\* CancelDownload: FinishReply aborts every live reply on the spot, and each
\* runs HttpError (the timer stops) and HttpFinished (busy is reset).
AbortAll ==
    /\ aborted' = TRUE
    /\ busy' = (busy /\ Live = {})
    /\ replies' = [r \in DOMAIN replies |-> [replies[r] EXCEPT !.live = FALSE]]
    /\ failed' = failed \cup {q \in Live : Waiting(q)}
    /\ UNCHANGED <<stack, queries, url, data, result>>

\* Called by the application.
CancelDownload ==
    /\ AbortAll
    /\ timer' = (timer /\ Live = {})

TimeoutMutant ==  \* the flag is set, the replies are not told
    /\ timer
    /\ aborted' = TRUE
    /\ timer' = FALSE
    /\ UNCHANGED <<stack, queries, replies, url, data, busy, failed, result>>

\* m_timeoutTimer is single-shot and connected to CancelDownload.
Timeout ==
    /\ timer
    /\ AbortAll
    /\ timer' = FALSE

\* HttpError, for a reply the network or the server fails.
HttpError(r) ==
    /\ r \in Live
    /\ AbortAll
    /\ timer' = FALSE

HttpReadyReadMutant(r) ==  \* the reply is stored, not what it received
    /\ r \in Live
    /\ replies[r].sent < MaxChunks
    /\ replies' = [replies EXCEPT ![r].sent = @ + 1]
    /\ data' = Append(data, replies[r])
    /\ UNCHANGED <<stack, queries, url, flags, failed, result>>

HttpReadyRead(r) ==
    /\ r \in Live
    /\ replies[r].sent < MaxChunks
    /\ replies' = [replies EXCEPT ![r].sent = @ + 1]
    /\ data' = Append(data, [query |-> r, hop |-> replies[r].hop, n |-> replies[r].sent + 1])
    /\ UNCHANGED <<stack, queries, url, flags, failed, result>>

\* HttpFinished without error or redirection.
HttpFinished(r) ==
    /\ r \in Live
    /\ replies' = [replies EXCEPT ![r].live = FALSE]
    /\ timer' = FALSE
    /\ busy' = FALSE
    /\ UNCHANGED <<stack, queries, url, data, aborted, failed, result>>

RedirectMutant(r, target) ==  \* the host led to is not stored
    /\ r \in Live
    /\ ~aborted
    /\ LET host == IF target = NoHost THEN url ELSE target
       IN  replies' = [replies EXCEPT ![r] = Reply(host, target, FALSE, 1 - @.hop)]
    /\ data' = <<>>
    /\ timer' = TRUE
    /\ UNCHANGED <<stack, queries, url, aborted, busy, failed, result>>

\* HttpFinished with a redirection: its target is resolved against m_url, and
\* Request stores it in m_url, gets it and starts the timer again.
Redirect(r, target) ==
    /\ r \in Live
    /\ ~aborted
    /\ LET host == IF target = NoHost THEN url ELSE target
       IN  /\ url' = host
           /\ replies' = [replies EXCEPT ![r] = Reply(host, target, FALSE, 1 - @.hop)]
    /\ data' = <<>>
    /\ timer' = TRUE
    /\ UNCHANGED <<stack, queries, aborted, busy, failed, result>>

-----------------------------------------------------------------------------
Slots ==
    \/ CancelDownload
    \/ Timeout
    \/ \E r \in DOMAIN replies :
          \/ HttpError(r)
          \/ HttpReadyRead(r)
          \/ HttpFinished(r)
          \/ \E target \in Hosts : Redirect(r, target)

Next == Get \/ PostQuery \/ Return \/ Slots

\* The timer started for a request of query q runs out.
TimeoutOf(q, hop) ==
    /\ q \in Live
    /\ replies[q].hop = hop
    /\ Timeout

\* A wait loop runs an event loop, which fires a timer that is due, and looks at
\* the flags every 20 ms.  A redirection starts the timer again, so it is due
\* only if one request stays under way.  Nothing is assumed of the network.
Spec ==
    /\ Init
    /\ [][Next]_vars
    /\ WF_vars(Return)
    /\ \A q \in Queries, hop \in 0 .. 1 : WF_vars(TimeoutOf(q, hop))

-----------------------------------------------------------------------------
\* Properties.

Pieces == [query : Queries, hop : 0 .. 1, n : 1 .. MaxChunks]

\* The types of the engine's state.
TypeOK ==
    /\ stack \in Seq(Queries)
    /\ queries \in 0 .. MaxQueries
    /\ replies \in Seq([host : Hosts, target : Hosts, post : BOOLEAN, hop : 0 .. 1,
                        live : BOOLEAN, sent : 0 .. MaxChunks])
    /\ url \in Hosts
    /\ data \in Seq(Pieces)
    /\ aborted \in BOOLEAN
    /\ busy \in BOOLEAN
    /\ timer \in BOOLEAN
    /\ failed \subseteq Queries
    /\ result \in Seq([query : Queries, data : Seq(Pieces)])

\* What the last reply of query q has sent.
Body(q) ==
    [n \in 1 .. replies[q].sent |-> [query |-> q, hop |-> replies[q].hop, n |-> n]]

\* GetQueryInBA is documented to return an empty array after a network error or
\* a timeout.
EmptyOnFailure ==
    \A i \in DOMAIN result : result[i].query \in failed => result[i].data = <<>>

\* Between two queries no reply is under way and the timer is off, so nothing of
\* an earlier query can touch the flags or the data of the next.
QuietWhenIdle == stack = <<>> => Live = {} /\ ~timer

\* The query that waits, without reentrancy, as QueriesInTurn sees it.
Current ==
    IF stack = <<>>
    THEN [phase |-> "none", own |-> FALSE, host |-> NoHost, target |-> NoHost, heard |-> <<>>]
    ELSE LET q == stack[1]
         IN  [phase |-> IF aborted THEN "failed" ELSE IF busy THEN "open" ELSE "complete",
              own |-> ~replies[q].post, host |-> replies[q].host,
              target |-> replies[q].target, heard |-> Body(q)]

Turns == INSTANCE QueriesInTurn WITH
    asked <- queries,
    query <- Current,
    answers <- result

\* Queries are answered in turn, each once, with what the host it was led to last
\* sent, whole and in order, or with nothing: no piece of a redirection's body,
\* of an aborted reply or of another query's.  A redirection leads to the host
\* it names, and a relative one to the host that was heard; only the first of a
\* POST is resolved against the URL an earlier query left.
InTurn == Turns!TurnsSpec

\* A query returns, whatever the network does, unless there is no end of
\* redirections: each of them starts the timer again.
QueriesReturn ==
    \/ []<><<\E q \in Queries, target \in Hosts : Redirect(q, target)>>_vars
    \/ \A q \in Queries :
           Waiting(q) ~> (\E i \in DOMAIN result : result[i].query = q)
=============================================================================
