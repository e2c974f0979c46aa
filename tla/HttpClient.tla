------------------------------ MODULE HttpClient ------------------------------
(***************************************************************************)
(* The HTTP client (Client.c) and its connection pool (Socket.c).  Each    *)
(* request is a context driven by HttpKick through its stages: acquire a   *)
(* connection, perhaps handshake, send, receive until the whole answer is  *)
(* there, give the connection back, call the caller back.                  *)
(*                                                                         *)
(* A step is a completion routine or a work item, run to the point where   *)
(* it issues the next operation.  Completion routines run at PASSIVE or at *)
(* DISPATCH level, whichever the stack chooses.  An operation in flight    *)
(* always ends, by its watchdog at the latest (SocketAsync).               *)
(*                                                                         *)
(* A connection is a stream of pieces: an answer is its header and its     *)
(* body.  The server may refuse, say too much, fall silent, or close       *)
(* whenever it likes.                                                      *)
(***************************************************************************)
EXTENDS Integers, Sequences

CONSTANTS Requests,
          Metadata,         \* the requests that are not file reads
          Connections,      \* connections the model may have at once
          SocketMaxPoolSize,
          ConnectAttempts,  \* HTTP_CONNECT_ATTEMPTS
          None

ASSUME HttpClientAssumption ==
  /\ Metadata \subseteq Requests
  /\ ConnectAttempts \in Nat \ {0} /\ SocketMaxPoolSize \in Nat
  /\ None \notin Requests \cup Connections
  /\ Connections # {}

VARIABLES
  tls,    \* global.TlsEnabled
  ctx,    \* each request's HTTP_CONTEXT
  conn,   \* each connection, both ends of it
  pool    \* SocketPool.List

vars == <<tls, ctx, conn, pool>>

Levels == {"passive", "dispatch"}

Piece(r, part) == [of |-> r, part |-> part]

\* The answer to a request.
Answer(r) == <<Piece(r, "head"), Piece(r, "body")>>

Blank == [open |-> FALSE, shaken |-> FALSE, peer |-> TRUE, todo |-> <<>>, wire |-> <<>>, acc |-> <<>>]

Idle == [stage |-> "idle", source |-> "poolable", conn |-> None, got |-> <<>>,
         lost |-> <<>>, timeouts |-> 0, told |-> 0, out |-> None]

\* Beside the code's fields: lost, what a retry threw away of an answer; told,
\* the callbacks made; out, what the last was given.

\* The pool starts empty, or with one connection of the pre-warm's, which has
\* handshaken if TLS is on (SocketPrewarm).
Init ==
  /\ tls \in BOOLEAN
  /\ ctx = [r \in Requests |-> Idle]
  /\ \/ pool = <<>> /\ conn = [c \in Connections |-> Blank]
     \/ LET w == CHOOSE c \in Connections : TRUE IN
          /\ pool = <<w>>
          /\ conn = [c \in Connections |-> IF c = w THEN [Blank EXCEPT !.open = TRUE, !.shaken = tls] ELSE Blank]

InUse == {ctx[r].conn : r \in Requests} \cup {pool[i] : i \in DOMAIN pool}

\* BlorgCloseWskSocketAsync, on the connections and the pool N.
Closed(N, c) == IF c = None THEN N ELSE [N EXCEPT !.conn[c] = Blank]

Now == [conn |-> conn, pool |-> pool]

-----------------------------------------------------------------------------
(* The handlers' common tails: x is the context and N the connections and  *)
(* the pool as the handler has left them so far.                           *)

Becomes(r, x, N) == ctx' = [ctx EXCEPT ![r] = x] /\ conn' = N.conn /\ pool' = N.pool

HttpMustBounceToPassive(r, irql) == r \in Metadata /\ irql = "dispatch"

\* The callback runs, with what the answer is made of or None for a failure, and
\* the context is freed.
CalledBack(x, answer) == [Idle EXCEPT !.stage = "done", !.told = x.told + 1, !.out = answer]

\* A failure waits for PASSIVE level; only the connection is still needed.
Bounced(x) == [Idle EXCEPT !.stage = "completeWork", !.conn = x.conn, !.told = x.told]

\* HttpComplete with a failure: the callback, at PASSIVE level unless it is a
\* file read's; the connection is closed and the context freed.
HttpFailed(r, x, N, irql) ==
  IF HttpMustBounceToPassive(r, irql)
  THEN Becomes(r, Bounced(x), N)
  ELSE Becomes(r, CalledBack(x, None), Closed(N, x.conn))

\* HttpStageSendRequest: the request may fail to be encrypted or issued.
HttpSend(r, x, N, irql) ==
  \/ Becomes(r, [x EXCEPT !.stage = "sending"], N)
  \/ HttpFailed(r, x, N, irql)

\* HttpOnSocket, given a connection.
HttpOnSocket(r, x, N, irql) ==
  IF tls /\ ~N.conn[x.conn].shaken
  THEN Becomes(r, [x EXCEPT !.stage = IF irql = "dispatch" THEN "handshakeWork" ELSE "handshaking"], N)
  ELSE HttpSend(r, x, N, irql)

\* The slow path of BlorgAcquireReusableWskSocketAsync.  New connections are
\* all alike.
Connect(r, x, N, irql) ==
  \/ Becomes(r, [x EXCEPT !.stage = "connecting", !.conn = CHOOSE c \in Connections : c \notin InUse], N)
  \/ HttpFailed(r, x, N, irql)

\* HttpStageAcquireSocket.  At DISPATCH level a fresh connect needs a work
\* item, which a plaintext file read has to allocate first.
HttpAcquire(r, x, N, irql) ==
  CASE x.source = "fresh" /\ irql = "dispatch" ->
         \/ Becomes(r, [x EXCEPT !.stage = "acquireWork"], N)
         \/ r \notin Metadata /\ ~tls /\ HttpFailed(r, x, N, irql)
    [] x.source # "fresh" /\ N.pool # <<>> ->
         HttpOnSocket(r, [x EXCEPT !.conn = Head(N.pool), !.source = "reused"], [N EXCEPT !.pool = Tail(@)], irql)
    [] OTHER -> Connect(r, x, N, irql)

\* Mutant: a request is retried although part of its answer was received.
MayRetry_always(x) == x.source = "reused"

\* HttpTryRetryReusedConnection's condition.
MayRetry(x) == x.source = "reused" /\ x.got = <<>>

\* HttpFailOrRetryReusedConnection.
HttpFailOrRetry(r, x, N, irql) ==
  IF MayRetry(x)
  THEN HttpAcquire(r, [x EXCEPT !.source = "fresh", !.conn = None, !.got = <<>>, !.lost = x.got], Closed(N, x.conn), irql)
  ELSE HttpFailed(r, x, N, irql)

\* HttpDispatchInline: the callback runs, with what the context has received:
\* the version is the header's, the bytes are the body's.  A metadata operation
\* may fail to deserialize it.
HttpDispatchInline(r, x, N) ==
  \/ Becomes(r, CalledBack(x, x.got), N)
  \/ r \in Metadata /\ HttpFailed(r, x, N, "passive")

\* BlorgReleaseReusableWskSocket.
Released(N, c) ==
  IF Len(N.pool) >= SocketMaxPoolSize THEN Closed(N, c) ELSE [N EXCEPT !.pool = <<c>> \o @]

\* The end of HttpReadResponse, and HttpDispatch.
HttpAnswered(r, x, N, irql) ==
  LET y == [x EXCEPT !.conn = None] IN
  IF HttpMustBounceToPassive(r, irql)
  THEN Becomes(r, [y EXCEPT !.stage = "dispatchWork"], Released(N, x.conn))
  ELSE HttpDispatchInline(r, y, Released(N, x.conn))

\* Mutant: the answer counts as whole after its header.
Verdict_headSuffices(got) ==
  LET parts == [i \in DOMAIN got |-> got[i].part] IN
  CASE parts = <<>> -> "more"
    [] parts \in {<<"head">>, <<"head", "body">>} -> "whole"
    [] OTHER -> "bad"

\* HttpReadResponse's decision, with HttpParseHeaders': the headers are
\* incomplete, or the body is; a piece is not what it must be, or there is
\* too much; or the answer is whole.
Verdict(got) ==
  LET parts == [i \in DOMAIN got |-> got[i].part] IN
  CASE parts \in {<<>>, <<"head">>} -> "more"
    [] parts = <<"head", "body">> -> "whole"
    [] OTHER -> "bad"

\* The receive is posted, or cannot be (HttpIssueReceive).
PostReceive(r, x, N, irql) ==
  \/ Becomes(r, [x EXCEPT !.stage = "receiving"], N)
  \/ HttpFailed(r, x, N, irql)

HttpReadResponse(r, x, N, irql) ==
  CASE Verdict(x.got) = "more" -> PostReceive(r, x, N, irql)
    [] Verdict(x.got) = "bad" -> HttpFailed(r, x, N, irql)
    [] Verdict(x.got) = "whole" -> HttpAnswered(r, x, N, irql)

\* HttpIssueTlsReceive: records are taken from the connection's accumulator
\* until the answer is whole or wrong, an alert turns up, or none is left.  A
\* session ticket is taken and dropped.  What follows the answer stays.
HttpIssueTlsReceive(r, x, N, irql) ==
  LET acc == N.conn[x.conn].acc
      GotBy(n) == x.got \o SelectSeq(SubSeq(acc, 1, n), LAMBDA p : p.part # "ticket")
      stops == {n \in DOMAIN acc : acc[n].part = "alert" \/ Verdict(GotBy(n)) # "more"}
      taken == IF stops = {} THEN Len(acc) ELSE CHOOSE m \in stops : \A k \in stops : m <= k
      D == [N EXCEPT !.conn[x.conn].acc = SubSeq(acc, taken + 1, Len(acc))]
  IN IF stops # {} /\ acc[taken].part = "alert"
     THEN HttpFailOrRetry(r, [x EXCEPT !.got = GotBy(taken - 1)], D, irql)
     ELSE HttpReadResponse(r, [x EXCEPT !.got = GotBy(taken)], D, irql)

\* HttpIssueReceiveDispatch.
HttpReceive(r, x, N, irql) ==
  IF tls THEN HttpIssueTlsReceive(r, x, N, irql) ELSE PostReceive(r, x, N, irql)

-----------------------------------------------------------------------------
(* The request.                                                            *)

\* BlorgHttpGetDirectoryInfo, ...FileInformation, ...Changes, ...File: the
\* context is allocated behind the gate and the request built ...
BlorgHttpGet(r) ==
  /\ ctx[r].stage = "idle"
  /\ ctx' = [ctx EXCEPT ![r].stage = "start"]
  /\ UNCHANGED <<tls, conn, pool>>

\* ... unless the gate is shut or there is no memory: the caller is told at
\* once, and not called back.
BlorgHttpGetRefused(r) ==
  /\ ctx[r].stage = "idle"
  /\ ctx' = [ctx EXCEPT ![r].stage = "refused"]
  /\ UNCHANGED <<tls, conn, pool>>

\* The first HttpKick, and HttpAcquireSocketWorker.
HttpKick(r) ==
  /\ ctx[r].stage \in {"start", "acquireWork"}
  /\ HttpAcquire(r, ctx[r], Now, "passive")
  /\ UNCHANGED tls

\* HttpOnSocket, from the connect's completion routine.  ConnectTimeouts is not
\* looked at again: no connect follows a fresh connection.
Connected(r) ==
  /\ ctx[r].stage = "connecting"
  /\ \E irql \in Levels :
       HttpOnSocket(r, [ctx[r] EXCEPT !.source = "fresh", !.timeouts = 0], [Now EXCEPT !.conn[ctx[r].conn].open = TRUE], irql)
  /\ UNCHANGED tls

MayReconnect(x) == x.timeouts + 1 < ConnectAttempts

ConnectTimedOut(r) ==
  /\ ctx[r].stage = "connecting"
  /\ \E irql \in Levels :
       LET x == [ctx[r] EXCEPT !.conn = None] IN
       IF MayReconnect(x)
       THEN HttpAcquire(r, [x EXCEPT !.timeouts = @ + 1, !.source = "fresh"], Now, irql)
       ELSE HttpFailed(r, x, Now, irql)
  /\ UNCHANGED tls

ConnectFails(r) ==
  /\ ctx[r].stage = "connecting"
  /\ \E irql \in Levels : HttpFailed(r, [ctx[r] EXCEPT !.conn = None], Now, irql)
  /\ UNCHANGED tls

HttpTlsHandshakeWorker(r) ==
  /\ ctx[r].stage = "handshakeWork"
  /\ ctx' = [ctx EXCEPT ![r].stage = "handshaking"]
  /\ UNCHANGED <<tls, conn, pool>>

\* HttpOnTlsHandshakeComplete.  The server may follow the handshake with a
\* session ticket.
HttpOnTlsHandshakeComplete(r) ==
  /\ ctx[r].stage = "handshaking"
  /\ \E irql \in Levels, ticket \in {<<>>, <<Piece(None, "ticket")>>} :
       HttpSend(r, ctx[r], [Now EXCEPT !.conn[ctx[r].conn].shaken = TRUE, !.conn[ctx[r].conn].wire = @ \o ticket], irql)
  /\ UNCHANGED tls

\* The send is accepted, though the peer may have closed.
HttpOnSend(r) ==
  /\ ctx[r].stage = "sending"
  /\ \E irql \in Levels :
       HttpReceive(r, ctx[r],
         [Now EXCEPT !.conn[ctx[r].conn].todo = IF conn[ctx[r].conn].peer THEN @ \o Answer(r) ELSE @], irql)
  /\ UNCHANGED tls

\* A handshake, a send or a receive fails or times out.
OperationFails(r) ==
  /\ ctx[r].stage \in {"handshaking", "sending", "receiving"}
  /\ \E irql \in Levels : HttpFailOrRetry(r, ctx[r], Now, irql)
  /\ UNCHANGED tls

\* HttpOnReceive, HttpOnTlsReceive: some of what has arrived, but in plaintext
\* exactly the body once it is the body that is awaited (WSK_FLAG_WAITALL).
HttpOnReceive(r) ==
  LET x == ctx[r]
      wire == conn[x.conn].wire
      Rest(n) == [Now EXCEPT !.conn[x.conn].wire = SubSeq(wire, n + 1, Len(wire))]
  IN /\ x.stage = "receiving"
     /\ \E n \in DOMAIN wire, irql \in Levels :
          IF tls
          THEN HttpIssueTlsReceive(r, x, [Rest(n) EXCEPT !.conn[x.conn].acc = @ \o SubSeq(wire, 1, n)], irql)
          ELSE /\ x.got # <<>> => n = 1
               /\ HttpReadResponse(r, [x EXCEPT !.got = @ \o SubSeq(wire, 1, n)], Rest(n), irql)
     /\ UNCHANGED tls

\* The same, with no bytes: the peer has closed.
ReceivedNothing(r) ==
  /\ ctx[r].stage = "receiving"
  /\ conn[ctx[r].conn].wire = <<>> /\ ~conn[ctx[r].conn].peer
  /\ \E irql \in Levels : HttpFailOrRetry(r, ctx[r], Now, irql)
  /\ UNCHANGED tls

HttpDispatchWorker(r) ==
  /\ ctx[r].stage = "dispatchWork"
  /\ HttpDispatchInline(r, ctx[r], Now)
  /\ UNCHANGED tls

\* Mutant: the bounced failure never calls back.
HttpCompleteWorker_silent(r) ==
  /\ ctx[r].stage = "completeWork"
  /\ Becomes(r, [Idle EXCEPT !.stage = "done"], Closed(Now, ctx[r].conn))
  /\ UNCHANGED tls

HttpCompleteWorker(r) ==
  /\ ctx[r].stage = "completeWork"
  /\ HttpFailed(r, ctx[r], Now, "passive")
  /\ UNCHANGED tls

-----------------------------------------------------------------------------
(* The server.                                                             *)

\* The next piece of an answer goes out, the last perhaps with more than the
\* length the header gave.  Or it never does: nothing makes the server take this
\* step.
ServerAnswers(c) ==
  /\ conn[c].todo # <<>>
  /\ LET p == Head(conn[c].todo) IN
       \E more \in {<<>>} \cup (IF p.part = "body" THEN {<<[p EXCEPT !.part = "excess"]>>} ELSE {}) :
         conn' = [conn EXCEPT ![c].todo = Tail(@), ![c].wire = @ \o <<p>> \o more]
  /\ UNCHANGED <<tls, ctx, pool>>

\* The server answers with a status or a length other than the expected one.
ServerRefuses(c) ==
  /\ conn[c].todo # <<>> /\ Head(conn[c].todo).part = "head"
  /\ conn' = [conn EXCEPT ![c].todo = <<>>, ![c].wire = Append(@, [Head(conn[c].todo) EXCEPT !.part = "refusal"])]
  /\ UNCHANGED <<tls, ctx, pool>>

\* The peer closes, over TLS perhaps with an alert.  What it sent before may
\* still be read.
ServerCloses(c) ==
  /\ conn[c].open /\ conn[c].peer
  /\ \E alert \in {<<>>} \cup (IF conn[c].shaken THEN {<<Piece(None, "alert")>>} ELSE {}) :
       conn' = [conn EXCEPT ![c].peer = FALSE, ![c].todo = <<>>, ![c].wire = @ \o alert]
  /\ UNCHANGED <<tls, ctx, pool>>

Finished ==
  /\ \A r \in Requests : ctx[r].stage \in {"done", "refused"}
  /\ UNCHANGED vars

-----------------------------------------------------------------------------
Work(r) ==
  \/ HttpKick(r) \/ HttpTlsHandshakeWorker(r) \/ HttpDispatchWorker(r) \/ HttpCompleteWorker(r)

Completes(r) ==
  \/ Connected(r) \/ ConnectTimedOut(r) \/ ConnectFails(r) \/ HttpOnTlsHandshakeComplete(r) \/ HttpOnSend(r)
  \/ OperationFails(r) \/ HttpOnReceive(r) \/ ReceivedNothing(r)

Next ==
  \/ \E r \in Requests : BlorgHttpGet(r) \/ BlorgHttpGetRefused(r) \/ Work(r) \/ Completes(r)
  \/ \E c \in Connections : ServerAnswers(c) \/ ServerRefuses(c) \/ ServerCloses(c)
  \/ Finished

Spec == Init /\ [][Next]_vars

\* A queued work item runs, and an operation in flight ends: its watchdog
\* sees to that.  Nothing is assumed of the server.
FairSpec == Spec /\ \A r \in Requests : WF_vars(Work(r) \/ Completes(r))

-----------------------------------------------------------------------------
(* Properties.                                                             *)

\* What has yet to be read on connection c, in the accumulator, on the way and
\* with the server.
Unread(c) == conn[c].acc \o conn[c].wire \o conn[c].todo

\* A connection belongs to the pool or to one request, never to two, and one
\* that belongs to neither has been closed ("Pool ownership model").  The
\* pool keeps to its cap, and no part of an answer is unread on a pooled
\* connection (HttpReadResponse's test against BodyEndOffset; HttpComplete's
\* "closed rather than pooled"): what may be left there is what the server said
\* beyond the length it gave, a session ticket or an alert, none of which the
\* next request takes for its answer.
PoolIsSound ==
  /\ Len(pool) <= SocketMaxPoolSize
  /\ \A i, j \in DOMAIN pool : pool[i] = pool[j] => i = j
  /\ \A r \in Requests : ctx[r].conn # None =>
       /\ \A s \in Requests \ {r} : ctx[s].conn # ctx[r].conn
       /\ \A i \in DOMAIN pool : pool[i] # ctx[r].conn
  /\ \A c \in Connections \ InUse : conn[c] = Blank
  /\ \A i \in DOMAIN pool : \A k \in DOMAIN Unread(pool[i]) :
       Unread(pool[i])[k].part \in {"excess", "ticket", "alert"}

\* A request is issued again only if it went out on a reused connection and not
\* a byte of the answer was received, in the very step that gives up included
\* (HttpTryRetryReusedConnection); only a connect that timed out is otherwise
\* repeated, HTTP_CONNECT_ATTEMPTS times in all.
RetryIsBounded ==
  [][\A r \in Requests :
       /\ ctx'[r].timeouts < ConnectAttempts
       /\ ctx'[r].lost = <<>>
       /\ ctx'[r].stage \in {"acquireWork", "connecting"} =>
            \/ ctx[r].stage \in {"start", "acquireWork", "connecting"}
            \/ ctx[r].source = "reused"]_vars

\* What the callers have seen.  A context freed without a callback, called
\* back twice, or called back with anything but the whole answer to the request
\* itself is no outcome the promise knows.
Outcome(r) ==
  CASE ctx[r].stage = "idle" -> "none"
    [] ctx[r].stage = "refused" -> "refused"
    [] ctx[r].told = 0 /\ ctx[r].stage # "done" -> "pending"
    [] ctx[r].told = 1 /\ ctx[r].out = None -> "failed"
    [] ctx[r].told = 1 /\ ctx[r].out = Answer(r) -> "own"
    [] OTHER -> "broken"

Promise == INSTANCE FetchService WITH outcome <- [r \in Requests |-> Outcome(r)]

\* The client implements FetchService: each accepted request is called back
\* exactly once, in the end, and never with the answer to another, through
\* reuse of connections, retries, late answers and closes.
KeepsItsPromise == Promise!Spec
=============================================================================
