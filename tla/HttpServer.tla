------------------------------- MODULE HttpServer -------------------------------
(***************************************************************************)
(* An HTTP server connection together with the reply it writes: the        *)
(* TcpConnection of HttpConnection, whose reply_ is a Response.  DoRead's  *)
(* handler either lets request_handler_.ServeHttp(request_, &reply_) make  *)
(* its calls on reply_, or assigns Response::stock_reply(bad_request) to   *)
(* it; DoWrite then sends reply_.to_buffers().                              *)
(*                                                                         *)
(* The request handler is user code: it is any sequence of at most         *)
(* MaxCalls calls of Response's interface.  A handler runs to completion  *)
(* on the io_context before DoWrite, so its calls are part of DoRead's     *)
(* handler step.                                                           *)
(***************************************************************************)
EXTENDS Naturals, Sequences

CONSTANTS
  HeaderLen, MaxBody, BufSize, None,
  Statuses, BodyLens, Locations,
  MaxCalls     \* bound: calls one ServeHttp makes on its reply

VARIABLES
  req, sent, recv, peer, open, inMgr, op, ev, served, reply, shut,
  rep          \* reply_, a Response value

conn == <<req, sent, recv, peer, open, inMgr, op, ev, served, reply, shut>>
vars == <<conn, rep>>

C == INSTANCE HttpConnection
R == INSTANCE Response

\* What ServeHttp may do to reply_: one to MaxCalls calls, in order
Handlers == UNION {[1..n -> R!Calls] : n \in 1..MaxCalls}

\* reply_ is a default-constructed member: its status is uninitialised
Init == C!Init /\ \E s \in Statuses : rep = R!Default(s)

(***************************************************************************)
(* DoRead's handler: the connection's step, and on a complete request      *)
(* ServeHttp's calls on reply_, or reply_ = stock_reply(bad_request) on an *)
(* invalid one.                                                            *)
(***************************************************************************)
ReadHandler ==
  /\ C!ReadHandler
  /\ LET p == C!Parse(ev.data) IN
     IF ev.ec = "ok" /\ p.result = "good"
     THEN \E h \in Handlers : rep' = R!ApplyAll(rep, h)
     ELSE IF ev.ec = "ok" /\ p.result = "bad"
     THEN rep' = R!StockReply(400)
     ELSE UNCHANGED rep

\* Every other step leaves reply_ alone
Others ==
  /\ \/ C!Send \/ C!Reset
     \/ C!ReadData \/ C!ReadFails \/ C!WriteDone
     \/ C!Stop \/ C!WriteHandler
  /\ UNCHANGED rep

Next == ReadHandler \/ Others

\* The fairness of HttpConnection, on the composed steps
Spec ==
  /\ Init /\ [][Next]_vars
  /\ WF_vars(C!Send /\ UNCHANGED rep)
  /\ WF_vars(C!ReadData /\ UNCHANGED rep) /\ WF_vars(C!ReadFails /\ UNCHANGED rep)
  /\ WF_vars(C!WriteDone /\ UNCHANGED rep)
  /\ WF_vars(ReadHandler) /\ WF_vars(C!WriteHandler /\ UNCHANGED rep)

-----------------------------------------------------------------------------
\* The types of the connection and of reply_
TypeOK == C!TypeOK /\ R!TypeOK(rep)

\* ServeHttp's reply for a well-formed request, bad_request for an invalid one
ReplyMatchesRequest == C!ReplyMatchesRequest

\* Every connection is eventually out of the manager, closed and idle
ConnectionReleased == C!ConnectionReleased

(***************************************************************************)
(* Whatever calls ServeHttp makes on reply_, the response DoWrite sends   *)
(* carries each header line at most once (the TODO above set_header).      *)
(***************************************************************************)
HeaderLinesUnique == R!HeaderLinesUnique(rep)

(***************************************************************************)
(* The Content-Length DoWrite sends is the decimal length of the content   *)
(* it sends, after any sequence of the handler's calls.                    *)
(***************************************************************************)
ContentLengthExact == R!ContentLengthExact(rep)

(***************************************************************************)
(* A stock page is sent under the status line of its own status, for a     *)
(* status outside the enumeration too.                                     *)
(***************************************************************************)
StatusLineMatchesPage == R!StatusLineMatchesPage(rep)
=============================================================================
