--------------------------------- MODULE MCNet ---------------------------------
(***************************************************************************)
(* The two asio loops of src/cppboot/net: the accept loop of TcpServer     *)
(* (server.cc) and an HTTP server connection with its reply (HttpServer).  *)
(* The TcpConn the accept loop starts and the acceptor of the HTTP server  *)
(* are not in the repository, so the two share no state.  A behaviour     *)
(* runs one of them (side), the other staying in its initial state, and   *)
(* every property and every fairness condition is stated on its own side. *)
(***************************************************************************)
EXTENDS Naturals

CONSTANTS
  HeaderLen, MaxBody, BufSize, None, Statuses, BodyLens, Locations, MaxCalls,
  MaxConns, MaxListens

VARIABLES
  req, sent, recv, peer, open, inMgr, op, ev, served, reply, shut, rep,
  acceptor, listening, aop, aev, conns, stopped, listens, side

hsVars == <<req, sent, recv, peer, open, inMgr, op, ev, served, reply, shut, rep>>
tsVars == <<acceptor, listening, aop, aev, conns, stopped, listens>>
vars == <<hsVars, tsVars, side>>

HS == INSTANCE HttpServer
TS == INSTANCE TcpServer WITH op <- aop, ev <- aev

OnHttp == side = "http"
OnTcp == side = "tcp"

Init == HS!Init /\ TS!Init /\ side \in {"http", "tcp"}

Next ==
  \/ OnHttp /\ HS!Next /\ UNCHANGED <<tsVars, side>>
  \/ OnTcp /\ TS!Next /\ UNCHANGED <<hsVars, side>>

\* The fairness of HttpServer and of TcpServer, each on its own side
Fairness ==
  /\ WF_hsVars(OnHttp /\ HS!C!Send /\ UNCHANGED rep)
  /\ WF_hsVars(OnHttp /\ HS!C!ReadData /\ UNCHANGED rep)
  /\ WF_hsVars(OnHttp /\ HS!C!ReadFails /\ UNCHANGED rep)
  /\ WF_hsVars(OnHttp /\ HS!C!WriteDone /\ UNCHANGED rep)
  /\ WF_hsVars(OnHttp /\ HS!ReadHandler)
  /\ WF_hsVars(OnHttp /\ HS!C!WriteHandler /\ UNCHANGED rep)
  /\ WF_tsVars(OnTcp /\ TS!AcceptHandler)

Spec == Init /\ [][Next]_vars /\ Fairness

-----------------------------------------------------------------------------
\* The types of both loops
TypeOK == HS!TypeOK /\ TS!TypeOK

\* ServeHttp's reply for a well-formed request, bad_request for an invalid one
ReplyMatchesRequest == OnHttp => HS!ReplyMatchesRequest

\* Each header line is sent at most once, whatever the handler's calls
HeaderLinesUnique == OnHttp => HS!HeaderLinesUnique

\* Content-Length is the decimal length of the content sent
ContentLengthExact == OnHttp => HS!ContentLengthExact

\* A stock page goes out under its own status line
StatusLineMatchesPage == OnHttp => HS!StatusLineMatchesPage

\* Every HTTP connection ends out of the manager, closed and idle
ConnectionReleased == OnHttp => HS!ConnectionReleased

\* While the acceptor is open after a successful Listen, an accept or its
\* handler is outstanding
AcceptLoopArmed == OnTcp => TS!AcceptLoopArmed

\* No connection is started after Stop(), by a handler that ran late either
\* (on the HTTP side the accept loop never moves)
NoAcceptAfterStop == TS!NoAcceptAfterStop

\* After Stop() the accept chain ends unless Listen restarts the server
\* (on the HTTP side Stop never runs)
AcceptLoopEnds == TS!AcceptLoopEnds

\* A handler whose accept Stop() cancelled never starts a connection, the
\* intent of the is_open() check at server.cc:39-41
NoConnFromCancelledAccept == OnTcp => TS!NoConnFromCancelledAccept
=============================================================================
