------------------------------- MODULE TcpServer -------------------------------
(***************************************************************************)
(* The accept loop of cppboot::net::TcpServer (src/cppboot/net/tcp/       *)
(* server.cc).  Listen opens the acceptor and calls DoAccept, whose        *)
(* completion handler starts a connection and calls DoAccept again.  Stop *)
(* closes the acceptor.  As in HttpConnection, an accept's completion and  *)
(* its handler are two steps, so Stop can run between them; a pending      *)
(* accept then completes with operation_aborted, and one started on a     *)
(* closed acceptor with bad_descriptor.  The handler checks               *)
(* acceptor_.is_open() but not ec: an accept that failed with the          *)
(* acceptor open still starts a connection, on a socket that is not open. *)
(***************************************************************************)
EXTENDS Naturals, Bags, BagsExt

CONSTANTS
  MaxConns,   \* bound: connections the server hands to the manager
  MaxListens  \* bound: calls of Listen, the first one and restarts after Stop

\* The error codes a queued accept completion can carry
ECs == {"ok", "error", "aborted", "bad_descriptor"}

VARIABLES
  acceptor,   \* "idle" before the first open, "open", or "closed"
  listening,  \* the last Listen returned OkStatus, with DoAccept called
  op,         \* number of async_accepts pending on the open acceptor
  ev,         \* bag of completions queued for the handler, by ec
  conns,      \* bag of the connections given to connection_manager_->Start, by ec
  stopped,    \* Stop() was called after the last Listen
  listens     \* number of Listen calls so far

vars == <<acceptor, listening, op, ev, conns, stopped, listens>>

\* TcpServer(io): acceptor_ not yet open
Init ==
  /\ acceptor = "idle" /\ listening = FALSE /\ op = 0 /\ ev = EmptyBag
  /\ conns = EmptyBag /\ stopped = FALSE /\ listens = 0

(***************************************************************************)
(* DoAccept(): acceptor_.async_accept(handler).  On an open acceptor the  *)
(* accept is pending; on a closed one asio queues the handler at once     *)
(* with bad_descriptor.  isOpen is the acceptor's state at the call.       *)
(***************************************************************************)
DoAccept(isOpen) ==
  IF isOpen THEN op' = op + 1 /\ UNCHANGED ev
  ELSE ev' = BagAdd(ev, "bad_descriptor") /\ UNCHANGED op

(***************************************************************************)
(* Listen(address, port): resolve, open, set_option, bind, listen, then   *)
(* DoAccept().  open() throws on an open acceptor, so a Listen that does  *)
(* anything finds the acceptor idle or closed (a restart after Stop).     *)
(* A throw from bind or listen, after open, leaves the acceptor open      *)
(* with no accept; resolve throwing first changes nothing.                 *)
(***************************************************************************)
Listen ==
  /\ acceptor # "open" /\ listens < MaxListens
  /\ acceptor' = "open" /\ stopped' = FALSE /\ listens' = listens + 1
  /\ \/ listening' = TRUE /\ op' = op + 1
     \/ listening' = FALSE /\ UNCHANGED op
  /\ UNCHANGED <<ev, conns>>

(***************************************************************************)
(* Stop(), also run by ~TcpServer: acceptor_.close().  close() cancels    *)
(* every pending accept, queueing its handler with operation_aborted.      *)
(***************************************************************************)
Stop ==
  /\ acceptor' = IF acceptor = "idle" THEN "idle" ELSE "closed"
  /\ ev' = IF op = 0 THEN ev ELSE ev (+) [e \in {"aborted"} |-> op]
  /\ op' = 0 /\ stopped' = TRUE
  /\ UNCHANGED <<listening, conns, listens>>

\* A client connects, or accept fails (e.g. out of descriptors)
AcceptCompletes ==
  /\ op > 0 /\ BagCardinality(conns) < MaxConns
  /\ \E ec \in {"ok", "error"} : ev' = BagAdd(ev, ec)
  /\ op' = op - 1
  /\ UNCHANGED <<acceptor, listening, conns, stopped, listens>>

\* Fault model: the handler leaves the loop on any error
AcceptHandlerStopsOnError ==
  \E ec \in BagToSet(ev) :
    /\ ev' = BagRemove(ev, ec)
    /\ IF acceptor # "open" \/ ec # "ok"
       THEN UNCHANGED <<op, conns>>
       ELSE conns' = BagAdd(conns, ec) /\ DoAccept(TRUE)
    /\ UNCHANGED <<acceptor, listening, stopped, listens>>

\* Fault model: the handler without its is_open() check
AcceptHandlerNoOpenCheck ==
  \E ec \in BagToSet(ev) :
    /\ conns' = BagAdd(conns, ec)
    /\ IF acceptor = "open" THEN ev' = BagRemove(ev, ec) /\ op' = op + 1
       ELSE ev' = BagAdd(BagRemove(ev, ec), "bad_descriptor") /\ UNCHANGED op
    /\ UNCHANGED <<acceptor, listening, stopped, listens>>

\* Fault model: the handler returns after DoAccept() instead of before it
AcceptHandlerRearmsClosed ==
  \E ec \in BagToSet(ev) :
    /\ IF acceptor # "open"
       THEN /\ ev' = BagAdd(BagRemove(ev, ec), "bad_descriptor")
            /\ UNCHANGED <<op, conns>>
       ELSE /\ ev' = BagRemove(ev, ec) /\ op' = op + 1
            /\ conns' = BagAdd(conns, ec)
    /\ UNCHANGED <<acceptor, listening, stopped, listens>>

(***************************************************************************)
(* DoAccept's handler, run for one queued completion: return if the       *)
(* acceptor is not open; otherwise make a TcpConn of the socket, whatever *)
(* ec was, Start it, and DoAccept() on the still open acceptor.            *)
(***************************************************************************)
AcceptHandler ==
  \E ec \in BagToSet(ev) :
    /\ ev' = BagRemove(ev, ec)
    /\ IF acceptor # "open"
       THEN UNCHANGED <<op, conns>>
       ELSE conns' = BagAdd(conns, ec) /\ op' = op + 1
    /\ UNCHANGED <<acceptor, listening, stopped, listens>>

Next == Listen \/ Stop \/ AcceptCompletes \/ AcceptHandler

\* asio runs every queued handler; clients and the caller of Listen/Stop are not fair
Spec == Init /\ [][Next]_vars /\ WF_vars(AcceptHandler)

-----------------------------------------------------------------------------
TypeOK ==
  /\ acceptor \in {"idle", "open", "closed"} /\ listening \in BOOLEAN
  /\ stopped \in BOOLEAN /\ listens \in 0..MaxListens /\ op \in Nat
  /\ IsABag(ev) /\ BagToSet(ev) \subseteq ECs
  /\ IsABag(conns) /\ BagToSet(conns) \subseteq ECs \ {"bad_descriptor"}

(***************************************************************************)
(* No connection is started after Stop(), even when an accept completed  *)
(* before Stop and its handler runs after it.                              *)
(***************************************************************************)
NoAcceptAfterStop == [][stopped => conns' = conns]_vars

(***************************************************************************)
(* While the acceptor is open and Listen succeeded, the server keeps       *)
(* accepting: an async_accept or its handler is always outstanding, after  *)
(* failed accepts too.                                                     *)
(***************************************************************************)
AcceptLoopArmed ==
  acceptor = "open" /\ listening => op > 0 \/ ev # EmptyBag

(***************************************************************************)
(* After Stop(), the accept chain ends unless Listen restarts the server: *)
(* eventually no accept and no handler is outstanding, so nothing refers  *)
(* to the server any more.                                                 *)
(***************************************************************************)
AcceptLoopEnds == stopped ~> ((op = 0 /\ ev = EmptyBag) \/ ~stopped)

(***************************************************************************)
(* The check at server.cc:39-41 is there so that a handler whose accept   *)
(* was cancelled by Stop() does not start a connection: no connection is  *)
(* ever started from an accept that completed with operation_aborted.      *)
(***************************************************************************)
NoConnFromCancelledAccept == "aborted" \notin BagToSet(conns)
=============================================================================
