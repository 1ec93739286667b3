---------------------------- MODULE HttpConnection ----------------------------
(***************************************************************************)
(* One HTTP server connection (src/cppboot/net/http/server/connection.cc) *)
(* and the parse loop of RequestParser (request_parser.h).                 *)
(*                                                                         *)
(* The connection runs a chain of asio completion handlers: DoRead parses  *)
(* what async_read_some returned and then serves and writes, answers       *)
(* bad_request, or reads again.  After the write it shuts the socket down  *)
(* and asks the ConnectionManager to stop it.  A completed operation and   *)
(* its handler are two steps, op then ev: the manager can stop the        *)
(* connection, and close its socket, between them.  A closed socket makes *)
(* a pending operation complete with operation_aborted, and one started   *)
(* after the close fail with bad_descriptor.                               *)
(*                                                                         *)
(* The request is a sequence of tokens.  consume()'s body is not in the    *)
(* repository; it is abstracted to its contract: "h" is a header byte     *)
(* (indeterminate), "e" the byte that completes the header (good), "x" an *)
(* invalid byte (bad), and "b" a body byte.  ConnectionManager is not in  *)
(* the repository either: its Stop(c) erases c and calls c->Stop().       *)
(***************************************************************************)
EXTENDS Naturals, Sequences, SequencesExt

CONSTANTS
  HeaderLen,   \* bytes of the request line and headers
  MaxBody,     \* bound: body bytes of a request
  BufSize,     \* bound: bytes one async_read_some returns at most
  None

VARIABLES
  req,      \* the bytes the client sends
  sent,     \* how many of them it has written
  recv,     \* how many of them the server has read
  peer,     \* "up", or "reset" once the client aborted the connection
  open,     \* socket_ is open
  inMgr,    \* the ConnectionManager holds the connection
  op,       \* the outstanding asio operation [kind, onOpen], or None
  ev,       \* its completion queued for the handler [kind, ec, data], or None
  served,   \* the req.content of each ServeHttp call
  reply,    \* reply_: "none", "handler" (ServeHttp's) or "bad_request"
  shut      \* socket_.shutdown(shutdown_both) has run

vars == <<req, sent, recv, peer, open, inMgr, op, ev, served, reply, shut>>

Request(n) == [i \in 1..(HeaderLen + n) |->
                IF i < HeaderLen THEN "h" ELSE IF i = HeaderLen THEN "e" ELSE "b"]

\* Every request the client may send: well-formed, or with an invalid header byte
Requests == {Request(n) : n \in 0..MaxBody}
              \cup {[Request(n) EXCEPT ![k] = "x"] : n \in 0..MaxBody, k \in 1..HeaderLen}

\* consume(req, input): the parser's verdict on one more byte
Consume(t) == IF t = "e" THEN "good" ELSE IF t = "x" THEN "bad" ELSE "indeterminate"

\* Fault model: the loop returns on good only, and runs past an invalid byte
ParseSkipsBad(data) ==
  LET i == SelectInSeq(data, LAMBDA t : Consume(t) = "good")
  IN IF i = 0 THEN [result |-> "indeterminate", content |-> <<>>]
     ELSE [result |-> "good", content |-> SubSeq(data, i + 1, Len(data))]

(***************************************************************************)
(* parse(req, begin, end): consume bytes until good or bad.  On good,      *)
(* req.content is the rest of this read.                                   *)
(***************************************************************************)
Parse(data) ==
  LET i == SelectInSeq(data, LAMBDA t : Consume(t) # "indeterminate")
  IN IF i = 0 THEN [result |-> "indeterminate", content |-> <<>>]
     ELSE [result |-> Consume(data[i]), content |-> SubSeq(data, i + 1, Len(data))]

\* Start an asio operation on socket_, open or not
Issue(k) == op' = [kind |-> k, onOpen |-> open]

\* connection_manager_.Stop(shared_from_this()): erase, then socket_.close()
MgrStop == inMgr' = FALSE /\ open' = FALSE

\* The manager has accepted the connection and called Start(): DoRead()
Init ==
  /\ req \in Requests
  /\ sent = 0 /\ recv = 0 /\ peer = "up"
  /\ open = TRUE /\ inMgr = TRUE
  /\ op = [kind |-> "read", onOpen |-> TRUE] /\ ev = None
  /\ served = <<>> /\ reply = "none" /\ shut = FALSE

-----------------------------------------------------------------------------
(* The client and the transport *)

\* The client writes more of its request
Send == /\ peer = "up" /\ sent < Len(req)
        /\ \E n \in (sent + 1)..Len(req) : sent' = n
        /\ UNCHANGED <<req, recv, peer, open, inMgr, op, ev, served, reply, shut>>

\* The client aborts the connection
Reset == /\ peer = "up" /\ peer' = "reset"
         /\ UNCHANGED <<req, sent, recv, open, inMgr, op, ev, served, reply, shut>>

\* How an operation on a closed socket completes
ClosedEc == IF op.onOpen THEN "aborted" ELSE "bad_descriptor"

\* async_read_some completes with 1..BufSize of the bytes the client sent
ReadData ==
  /\ op # None /\ op.kind = "read" /\ open /\ recv < sent
  /\ \E k \in 1..BufSize :
       /\ recv + k <= sent
       /\ ev' = [kind |-> "read", ec |-> "ok", data |-> SubSeq(req, recv + 1, recv + k)]
       /\ recv' = recv + k
  /\ op' = None
  /\ UNCHANGED <<req, sent, peer, open, inMgr, served, reply, shut>>

\* async_read_some fails: the socket was closed, or the client reset
ReadFails ==
  /\ op # None /\ op.kind = "read"
  /\ ~open \/ (recv = sent /\ peer = "reset")
  /\ ev' = [kind |-> "read", ec |-> IF open THEN "reset" ELSE ClosedEc, data |-> <<>>]
  /\ op' = None
  /\ UNCHANGED <<req, sent, recv, peer, open, inMgr, served, reply, shut>>

\* async_write completes
WriteDone ==
  /\ op # None /\ op.kind = "write"
  /\ ev' = [kind |-> "write", data |-> <<>>,
            ec |-> IF ~open THEN ClosedEc ELSE IF peer = "reset" THEN "reset" ELSE "ok"]
  /\ op' = None
  /\ UNCHANGED <<req, sent, recv, peer, open, inMgr, served, reply, shut>>

-----------------------------------------------------------------------------
(* The connection's handlers *)

\* TcpConnection::Stop(), called by the manager from outside (StopAll)
Stop == /\ inMgr /\ MgrStop
        /\ UNCHANGED <<req, sent, recv, peer, op, ev, served, reply, shut>>

\* DoRead's completion handler
ReadHandler ==
  /\ ev # None /\ ev.kind = "read" /\ ev' = None
  /\ IF ev.ec = "ok"
     THEN LET p == Parse(ev.data) IN
          /\ IF p.result = "good"
             THEN served' = Append(served, p.content) /\ reply' = "handler"
             ELSE IF p.result = "bad"
             THEN reply' = "bad_request" /\ UNCHANGED served
             ELSE UNCHANGED <<served, reply>>
          /\ Issue(IF p.result = "indeterminate" THEN "read" ELSE "write")
          /\ UNCHANGED <<open, inMgr>>
     ELSE /\ IF ev.ec = "aborted" THEN UNCHANGED <<open, inMgr>> ELSE MgrStop
          /\ UNCHANGED <<op, served, reply>>
  /\ UNCHANGED <<req, sent, recv, peer, shut>>

\* Fault model: the write handler stops the connection only on an error
WriteHandlerOnlyOnError ==
  /\ ev # None /\ ev.kind = "write" /\ ev' = None
  /\ shut' = (shut \/ ev.ec = "ok")
  /\ IF ev.ec \notin {"ok", "aborted"} THEN MgrStop ELSE UNCHANGED <<open, inMgr>>
  /\ UNCHANGED <<req, sent, recv, peer, op, served, reply>>

\* DoWrite's completion handler: shutdown on success, then stop
WriteHandler ==
  /\ ev # None /\ ev.kind = "write" /\ ev' = None
  /\ shut' = (shut \/ ev.ec = "ok")
  /\ IF ev.ec # "aborted" THEN MgrStop ELSE UNCHANGED <<open, inMgr>>
  /\ UNCHANGED <<req, sent, recv, peer, op, served, reply>>

Next ==
  \/ Send \/ Reset
  \/ ReadData \/ ReadFails \/ WriteDone
  \/ Stop \/ ReadHandler \/ WriteHandler

(***************************************************************************)
(* asio runs every completed operation's handler, and completes a read    *)
(* once bytes are there or the socket has failed; a client that has not   *)
(* reset goes on sending its request.  The client's Reset and the         *)
(* manager's Stop are not fair: they may never happen.                    *)
(***************************************************************************)
Fairness ==
  /\ WF_vars(Send)
  /\ WF_vars(ReadData) /\ WF_vars(ReadFails) /\ WF_vars(WriteDone)
  /\ WF_vars(ReadHandler) /\ WF_vars(WriteHandler)

Spec == Init /\ [][Next]_vars /\ Fairness

-----------------------------------------------------------------------------
Corrupted == \E i \in DOMAIN req : req[i] = "x"

\* The body bytes of the request
Body == SelectSeq(req, LAMBDA t : t = "b")

(***************************************************************************)
(* Beyond the types: req.content handed to ServeHttp holds body bytes     *)
(* only, never a byte of the request line or headers.                     *)
(***************************************************************************)
TypeOK ==
  /\ req \in Requests /\ peer \in {"up", "reset"}
  /\ sent \in 0..Len(req) /\ recv \in 0..sent
  /\ open \in BOOLEAN /\ inMgr \in BOOLEAN /\ shut \in BOOLEAN
  /\ served \in Seq(Seq({"b"}))
  /\ reply \in {"none", "handler", "bad_request"}

(***************************************************************************)
(* Whatever way the request is split across reads, the reply DoWrite       *)
(* sends is ServeHttp's for a well-formed request and the stock            *)
(* bad_request for one with an invalid header byte.                        *)
(***************************************************************************)
ReplyMatchesRequest ==
  reply # "none" => reply = IF Corrupted THEN "bad_request" ELSE "handler"

(***************************************************************************)
(* Every connection is eventually released: out of the manager, its       *)
(* socket closed, and no operation or handler left holding its            *)
(* shared_ptr, whether the exchange ends in a reply, a client reset or a  *)
(* Stop from the manager.                                                 *)
(***************************************************************************)
ConnectionReleased == <>[](~inMgr /\ ~open /\ op = None /\ ev = None)

(***************************************************************************)
(* Stated by parse()'s comment, "good when a complete request has been    *)
(* parsed": ServeHttp sees the whole body of the request.                  *)
(***************************************************************************)
RequestBodyComplete == \A i \in DOMAIN served : served[i] = Body
=============================================================================
