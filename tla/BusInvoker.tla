----------------------------- MODULE BusInvoker -----------------------------
(***************************************************************************)
(* cppboot::BusInvoker (src/cppboot/adv/bus/invoker.h): correlates         *)
(* outbound calls with inbound responses by message id.                    *)
(*   next_id_  std::atomic<MsgId>, NextMsgId() is next_id_.fetch_add(1),   *)
(*             wrapping at the width of MsgId;                             *)
(*   waitings_ std::map<MsgId, Result*> under mutex_.                      *)
(* The bodies of Call, ACall and HandleResponseMessage are not under src/;*)
(* they follow spec section 5.  The class is complete at invoker.h:17-39 *)
(* and has no operation that fails pending calls on connection loss.      *)
(*                                                                         *)
(* Call k (k = 1, 2, ...) has a Result object, identified by k, living on  *)
(* its caller's stack for the duration of the call; its request carries    *)
(* payload k, and the peer's response echoes the id and answers with k.    *)
(* An ACall's Result is the caller's (ACall takes a pointer): the caller  *)
(* later waits on it, or destroys it, while its entry may still be in      *)
(* waitings_ (the TODO on waitings_).                                      *)
(***************************************************************************)
EXTENDS Naturals, FiniteSets, Functions

CONSTANTS
  Threads,     \* caller threads
  IdBits,      \* width of MsgId (32 in the code)
  MaxCalls,    \* bound: calls issued in a behaviour
  NoSlot,      \* waitings_ has no entry for the id
  Empty        \* a Result nothing has been delivered into

IdSpace == 2 ^ IdBits
Ids == 0..(IdSpace - 1)
Calls == 1..MaxCalls

VARIABLES
  next_id,     \* next_id_
  waitings,    \* waitings_: Ids -> the Result registered, or NoSlot
  pc,          \* per thread: "idle", "sending", "waiting", "timedout"
  cur,         \* per thread: [id, call] of the call in progress
  slot,        \* per Result: Empty, or the output delivered
  issued,      \* calls issued so far
  returned,    \* per call: what Call returned ([st, out])
  requests,    \* requests the peer has received and not yet answered
  responses,   \* responses on their way back, in no particular order
  connUp,      \* the connection is established
  handles,     \* ACall Results held by their caller: [id, call, owner]
  acalls       \* the calls issued by ACall

vars == <<next_id, waitings, pc, cur, slot, issued, returned,
          requests, responses, connUp, handles, acalls>>

NotReturned == [st |-> "none", out |-> 0]

(***************************************************************************)
(* next_id_ is not initialised in the header; the constructor is not under *)
(* src/, so the first id may be any value of the type.                     *)
(***************************************************************************)
Init ==
  /\ next_id \in Ids
  /\ waitings = [i \in Ids |-> NoSlot]
  /\ pc = [t \in Threads |-> "idle"]
  /\ cur = [t \in Threads |-> [id |-> 0, call |-> 0]]
  /\ slot = [k \in Calls |-> Empty]
  /\ issued = 0
  /\ returned = [k \in Calls |-> NotReturned]
  /\ requests = {}
  /\ responses = {}
  /\ connUp = TRUE
  /\ handles = {}
  /\ acalls = {}

\* Fault model: next_id_.load() where fetch_add(1) was meant
IdAfterStuck(n) == n

\* Fault model: a counter that never wraps at the width of MsgId
IdAfterUnwrapped(n) == n + 1

\* the value fetch_add(1) leaves in next_id_
IdAfter(n) == (n + 1) % IdSpace

Erase(id) == [waitings EXCEPT ![id] = NoSlot]

(***************************************************************************)
(* Call and ACall, first part: id = NextMsgId(); lock mutex_;              *)
(* waitings_[id] = &result.  then is where the caller goes next.           *)
(***************************************************************************)
Register(t, then) ==
  /\ pc[t] = "idle"
  /\ issued < MaxCalls
  /\ LET k == issued + 1 IN
       /\ next_id' = IdAfter(next_id)
       /\ waitings' = [waitings EXCEPT ![next_id] = k]
       /\ cur' = [cur EXCEPT ![t] = [id |-> next_id, call |-> k]]
       /\ issued' = k
       /\ acalls' = IF then = "asending" THEN acalls \cup {k} ELSE acalls
  /\ pc' = [pc EXCEPT ![t] = then]
  /\ UNCHANGED <<slot, returned, requests, responses, connUp, handles>>

CallRegister(t) == Register(t, "sending")

\* msg_writer_(request): bytes written to a lost connection go nowhere
SendRequest(t) == requests' = IF connUp THEN requests \cup {cur[t]} ELSE requests

\* Call: send, then block on the Result
CallSend(t) ==
  /\ pc[t] = "sending"
  /\ SendRequest(t)
  /\ pc' = [pc EXCEPT ![t] = "waiting"]
  /\ UNCHANGED <<next_id, waitings, cur, slot, issued, returned,
                 responses, connUp, handles, acalls>>

\* ACall: the same registration and send
ACallRegister(t) == Register(t, "asending")

\* ... then return at once; the caller keeps its Result
ACallSend(t) ==
  /\ pc[t] = "asending"
  /\ SendRequest(t)
  /\ handles' = handles \cup {[id |-> cur[t].id, call |-> cur[t].call, owner |-> t]}
  /\ pc' = [pc EXCEPT ![t] = "idle"]
  /\ UNCHANGED <<next_id, waitings, cur, slot, issued, returned,
                 responses, connUp, acalls>>

\* The caller of an ACall waits on its Result; from there it resolves as a Call
WaitHandle(t) ==
  /\ pc[t] = "idle"
  /\ \E h \in handles :
       /\ h.owner = t
       /\ handles' = handles \ {h}
       /\ cur' = [cur EXCEPT ![t] = [id |-> h.id, call |-> h.call]]
  /\ pc' = [pc EXCEPT ![t] = "waiting"]
  /\ UNCHANGED <<next_id, waitings, slot, issued, returned, requests, responses,
                 connUp, acalls>>

\* The caller of an ACall destroys its Result unwaited; nothing erases the entry
DropHandle(t) ==
  /\ pc[t] = "idle"
  /\ \E h \in handles : h.owner = t /\ handles' = handles \ {h}
  /\ UNCHANGED <<next_id, waitings, pc, cur, slot, issued, returned, requests,
                 responses, connUp, acalls>>

(***************************************************************************)
(* The peer answers any request it holds, in any order, and may answer the *)
(* same request twice.                                                     *)
(***************************************************************************)
PeerRespond ==
  /\ connUp
  /\ \E q \in requests :
       /\ requests' \in {requests, requests \ {q}}
       /\ responses' = responses \cup {[id |-> q.id, out |-> q.call]}
  /\ UNCHANGED <<handles, next_id, waitings, pc, cur, slot, issued, returned,
                 connUp, acalls>>

(***************************************************************************)
(* HandleResponseMessage(msg): under mutex_, look msg.id up in waitings_;  *)
(* if present, put the output into that Result and wake its waiter; an     *)
(* unknown id (late, duplicate) is dropped.                                *)
(***************************************************************************)
HandleResponseMessage ==
  /\ \E m \in responses :
       /\ responses' = responses \ {m}
       /\ slot' = IF waitings[m.id] # NoSlot
                  THEN [slot EXCEPT ![waitings[m.id]] = m.out]
                  ELSE slot
  /\ UNCHANGED <<handles, next_id, waitings, pc, cur, issued, returned,
                 requests, connUp, acalls>>

\* Call, woken with its Result filled: erase the entry, return OK and the output
CallReturn(t) ==
  /\ pc[t] = "waiting"
  /\ slot[cur[t].call] # Empty
  /\ waitings' = Erase(cur[t].id)
  /\ returned' = [returned EXCEPT ![cur[t].call] = [st |-> "OK", out |-> slot[cur[t].call]]]
  /\ pc' = [pc EXCEPT ![t] = "idle"]
  /\ UNCHANGED <<handles, next_id, cur, slot, issued, requests, responses,
                 connUp, acalls>>

\* The caller's deadline elapses while its Result is still empty
TimeoutFires(t) ==
  /\ pc[t] = "waiting"
  /\ slot[cur[t].call] = Empty
  /\ pc' = [pc EXCEPT ![t] = "timedout"]
  /\ UNCHANGED <<handles, next_id, waitings, cur, slot, issued, returned,
                 requests, responses, connUp, acalls>>

TimeoutCleanup(t) ==
  /\ pc[t] = "timedout"
  /\ waitings' = Erase(cur[t].id)
  /\ returned' = [returned EXCEPT ![cur[t].call] = [st |-> "DeadlineExceeded", out |-> 0]]
  /\ pc' = [pc EXCEPT ![t] = "idle"]
  /\ UNCHANGED <<handles, next_id, cur, slot, issued, requests, responses,
                 connUp, acalls>>

\* The connection drops: whatever is in flight either way is lost
ConnectionLost ==
  /\ connUp
  /\ connUp' = FALSE
  /\ requests' = {}
  /\ responses' = {}
  /\ UNCHANGED <<handles, next_id, waitings, pc, cur, slot, issued, returned, acalls>>

Reconnect ==
  /\ ~connUp
  /\ connUp' = TRUE
  /\ UNCHANGED <<handles, next_id, waitings, pc, cur, slot, issued, returned,
                 requests, responses, acalls>>

Next ==
  \/ \E t \in Threads :
       \/ CallRegister(t) \/ CallSend(t) \/ CallReturn(t)
       \/ ACallRegister(t) \/ ACallSend(t) \/ WaitHandle(t) \/ DropHandle(t)
       \/ TimeoutFires(t) \/ TimeoutCleanup(t)
  \/ PeerRespond
  \/ HandleResponseMessage
  \/ ConnectionLost
  \/ Reconnect

Spec == Init /\ [][Next]_vars

-----------------------------------------------------------------------------
TypeOK ==
  /\ next_id \in Ids
  /\ waitings \in [Ids -> Calls \cup {NoSlot}]
  /\ pc \in [Threads -> {"idle", "sending", "asending", "waiting", "timedout"}]
  /\ cur \in [Threads -> [id : Ids, call : 0..MaxCalls]]
  /\ slot \in [Calls -> {Empty} \cup Calls]
  /\ issued \in 0..MaxCalls
  /\ requests \subseteq [id : Ids, call : Calls]
  /\ responses \subseteq [id : Ids, out : Calls]
  /\ connUp \in BOOLEAN
  /\ handles \subseteq [id : Ids, call : Calls, owner : Threads]
  /\ acalls \subseteq Calls

(***************************************************************************)
(* Correlation: a Call that returns OK returns the answer to its own       *)
(* request, whatever the order, duplication or lateness of responses and   *)
(* however timeouts and reconnections interleave with it.                  *)
(***************************************************************************)
CorrectMatch ==
  \A k \in Calls : returned[k].st = "OK" => returned[k].out = k

=============================================================================
