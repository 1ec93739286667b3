-------------------------------- MODULE Status --------------------------------
(***************************************************************************)
(* cppboot::Status (src/cppboot/base/status.h): an OK status has a null    *)
(* state_; any other status owns a new[] block holding its code and        *)
(* message.  The copy operations duplicate the block (CopyState), the      *)
(* moves hand it over, and Update adopts a new status only while the       *)
(* current one is OK.                                                      *)
(*                                                                         *)
(* Slots are Status objects that are constructed and destroyed over time.  *)
(* heap[b] is the content of block b, or Free.  fault records undefined    *)
(* behaviour: a freed block read by CopyState or deleted again.  The       *)
(* bodies of Status(code, msg), CopyState and ~Status are not in the       *)
(* repository.  They are modelled by the representation the header        *)
(* documents: a fresh block for an error code, and delete[] state_.        *)
(***************************************************************************)
EXTENDS Naturals, FiniteSets

CONSTANTS
  Slots,    \* Status objects
  Blocks,   \* heap blocks new[] can return; bound: at most this many live
  Codes,    \* error codes (StatusCode other than kOk)
  kOk,
  Msgs,     \* messages
  Null,     \* nullptr
  Free      \* a block not allocated

VARIABLES
  alive,    \* alive[s]: slot s holds a constructed Status
  st,       \* st[s]: its state_
  heap,     \* heap[b]: [code, msg] of an allocated block, or Free
  fault     \* "none", "use_after_free" or "double_free"

vars == <<alive, st, heap, fault>>

\* The new[] array of an error status: its code and message
ErrorState == [code : Codes, msg : Msgs]

\* ok() and code()
Ok(s) == st[s] = Null
Code(s) == IF Ok(s) THEN kOk ELSE heap[st[s]].code

FreeBlocks == {b \in Blocks : heap[b] = Free}

\* delete[] state_ as a step on heap h, or the fault it is
Delete(h, b) == IF b = Null THEN h ELSE [h EXCEPT ![b] = Free]
DeleteFault(h, b) == IF b # Null /\ h[b] = Free THEN "double_free" ELSE "none"

Init ==
  /\ alive = [s \in Slots |-> FALSE]
  /\ st = [s \in Slots |-> Null]
  /\ heap = [b \in Blocks |-> Free]
  /\ fault = "none"

\* Status() and OkStatus(): state_(nullptr)
DefaultConstruct(d) ==
  /\ ~alive[d]
  /\ alive' = [alive EXCEPT ![d] = TRUE]
  /\ st' = [st EXCEPT ![d] = Null]
  /\ UNCHANGED <<heap, fault>>

\* Fault model: Status(code, msg) allocates a block even for kOk
ConstructNoOkCheck(d, c, m) ==
  /\ ~alive[d] /\ FreeBlocks # {}
  /\ \E b \in FreeBlocks :
       /\ heap' = [heap EXCEPT ![b] = [code |-> c, msg |-> m]]
       /\ st' = [st EXCEPT ![d] = b]
  /\ alive' = [alive EXCEPT ![d] = TRUE]
  /\ UNCHANGED fault

\* Status(code, msg): OK is a null state_, an error a fresh block
Construct(d, c, m) ==
  /\ ~alive[d]
  /\ IF c = kOk
     THEN st' = [st EXCEPT ![d] = Null] /\ UNCHANGED heap
     ELSE /\ FreeBlocks # {}
          /\ \E b \in FreeBlocks :
               /\ heap' = [heap EXCEPT ![b] = [code |-> c, msg |-> m]]
               /\ st' = [st EXCEPT ![d] = b]
  /\ alive' = [alive EXCEPT ![d] = TRUE]
  /\ UNCHANGED fault

(***************************************************************************)
(* state_ = rhs == nullptr ? nullptr : CopyState(rhs), on heap h: the      *)
(* steps that give slot d the copy, f the fault so far.  Reading a freed   *)
(* block is a fault; the copy then holds what the freed memory held.       *)
(***************************************************************************)
CopyInto(d, h, src, f) ==
  IF src = Null
  THEN st' = [st EXCEPT ![d] = Null] /\ heap' = h /\ fault' = f
  ELSE /\ \E b \in {x \in Blocks : h[x] = Free} :
            /\ heap' = [h EXCEPT ![b] = IF h[src] = Free THEN heap[src] ELSE h[src]]
            /\ st' = [st EXCEPT ![d] = b]
       /\ fault' = IF f = "none" /\ h[src] = Free THEN "use_after_free" ELSE f

\* The fault after delete[] state_ of slot d
FaultAfterDelete(d) == IF fault = "none" THEN DeleteFault(heap, st[d]) ELSE fault

\* Status(const Status& rhs)
CopyConstruct(d, s) ==
  /\ ~alive[d] /\ alive[s]
  /\ CopyInto(d, heap, st[s], fault)
  /\ alive' = [alive EXCEPT ![d] = TRUE]

\* Fault model: operator=(const Status&) without the aliasing check
CopyAssignNoSelfCheck(d, s) ==
  /\ alive[d] /\ alive[s]
  /\ CopyInto(d, Delete(heap, st[d]), st[s], FaultAfterDelete(d))
  /\ UNCHANGED alive

\* operator=(const Status& rhs): if (state_ != rhs.state_) delete, copy
CopyAssign(d, s) ==
  /\ alive[d] /\ alive[s]
  /\ IF st[d] # st[s]
     THEN CopyInto(d, Delete(heap, st[d]), st[s], FaultAfterDelete(d))
     ELSE UNCHANGED <<st, heap, fault>>
  /\ UNCHANGED alive

\* Fault model: the move constructor leaves rhs.state_ set
MoveConstructNoReset(d, s) ==
  /\ ~alive[d] /\ alive[s]
  /\ st' = [st EXCEPT ![d] = st[s]]
  /\ alive' = [alive EXCEPT ![d] = TRUE]
  /\ UNCHANGED <<heap, fault>>

\* Status(Status&& rhs): state_(rhs.state_), rhs.state_ = nullptr
MoveConstruct(d, s) ==
  /\ ~alive[d] /\ alive[s]
  /\ st' = [st EXCEPT ![d] = st[s], ![s] = Null]
  /\ alive' = [alive EXCEPT ![d] = TRUE]
  /\ UNCHANGED <<heap, fault>>

\* operator=(Status&& rhs): std::swap(state_, rhs.state_)
MoveAssign(d, s) ==
  /\ alive[d] /\ alive[s]
  /\ st' = [st EXCEPT ![d] = st[s], ![s] = st[d]]
  /\ UNCHANGED <<alive, heap, fault>>

\* Update(const Status&): if (ok()) *this = new_status
Update(d, s) ==
  /\ alive[d] /\ alive[s]
  /\ Ok(d)
  /\ CopyAssign(d, s)

\* Update(Status&&): if (ok()) *this = std::move(new_status)
UpdateMove(d, s) ==
  /\ alive[d] /\ alive[s]
  /\ Ok(d)
  /\ MoveAssign(d, s)

\* ~Status(): delete[] state_
Destroy(d) ==
  /\ alive[d]
  /\ heap' = Delete(heap, st[d])
  /\ fault' = FaultAfterDelete(d)
  /\ alive' = [alive EXCEPT ![d] = FALSE]
  /\ st' = [st EXCEPT ![d] = Null]

Next ==
  \/ \E d \in Slots :
       \/ DefaultConstruct(d) \/ Destroy(d)
       \/ \E c \in Codes \cup {kOk}, m \in Msgs : Construct(d, c, m)
  \/ \E d, s \in Slots :
       \/ CopyConstruct(d, s) \/ CopyAssign(d, s)
       \/ MoveConstruct(d, s) \/ MoveAssign(d, s)
       \/ Update(d, s) \/ UpdateMove(d, s)

Spec == Init /\ [][Next]_vars

-----------------------------------------------------------------------------
\* The live Status objects whose state_ is b
Owners(b) == {s \in Slots : alive[s] /\ st[s] = b}

(***************************************************************************)
(* Beyond the types: the representation status.h documents holds, so a     *)
(* block never encodes kOk and ok() agrees with code() == kOk.             *)
(***************************************************************************)
TypeOK ==
  /\ alive \in [Slots -> BOOLEAN]
  /\ st \in [Slots -> Blocks \cup {Null}]
  /\ heap \in [Blocks -> ErrorState \cup {Free}]
  /\ fault \in {"none", "use_after_free", "double_free"}
  /\ \A s \in Slots :
       alive[s] /\ (Ok(s) \/ heap[st[s]] # Free) => (Ok(s) <=> Code(s) = kOk)

(***************************************************************************)
(* Through any sequence of copies, moves, self-assignments, Updates and    *)
(* destructions, every allocated block belongs to exactly one live Status, *)
(* and every live Status's state_ is null or an allocated block: nothing   *)
(* leaks, nothing is shared, nothing dangles.                              *)
(***************************************************************************)
OwnershipExclusive ==
  /\ \A b \in Blocks : heap[b] # Free <=> Cardinality(Owners(b)) = 1
  /\ \A s \in Slots : alive[s] /\ st[s] # Null => heap[st[s]] # Free

(***************************************************************************)
(* No call reads or deletes a block that was already freed: in particular  *)
(* s = s, whose aliasing the comment in operator= says the pointer check   *)
(* catches.                                                                *)
(***************************************************************************)
NoUseAfterFree == fault = "none"
=============================================================================
