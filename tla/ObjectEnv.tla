------------------------------ MODULE ObjectEnv ------------------------------
(***************************************************************************)
(* The process registry of src/appkit/env.cc: ObjectEnv maps service names *)
(* to reference-counted Object pointers, and StringEnv maps keys to        *)
(* strings.  Both guard their std::map with a mutex, except              *)
(* ObjectEnv::Get, which finds the entry and adds its reference without    *)
(* taking mutex_.  The lookup and the AddRefManually are therefore two     *)
(* steps here, and any other thread may run in between.                    *)
(*                                                                         *)
(* Object (bbt/appkit/object.h) is not in the repository: AddRefManually   *)
(* increments the count, and Release decrements it and deletes the object *)
(* when it reaches zero.  A thread's references are counted in held: one   *)
(* from creating the object, and one from each successful Get.             *)
(***************************************************************************)
EXTENDS Naturals, FiniteSets

CONSTANTS
  Threads,      \* threads calling into the registry
  Objs,         \* service objects
  Names,        \* service names
  NameOf,       \* obj->service_name(); NoName for a null or empty name
  NoName,
  None,         \* no entry / no pointer
  Keys, Values, \* StringEnv keys (non-empty) and values
  NoKey,        \* a null or empty key
  NullValue,    \* a null value argument
  Empty,        \* the empty std::string
  MaxHeld       \* bound: references one thread holds at most

ASSUME NoName \notin Names /\ NameOf \in [Objs -> Names \cup {NoName}]

VARIABLES
  objs,      \* ObjectEnv::objs_: name -> object or None
  refs,      \* each object's reference count
  freed,     \* objects Release has deleted
  held,      \* held[t][o]: references thread t owns on o
  pc,        \* "idle", or "addref" between Get's find and its AddRefManually
  found,     \* the pointer Get's find returned
  ret,       \* the Status of each thread's last call
  ss,        \* StringEnv::ss_: key -> value or None
  sgot       \* the std::string each thread's last GetString returned

vars == <<objs, refs, freed, held, pc, found, ret, ss, sgot>>

Statuses == {"Ok", "InvalidArgument", "AlreadyExists", "NotFound", "Unknown"}

\* obj->Release(): the count drops, and the object is deleted at zero
ReleaseObj(o) ==
  /\ refs' = [refs EXCEPT ![o] = @ - 1]
  /\ freed' = IF refs[o] = 1 THEN freed \cup {o} ELSE freed

\* Each object was created by some thread, which holds its first reference
Init ==
  /\ objs = [n \in Names |-> None]
  /\ refs = [o \in Objs |-> 1]
  /\ freed = {}
  /\ \E creator \in [Objs -> Threads] :
       held = [t \in Threads |-> [o \in Objs |-> IF creator[o] = t THEN 1 ELSE 0]]
  /\ pc = [t \in Threads |-> "idle"]
  /\ found = [t \in Threads |-> None]
  /\ ret = [t \in Threads |-> "Ok"]
  /\ ss = [k \in Keys |-> None]
  /\ sgot = [t \in Threads |-> Empty]

\* ObjectEnv::Insert(obj) by a thread holding obj
Insert(t, o) ==
  /\ pc[t] = "idle" /\ held[t][o] > 0
  /\ IF NameOf[o] = NoName
     THEN ret' = [ret EXCEPT ![t] = "InvalidArgument"] /\ UNCHANGED <<objs, refs>>
     ELSE IF objs[NameOf[o]] # None
     THEN ret' = [ret EXCEPT ![t] = "AlreadyExists"] /\ UNCHANGED <<objs, refs>>
     ELSE /\ refs' = [refs EXCEPT ![o] = @ + 1]
          /\ objs' = [objs EXCEPT ![NameOf[o]] = o]
          /\ ret' = [ret EXCEPT ![t] = "Ok"]
  /\ UNCHANGED <<freed, held, pc, found, ss, sgot>>

\* Fault model: the entry erased whatever object it holds
RemoveNoIdentityCheck(t, o) ==
  /\ pc[t] = "idle" /\ held[t][o] > 0
  /\ IF NameOf[o] = NoName
     THEN ret' = [ret EXCEPT ![t] = "InvalidArgument"] /\ UNCHANGED <<objs, refs, freed>>
     ELSE IF objs[NameOf[o]] = None
     THEN ret' = [ret EXCEPT ![t] = "NotFound"] /\ UNCHANGED <<objs, refs, freed>>
     ELSE /\ objs' = [objs EXCEPT ![NameOf[o]] = None]
          /\ ReleaseObj(o)
          /\ ret' = [ret EXCEPT ![t] = "Ok"]
  /\ UNCHANGED <<held, pc, found, ss, sgot>>

\* Fault model: the registry's reference released, the entry left in place
RemoveNoErase(t, o) ==
  /\ pc[t] = "idle" /\ held[t][o] > 0
  /\ IF NameOf[o] = NoName
     THEN ret' = [ret EXCEPT ![t] = "InvalidArgument"] /\ UNCHANGED <<refs, freed>>
     ELSE IF objs[NameOf[o]] = None
     THEN ret' = [ret EXCEPT ![t] = "NotFound"] /\ UNCHANGED <<refs, freed>>
     ELSE IF objs[NameOf[o]] # o
     THEN ret' = [ret EXCEPT ![t] = "Unknown"] /\ UNCHANGED <<refs, freed>>
     ELSE ReleaseObj(o) /\ ret' = [ret EXCEPT ![t] = "Ok"]
  /\ UNCHANGED <<objs, held, pc, found, ss, sgot>>

\* ObjectEnv::Remove(obj): erase the entry only if it is obj, then Release
Remove(t, o) ==
  /\ pc[t] = "idle" /\ held[t][o] > 0
  /\ IF NameOf[o] = NoName
     THEN ret' = [ret EXCEPT ![t] = "InvalidArgument"] /\ UNCHANGED <<objs, refs, freed>>
     ELSE IF objs[NameOf[o]] = None
     THEN ret' = [ret EXCEPT ![t] = "NotFound"] /\ UNCHANGED <<objs, refs, freed>>
     ELSE IF objs[NameOf[o]] # o
     THEN ret' = [ret EXCEPT ![t] = "Unknown"] /\ UNCHANGED <<objs, refs, freed>>
     ELSE /\ objs' = [objs EXCEPT ![NameOf[o]] = None]
          /\ ReleaseObj(o)
          /\ ret' = [ret EXCEPT ![t] = "Ok"]
  /\ UNCHANGED <<held, pc, found, ss, sgot>>

(***************************************************************************)
(* ObjectEnv::Get(name, pobj), first step: objs_.find(name) with no lock.  *)
(* A thread already holding MaxHeld references to an object makes no more  *)
(* calls.                                                                  *)
(***************************************************************************)
GetFind(t, n) ==
  /\ pc[t] = "idle"
  /\ \A o \in Objs : held[t][o] < MaxHeld
  /\ IF n = NoName
     THEN ret' = [ret EXCEPT ![t] = "InvalidArgument"] /\ UNCHANGED <<pc, found>>
     ELSE IF objs[n] = None
     THEN ret' = [ret EXCEPT ![t] = "NotFound"] /\ UNCHANGED <<pc, found>>
     ELSE /\ found' = [found EXCEPT ![t] = objs[n]]
          /\ pc' = [pc EXCEPT ![t] = "addref"]
          /\ UNCHANGED ret
  /\ UNCHANGED <<objs, refs, freed, held, ss, sgot>>

\* Get, second step: obj->AddRefManually(); *pobj = obj; return OkStatus()
GetAddRef(t) ==
  /\ pc[t] = "addref"
  /\ refs' = [refs EXCEPT ![found[t]] = @ + 1]
  /\ held' = [held EXCEPT ![t][found[t]] = @ + 1]
  /\ pc' = [pc EXCEPT ![t] = "idle"]
  /\ found' = [found EXCEPT ![t] = None]
  /\ ret' = [ret EXCEPT ![t] = "Ok"]
  /\ UNCHANGED <<objs, freed, ss, sgot>>

\* The caller is done with a reference it holds: obj->Release()
ReleaseRef(t, o) ==
  /\ pc[t] = "idle" /\ held[t][o] > 0
  /\ ReleaseObj(o)
  /\ held' = [held EXCEPT ![t][o] = @ - 1]
  /\ UNCHANGED <<objs, pc, found, ret, ss, sgot>>

\* StringEnv::Insert(key, value), key non-empty: a null value is stored as ""
StringInsert(k, v) ==
  /\ ss' = [ss EXCEPT ![k] = IF v = NullValue THEN Empty ELSE v]
  /\ UNCHANGED <<objs, refs, freed, held, pc, found, ret, sgot>>

\* StringEnv::Remove(key)
StringRemove(k) ==
  /\ ss[k] # None
  /\ ss' = [ss EXCEPT ![k] = None]
  /\ UNCHANGED <<objs, refs, freed, held, pc, found, ret, sgot>>

\* StringEnv::Get(key): the stored copy, or "" for a null key or a missing one
StringGet(t, k) ==
  /\ pc[t] = "idle"
  /\ sgot' = [sgot EXCEPT ![t] = IF k # NoKey /\ ss[k] # None THEN ss[k] ELSE Empty]
  /\ UNCHANGED <<objs, refs, freed, held, pc, found, ret, ss>>

(***************************************************************************)
(* GlobalEnvImpl: every call of the process-wide GlobalEnv forwards to     *)
(* obj_env_ or str_env_, from any thread.                                  *)
(***************************************************************************)
Next ==
  \/ \E t \in Threads, o \in Objs :
       Insert(t, o) \/ Remove(t, o) \/ ReleaseRef(t, o)
  \/ \E t \in Threads, n \in Names \cup {NoName} : GetFind(t, n)
  \/ \E t \in Threads : GetAddRef(t)
  \/ \E k \in Keys, v \in Values \cup {NullValue} : StringInsert(k, v)
  \/ \E k \in Keys : StringRemove(k)
  \/ \E t \in Threads, k \in Keys \cup {NoKey} : StringGet(t, k)

Spec == Init /\ [][Next]_vars

-----------------------------------------------------------------------------
\* The references on o: the registry entry naming it, and the threads' own
Holders(o) ==
  Cardinality({n \in Names : objs[n] = o})
    + Cardinality({<<t, i>> \in Threads \X (1..MaxHeld) : i <= held[t][o]})

TypeOK ==
  /\ objs \in [Names -> Objs \cup {None}]
  /\ refs \in [Objs -> Nat]
  /\ freed \subseteq Objs
  /\ held \in [Threads -> [Objs -> 0..MaxHeld]]
  /\ pc \in [Threads -> {"idle", "addref"}]
  /\ found \in [Threads -> Objs \cup {None}]
  /\ ret \in [Threads -> Statuses]
  /\ ss \in [Keys -> Values \cup {Empty, None}]
  /\ sgot \in [Threads -> Values \cup {Empty}]

(***************************************************************************)
(* Insert's AddRefManually, Remove's Release and the callers' own          *)
(* AddRef/Release pairs balance: every object's count is exactly the       *)
(* number of registry entries and thread references that point at it.     *)
(***************************************************************************)
RefCountsAccount == \A o \in Objs : refs[o] = Holders(o)

(***************************************************************************)
(* An object Release has deleted is never referenced again: no thread      *)
(* holds it, so Get's AddRefManually never touches freed memory.           *)
(***************************************************************************)
NoUseAfterFree == \A o \in freed, t \in Threads : held[t][o] = 0
=============================================================================
