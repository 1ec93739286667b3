---------------------------- MODULE StagingBuffer ----------------------------
(***************************************************************************)
(* cppboot::net::Buffer (src/cppboot/net/buffer.h): a byte vector with a   *)
(* read cursor and a write cursor.                                         *)
(*                                                                         *)
(*   | prependable | readable (CONTENT) | writable |                       *)
(*   0   <=   reader_   <=   writer_   <=   size                           *)
(*                                                                         *)
(* The vector is the sequence `buffer`; C++ offset k is TLA+ index k+1.    *)
(* Byte is any set of values; NUL is what a fresh vector holds.           *)
(***************************************************************************)
EXTENDS Naturals, Sequences, SequencesExt

CONSTANTS
  CheapPrepend,   \* kCheapPrepend (8 in the code)
  InitialSize,    \* kInitialSize (1024 in the code)
  Byte,           \* the byte values a user appends
  MaxAppend,      \* bound: longest single Append
  MaxReadable,    \* bound: most bytes held unread, or reserved room for
  NUL             \* the byte a value-initialised vector holds

ASSUME CheapPrepend \in Nat \ {0} /\ InitialSize \in Nat

VARIABLES buffer, reader, writer

bufVars == <<buffer, reader, writer>>

ASSUME NUL \notin Byte

\* Buffer(size_t initial_size = kInitialSize)
Init ==
  /\ buffer = [i \in 1..(CheapPrepend + InitialSize) |-> NUL]
  /\ reader = CheapPrepend
  /\ writer = CheapPrepend

PrependableBytes == reader
ReadableBytes == writer - reader
WritableBytes == Len(buffer) - writer

\* Peek() .. Peek()+ReadableBytes(): the view Str() and ToString() return
Readable == SubSeq(buffer, reader + 1, writer)

(***************************************************************************)
(* A layout [buf, r, w] is the vector with its two cursors.  Operations    *)
(* are written as functions of a layout so that a caller performing       *)
(* several of them in one step (BusContext::Parse) can chain them.         *)
(***************************************************************************)
Layout == [buf |-> buffer, r |-> reader, w |-> writer]

SetLayout(l) == buffer' = l.buf /\ reader' = l.r /\ writer' = l.w

RetriveAllL(l) == [l EXCEPT !.r = CheapPrepend, !.w = CheapPrepend]

\* Fault model: Retrive without the clamp to ReadableBytes()
RetriveUnclampedL(l, len) == [l EXCEPT !.r = l.r + len]

RetriveL(l, len) ==
  IF len < l.w - l.r THEN [l EXCEPT !.r = l.r + len] ELSE RetriveAllL(l)

RetriveAll == SetLayout(RetriveAllL(Layout))

Retrive(len) == SetLayout(RetriveL(Layout, len))

\* std::vector::resize: keeps the prefix, value-initialises new elements
Resize(s, n) == [i \in 1..n |-> IF i <= Len(s) THEN s[i] ELSE NUL]

\* Fault model: the growth test without the kCheapPrepend term
MakeSpaceNoPrependTerm(len) ==
  IF WritableBytes + PrependableBytes < len
  THEN [buf |-> Resize(buffer, writer + len), r |-> reader, w |-> writer]
  ELSE [buf |-> [i \in DOMAIN buffer |->
                   IF CheapPrepend < i /\ i <= CheapPrepend + ReadableBytes
                   THEN buffer[reader + (i - CheapPrepend)]
                   ELSE buffer[i]],
        r |-> CheapPrepend,
        w |-> CheapPrepend + ReadableBytes]

\* Fault model: the compaction copies from one byte before reader_
MakeSpaceCopyOffByOne(len) ==
  IF WritableBytes + PrependableBytes < len + CheapPrepend
  THEN [buf |-> Resize(buffer, writer + len), r |-> reader, w |-> writer]
  ELSE [buf |-> [i \in DOMAIN buffer |->
                   IF CheapPrepend < i /\ i <= CheapPrepend + ReadableBytes
                   THEN buffer[reader + (i - CheapPrepend) - 1]
                   ELSE buffer[i]],
        r |-> CheapPrepend,
        w |-> CheapPrepend + ReadableBytes]

\* Fault model: MakeSpace that always grows and never compacts
MakeSpaceAlwaysGrow(len) ==
  [buf |-> Resize(buffer, writer + len), r |-> reader, w |-> writer]

(***************************************************************************)
(* MakeSpace(len) as the layout [buf, r, w] it leaves: grow the vector to  *)
(* writer_+len, or copy the readable bytes down to kCheapPrepend.          *)
(***************************************************************************)
MakeSpace(len) ==
  IF WritableBytes + PrependableBytes < len + CheapPrepend
  THEN [buf |-> Resize(buffer, writer + len), r |-> reader, w |-> writer]
  ELSE [buf |-> [i \in DOMAIN buffer |->
                   IF CheapPrepend < i /\ i <= CheapPrepend + ReadableBytes
                   THEN buffer[reader + (i - CheapPrepend)]
                   ELSE buffer[i]],
        r |-> CheapPrepend,
        w |-> CheapPrepend + ReadableBytes]

EnsureWritableBytes(len) ==
  IF WritableBytes < len
  THEN MakeSpace(len)
  ELSE [buf |-> buffer, r |-> reader, w |-> writer]

(***************************************************************************)
(* Append(data, len) (named AppendData: Sequences owns Append):           *)
(* EnsureWritableBytes, std::copy at BeginWrite(), then HasWritten.  A     *)
(* copy past the end of the vector lands nowhere; BufferLayout flags it.   *)
(***************************************************************************)
\* Fault model: BeginWrite() taken before EnsureWritableBytes moved the data
AppendDataStaleCursor(data) ==
  LET s == EnsureWritableBytes(Len(data)) IN
  /\ buffer' = [i \in DOMAIN s.buf |->
                  IF writer < i /\ i <= writer + Len(data)
                  THEN data[i - writer] ELSE s.buf[i]]
  /\ reader' = s.r
  /\ writer' = s.w + Len(data)

AppendData(data) ==
  LET s == EnsureWritableBytes(Len(data)) IN
  /\ buffer' = [i \in DOMAIN s.buf |->
                  IF s.w < i /\ i <= s.w + Len(data)
                  THEN data[i - s.w] ELSE s.buf[i]]
  /\ reader' = s.r
  /\ writer' = s.w + Len(data)

\* EnsureWritableBytes(len) called on its own, ahead of a write into BeginWrite()
EnsureWritable(len) == SetLayout(EnsureWritableBytes(len))

(***************************************************************************)
(* A caller writing data straight into BeginWrite() and then calling       *)
(* HasWritten(len); its assert is the caller's precondition.               *)
(***************************************************************************)
HasWritten(data) ==
  /\ Len(data) <= WritableBytes
  /\ buffer' = [i \in DOMAIN buffer |->
                  IF writer < i /\ i <= writer + Len(data)
                  THEN data[i - writer] ELSE buffer[i]]
  /\ writer' = writer + Len(data)
  /\ UNCHANGED reader

(***************************************************************************)
(* swap(rhs): the vectors and both cursors are exchanged.  rhs is a fresh *)
(* Buffer, as in Buffer().swap(buf), which releases buf's storage; the     *)
(* temporary takes the old vector away with it.                            *)
(***************************************************************************)
Fresh == [buf |-> [i \in 1..(CheapPrepend + InitialSize) |-> NUL],
          r |-> CheapPrepend, w |-> CheapPrepend]

Swap(rhs) == SetLayout(rhs)

\* Unwrite(len): the assert is the caller's precondition
Unwrite(len) ==
  /\ len <= ReadableBytes
  /\ writer' = writer - len
  /\ UNCHANGED <<buffer, reader>>

(***************************************************************************)
(* The buffer on its own: any caller, any order of calls.                  *)
(***************************************************************************)
Next ==
  \/ \E data \in SeqOf(Byte, MaxAppend) :
        /\ ReadableBytes + Len(data) <= MaxReadable
        /\ AppendData(data)
  \/ \E len \in 1..MaxAppend :
        /\ ReadableBytes + len <= MaxReadable
        /\ EnsureWritable(len)
  \/ \E data \in SeqOf(Byte, MaxAppend) :
        /\ ReadableBytes + Len(data) <= MaxReadable
        /\ HasWritten(data)
  \/ \E len \in 0..(ReadableBytes + 1) : Retrive(len)
  \/ RetriveAll
  \/ \E len \in 0..ReadableBytes : Unwrite(len)
  \/ Swap(Fresh)

Spec == Init /\ [][Next]_bufVars

-----------------------------------------------------------------------------
\* Types, the size_t differences ReadableBytes and WritableBytes included
TypeOK ==
  /\ buffer \in Seq(Byte \cup {NUL})
  /\ reader \in Nat
  /\ writer \in Nat
  /\ ReadableBytes \in Nat
  /\ WritableBytes \in Nat

(***************************************************************************)
(* The class invariant drawn in buffer.h, kCheapPrepend <= reader_ <=      *)
(* writer_ <= size: MakeSpace must always leave room for the bytes Append  *)
(* copies, whichever of its two branches it takes.                         *)
(***************************************************************************)
BufferLayout == CheapPrepend <= reader /\ reader <= writer /\ writer <= Len(buffer)

(***************************************************************************)
(* Growth without compaction (the FIXME in MakeSpace) never wastes more    *)
(* than one append's worth: the vector stays at its initial size or below  *)
(* kCheapPrepend + the most bytes ever held unread + the longest append.   *)
(***************************************************************************)
StorageBounded ==
  \/ Len(buffer) = CheapPrepend + InitialSize
  \/ Len(buffer) < CheapPrepend + MaxReadable + MaxAppend

(***************************************************************************)
(* Growing, compacting, consuming and unwriting never lose, duplicate or   *)
(* reorder readable bytes: the readable region behaves as a ByteQueue.     *)
(***************************************************************************)
Queue == INSTANCE ByteQueue WITH content <- Readable

QueueRefinement == Queue!QSpec

(***************************************************************************)
(* Append puts exactly its data after the readable bytes.                  *)
(***************************************************************************)
AppendExact ==
  [][\A data \in SeqOf(Byte, MaxAppend) :
        AppendData(data) => Readable' = Readable \o data]_bufVars
=============================================================================
