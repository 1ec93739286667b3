---------------------------- MODULE BusConnection ----------------------------
(***************************************************************************)
(* The receive path of one bus connection: the peer writes frames, the     *)
(* transport hands their bytes over in chunks of any size, the connection's *)
(* receive callback appends each chunk to its staging buffer (StagingBuffer) *)
(* and calls BusContext::Parse until it answers kContinue.  kGood hands the *)
(* message on; kBad resets the buffer and closes the connection (spec      *)
(* section 7: the codec offers no resynchronisation).                      *)
(*                                                                         *)
(* Frame f of the peer's stream is HeaderSize header bytes followed by     *)
(* wire[f].len body bytes; byte k of frame f is the token [f |-> f, k |-> k], *)
(* so that the model can tell which bytes a header or a body was read from. *)
(***************************************************************************)
EXTENDS Naturals, Sequences, SequencesExt

CONSTANTS
  CheapPrepend, InitialSize, NUL,   \* the staging buffer's
  HeaderSize,                  \* sizeof(header_)
  MaxBody,                     \* bound: longest body
  MaxFrames,                   \* bound: frames the peer sends
  MaxChunk,                    \* bound: most bytes one read delivers
  kMsgMagic, BadMagic,         \* the expected magic and a corrupted one
  Garbage,                     \* a message decoded from misaligned bytes
  Fail,                        \* Unpack returned an error status
  NoMsg                        \* msg left unfilled

VARIABLES
  buffer, reader, writer,   \* the staging buffer
  state, header,            \* the BusContext
  wire,                     \* frames the peer has written, in order
  recvd,                    \* bytes of the stream handed to the callback
  conn,                     \* "reading", "parsing" (inside the callback), "closed"
  delivered                 \* messages Parse has answered kGood with

vars == <<buffer, reader, writer, state, header, wire, recvd, conn, delivered>>

Token == [f : 1..MaxFrames, k : 1..(HeaderSize + MaxBody)]

\* magic, body length, whether the body decodes, and the length field's excess
FrameKind ==
  [magic : {kMsgMagic, BadMagic}, len : 1..MaxBody, valid : BOOLEAN]

HeaderValues == [magic : {kMsgMagic, BadMagic}, length : 0..(MaxBody + 1)]

\* The frame encoder: header bytes, then body bytes
FrameBytes(f) == [k \in 1..(HeaderSize + wire[f].len) |-> [f |-> f, k |-> k]]

Stream == FlattenSeq([f \in DOMAIN wire |-> FrameBytes(f)])

\* bytes are positions first..first+Len(bytes)-1 of one frame, in order
Run(bytes, first) ==
  /\ Len(bytes) > 0
  /\ \A j \in DOMAIN bytes : bytes[j] = [f |-> bytes[1].f, k |-> first + j - 1]

(***************************************************************************)
(* memcpy(&header_, Peek(), sizeof(header_)): the header of the frame the  *)
(* bytes start, if they are that frame's header; any value otherwise.      *)
(***************************************************************************)
DecodeHeaderBytes(bytes) ==
  IF Run(bytes, 1)
  THEN {[magic |-> wire[bytes[1].f].magic,
         length |-> wire[bytes[1].f].len]}
  ELSE HeaderValues

(***************************************************************************)
(* JsonPacker::Unpack(body, msg): frame f's message when the bytes are     *)
(* exactly its body and it encodes a valid message; misaligned bytes fail  *)
(* or, by accident, decode to some other message.                          *)
(***************************************************************************)
UnpackBody(bytes) ==
  IF Run(bytes, HeaderSize + 1) /\ Len(bytes) = wire[bytes[1].f].len
  THEN IF wire[bytes[1].f].valid THEN {bytes[1].f} ELSE {Fail}
  ELSE {Fail, Garbage}

MaxStreamBytes == MaxFrames * (HeaderSize + MaxBody)

SB == INSTANCE StagingBuffer WITH
        Byte <- Token, MaxAppend <- MaxChunk, MaxReadable <- MaxStreamBytes

Ctx == INSTANCE BusContext WITH
         Byte <- Token, MaxAppend <- MaxChunk, MaxReadable <- MaxStreamBytes

Init ==
  /\ SB!Init
  /\ Ctx!ContextInit
  /\ wire = <<>>
  /\ recvd = 0
  /\ conn = "reading"
  /\ delivered = <<>>

\* The peer writes one more frame (a corrupted one included)
PeerSend ==
  /\ Len(wire) < MaxFrames
  /\ \E fr \in FrameKind : wire' = Append(wire, fr)
  /\ UNCHANGED <<buffer, reader, writer, state, header, recvd, conn, delivered>>

\* The transport delivers the next n bytes: the callback appends them
Receive(n) ==
  /\ conn = "reading"
  /\ recvd + n <= Len(Stream)
  /\ SB!AppendData(SubSeq(Stream, recvd + 1, recvd + n))
  /\ recvd' = recvd + n
  /\ conn' = "parsing"
  /\ UNCHANGED <<state, header, wire, delivered>>

\* The decode and unpack of the bytes at each offset of the buffer
DecodeAt == [p \in 0..Len(buffer) |->
               DecodeHeaderBytes(SubSeq(buffer, p + 1, p + HeaderSize))]

UnpackAt == [p \in 0..Len(buffer), n \in 0..(MaxBody + 1) |->
               UnpackBody(SubSeq(buffer, p + 1, p + n))]

Parse == Ctx!Parse(SB!Layout, DecodeAt, UnpackAt)

\* One call of Parse inside the callback, by the outcome it answers
ParseGood ==
  /\ conn = "parsing"
  /\ \E o \in Parse :
       /\ o.res = "kGood"
       /\ SB!SetLayout(o.lay) /\ state' = o.st /\ header' = o.hd
       /\ delivered' = Append(delivered, o.msg)
  /\ UNCHANGED <<wire, recvd, conn>>

ParseContinue ==
  /\ conn = "parsing"
  /\ \E o \in Parse :
       /\ o.res = "kContinue"
       /\ SB!SetLayout(o.lay) /\ state' = o.st /\ header' = o.hd
  /\ conn' = "reading"
  /\ UNCHANGED <<wire, recvd, delivered>>

ParseBad ==
  /\ conn = "parsing"
  /\ \E o \in Parse :
       /\ o.res = "kBad"
       /\ SB!SetLayout(SB!RetriveAllL(o.lay)) /\ state' = o.st /\ header' = o.hd
  /\ conn' = "closed"
  /\ UNCHANGED <<wire, recvd, delivered>>

Next ==
  \/ PeerSend
  \/ \E n \in 1..MaxChunk : Receive(n)
  \/ ParseGood
  \/ ParseContinue
  \/ ParseBad

(***************************************************************************)
(* The transport keeps a read outstanding, so bytes the peer wrote are     *)
(* eventually delivered; the callback runs its Parse loop to the end.      *)
(* The peer itself is not obliged to send.                                 *)
(***************************************************************************)
Fairness ==
  /\ WF_vars(\E n \in 1..MaxChunk : Receive(n))
  /\ WF_vars(ParseGood \/ ParseContinue \/ ParseBad)

Spec == Init /\ [][Next]_vars /\ Fairness

-----------------------------------------------------------------------------
Intact(fr) == fr.magic = kMsgMagic /\ fr.valid

TypeOK ==
  /\ SB!TypeOK
  /\ Ctx!TypeOK
  /\ wire \in Seq(FrameKind)
  /\ recvd \in 0..Len(Stream)
  /\ conn \in {"reading", "parsing", "closed"}
  /\ delivered \in Seq(1..MaxFrames \cup {Garbage})

(***************************************************************************)
(* Whatever the chunking, Parse hands on the peer's messages in the order  *)
(* sent, none twice, none skipped, and none from a frame with a corrupted  *)
(* magic or an undecodable body.                                           *)
(***************************************************************************)
DeliveredInOrder ==
  \A i \in 1..Len(delivered) : delivered[i] = i /\ Intact(wire[i])

(***************************************************************************)
(* Parse reports kBad only at a corrupted frame: when the connection has   *)
(* closed, the first frame not delivered is a corrupted one.               *)
(***************************************************************************)
MalformedOnlyAtCorruptFrame ==
  conn = "closed" =>
    /\ Len(delivered) < Len(wire)
    /\ ~Intact(wire[Len(delivered) + 1])

(***************************************************************************)
(* Partial headers and bodies are never stuck in the buffer: every frame   *)
(* the peer writes is eventually delivered, or the connection closes.      *)
(***************************************************************************)
FramesEventuallyHandled ==
  \A i \in 1..MaxFrames :
    Len(wire) >= i ~> (Len(delivered) >= i \/ conn = "closed")

(***************************************************************************)
(* Spec section 4.2: on a magic mismatch Parse reports Malformed and does  *)
(* not enter AwaitingBody.  So a closed connection's codec awaits a header. *)
(***************************************************************************)
CodecAwaitsHeaderAfterMalformed ==
  conn = "closed" => state = "kHeader"
=============================================================================
