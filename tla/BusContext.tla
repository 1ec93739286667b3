----------------------------- MODULE BusContext -----------------------------
(***************************************************************************)
(* cppboot::BusContext (src/cppboot/adv/bus/context.cc): the two-phase     *)
(* frame parser.  state_ is kHeader or kBody; header_ holds the last       *)
(* decoded frame header {magic, length}.  Parse(buf, msg) reads from the   *)
(* staging buffer and answers kContinue, kGood (msg filled) or kBad.       *)
(*                                                                         *)
(* The bytes themselves are abstracted by two functions the composing      *)
(* module passes in: DecodeHeader[p], the headers the memcpy of            *)
(* sizeof(header_) bytes from offset p can produce, and Unpack[p, n], the  *)
(* outcomes of JsonPacker::Unpack of the n bytes from offset p (a message, *)
(* or Fail).                                                               *)
(***************************************************************************)
EXTENDS Naturals, Sequences

CONSTANTS
  CheapPrepend, InitialSize, Byte, MaxAppend, MaxReadable, NUL, \* buffer
  HeaderSize,       \* sizeof(header_)
  kMsgMagic,        \* the expected magic
  HeaderValues,     \* every value header_ can hold
  Fail,             \* Unpack returned an error status
  NoMsg             \* msg left unfilled

VARIABLES buffer, reader, writer, state, header

SB == INSTANCE StagingBuffer

kHeader == "kHeader"
kBody == "kBody"

\* BusContext(): state_(kHeader); header_ is left uninitialised
ContextInit ==
  /\ state = kHeader
  /\ header \in HeaderValues

Outcome(res, lay, st, hd, msg) ==
  [res |-> res, lay |-> lay, st |-> st, hd |-> hd, msg |-> msg]

\* Fault model: the status of Unpack ignored, kGood whatever it returned
ParseBodyIgnoreStatus(l, h, Unpack) ==
  IF l.w - l.r < h.length
  THEN {Outcome("kContinue", l, kBody, h, NoMsg)}
  ELSE {Outcome("kGood", SB!RetriveL(l, h.length), kHeader, h, m) :
          m \in Unpack[l.r, h.length]}

\* Fault model: one byte fewer Retrived than the body was long
ParseBodyShortRetrive(l, h, Unpack) ==
  IF l.w - l.r < h.length
  THEN {Outcome("kContinue", l, kBody, h, NoMsg)}
  ELSE {Outcome(IF m = Fail THEN "kBad" ELSE "kGood",
                SB!RetriveL(l, h.length - 1), kHeader, h, m) :
          m \in Unpack[l.r, h.length]}

\* Fault model: waits for one byte more than the body needs
ParseBodyWaitsOneMore(l, h, Unpack) ==
  IF l.w - l.r <= h.length
  THEN {Outcome("kContinue", l, kBody, h, NoMsg)}
  ELSE {Outcome(IF m = Fail THEN "kBad" ELSE "kGood",
                SB!RetriveL(l, h.length), kHeader, h, m) :
          m \in Unpack[l.r, h.length]}

(***************************************************************************)
(* The body phase from layout l with header h: wait for h.length readable  *)
(* bytes, copy and Retrive them, go back to kHeader, then Unpack.          *)
(***************************************************************************)
ParseBody(l, h, Unpack) ==
  IF l.w - l.r < h.length
  THEN {Outcome("kContinue", l, kBody, h, NoMsg)}
  ELSE {Outcome(IF m = Fail THEN "kBad" ELSE "kGood",
                SB!RetriveL(l, h.length), kHeader, h, m) :
          m \in Unpack[l.r, h.length]}

\* Fault model: the header's magic never checked
ParseNoMagicCheck(l, DecodeHeader, Unpack) ==
  IF state = kHeader
  THEN IF l.w - l.r < HeaderSize
       THEN {Outcome("kContinue", l, kHeader, header, NoMsg)}
       ELSE UNION {ParseBody(SB!RetriveL(l, HeaderSize), h, Unpack) :
                     h \in DecodeHeader[l.r]}
  ELSE ParseBody(l, header, Unpack)

(***************************************************************************)
(* Parse(buf, msg) from layout l: the set of outcomes [res, lay, st, hd,   *)
(* msg] it can produce.  In the header phase the header is copied and      *)
(* Retrived and state_ set to kBody before the magic is checked; a good    *)
(* header falls through to the body phase within the same call.            *)
(***************************************************************************)
Parse(l, DecodeHeader, Unpack) ==
  IF state = kHeader
  THEN IF l.w - l.r < HeaderSize
       THEN {Outcome("kContinue", l, kHeader, header, NoMsg)}
       ELSE UNION {IF h.magic # kMsgMagic
                   THEN {Outcome("kBad", SB!RetriveL(l, HeaderSize), kBody, h, NoMsg)}
                   ELSE ParseBody(SB!RetriveL(l, HeaderSize), h, Unpack) :
                     h \in DecodeHeader[l.r]}
  ELSE ParseBody(l, header, Unpack)

TypeOK ==
  /\ state \in {kHeader, kBody}
  /\ header \in HeaderValues
=============================================================================
