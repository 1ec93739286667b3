-------------------------------- MODULE Response --------------------------------
(***************************************************************************)
(* cppboot::http::Response (src/cppboot/net/http/response.cc) as a value:  *)
(* a record [status, headers, content], with stock_reply, the Write*       *)
(* methods, set_header, header and to_buffers as operators on it.  The    *)
(* connection that owns the reply (HttpServer) applies them.               *)
(*                                                                         *)
(* The content is abstracted to which page it is (a stock page, by its    *)
(* status, or OwnBody for a handler's own) and its length in bytes; the   *)
(* stock pages have their real lengths.  std::to_string is the decimal     *)
(* digits of its argument.  A line of to_buffers' output is a record:    *)
(* the status line by its code, a header line by name and value, the      *)
(* blank line, and the content.  response.h, which declares status_type,  *)
(* is not in the repository; a status is its numeric code, and the       *)
(* status of a default-constructed Response is uninitialised, so any.     *)
(***************************************************************************)
EXTENDS Naturals, Sequences, SequencesExt

CONSTANTS
  Statuses,   \* status values handlers use, one outside the enumeration included
  BodyLens,   \* bound: lengths of the bodies handlers write
  Locations,  \* values of the one header a handler sets itself
  None

\* The status_type values status_strings has a line for
Known == {200, 201, 202, 204, 300, 301, 302, 304, 400, 401, 403, 404, 500, 501, 502, 503}

\* Fault model: to_buffer without its default branch, returning no line
StatusLineNoDefault(s) == IF s \in Known THEN s ELSE None

\* status_strings::to_buffer: the status line, 500's for any other value
StatusLine(s) == IF s \in Known THEN s ELSE 500

\* Fault model: stock_replies::to_string falling back to the empty ok page
StockPageDefaultOk(s) == IF s \in Known THEN s ELSE 200

\* stock_replies::to_string: which page, internal_server_error's by default
StockPage(s) == IF s \in Known THEN s ELSE 500

\* The bytes of each stock_replies page
StockLength ==
  200 :> 0 @@ 201 :> 81 @@ 202 :> 83 @@ 204 :> 84 @@ 300 :> 99 @@ 301 :> 101
  @@ 302 :> 101 @@ 304 :> 91 @@ 400 :> 89 @@ 401 :> 91 @@ 403 :> 85
  @@ 404 :> 85 @@ 500 :> 109 @@ 501 :> 97 @@ 502 :> 89 @@ 503 :> 105

\* Fault model: the digits produced least significant first
RECURSIVE ToDecimalReversed(_)
ToDecimalReversed(n) ==
  IF n < 10 THEN <<n>> ELSE <<n % 10>> \o ToDecimalReversed(n \div 10)

\* std::to_string(n): its decimal digits
RECURSIVE ToDecimal(_)
ToDecimal(n) == IF n < 10 THEN <<n>> ELSE ToDecimal(n \div 10) \o <<n % 10>>

\* Fault model: set_header always appends
SetHeaderAppend(hs, name, value) == Append(hs, [name |-> name, value |-> value])

\* set_header(name, value): overwrite the first header of that name, or append
SetHeader(hs, name, value) ==
  LET i == SelectInSeq(hs, LAMBDA h : h.name = name)
  IN IF i = 0 THEN Append(hs, [name |-> name, value |-> value])
     ELSE [hs EXCEPT ![i].value = value]

\* The page of content a handler wrote itself
OwnBody == 0

\* A default-constructed Response: status uninitialised, so s
Default(s) == [status |-> s, headers |-> <<>>, content |-> [page |-> OwnBody, len |-> 0]]

\* header(name): the value of the first header of that name, or ""
Header(r, name) ==
  LET i == SelectInSeq(r.headers, LAMBDA h : h.name = name)
  IN IF i = 0 THEN <<>> ELSE r.headers[i].value

\* to_buffers(): status line, "name: value\r\n" per header, "\r\n", content
ToBuffers(r) ==
  <<[kind |-> "status", code |-> StatusLine(r.status)]>>
    \o [i \in DOMAIN r.headers |-> [kind |-> "header", name |-> r.headers[i].name,
                                    value |-> r.headers[i].value]]
    \o <<[kind |-> "blank"], [kind |-> "content", content |-> r.content]>>

\* stock_reply(s): a fresh Response holding the stock page of s
StockReply(s) ==
  LET page == StockPage(s)
  IN [status |-> s,
      content |-> [page |-> page, len |-> StockLength[page]],
      headers |-> SetHeader(SetHeader(<<>>, "Content-Length",
                                      ToDecimal(StockLength[page])),
                            "Content-Type", "text/html")]

\* The body of WriteText, WriteHtml and WriteJson on r
Write(r, code, len, type) ==
  [status |-> code,
   content |-> [page |-> OwnBody, len |-> len],
   headers |-> SetHeader(SetHeader(r.headers, "Content-Length", ToDecimal(len)),
                         "Content-Type", type)]

WriteText(r, code, len) == Write(r, code, len, "text/plain")
WriteHtml(r, code, len) == Write(r, code, len, "text/html")
\* len is the length of body.dump()
WriteJson(r, code, len) == Write(r, code, len, "application/json")

\* The calls a request handler makes on its reply
Calls ==
  [op : {"text", "html", "json"}, code : Statuses, len : BodyLens]
    \cup [op : {"stock"}, code : Statuses]
    \cup [op : {"location"}, v : Locations]

\* One call c on reply r; a handler's own set_header("Location", v) included
Apply(r, c) ==
  CASE c.op = "text" -> WriteText(r, c.code, c.len)
    [] c.op = "html" -> WriteHtml(r, c.code, c.len)
    [] c.op = "json" -> WriteJson(r, c.code, c.len)
    [] c.op = "stock" -> StockReply(c.code)
    [] c.op = "location" -> [r EXCEPT !.headers = SetHeader(@, "Location", c.v)]

\* A handler's calls, in order, on reply r
ApplyAll(r, cs) == FoldLeft(Apply, r, cs)

-----------------------------------------------------------------------------

\* Reference: the number a string of decimal digits denotes
DigitsValue(ds) == FoldLeft(LAMBDA acc, d : 10 * acc + d, 0, ds)

(***************************************************************************)
(* Beyond the types: whatever status a handler leaves, even one outside   *)
(* the enumeration or never set, to_buffers starts with a defined status   *)
(* line.                                                                   *)
(***************************************************************************)
TypeOK(r) ==
  /\ r.status \in Statuses \cup Known
  /\ \A i \in DOMAIN r.headers :
       LET h == r.headers[i] IN
       CASE h.name = "Content-Length" -> h.value \in Seq(0..9)
         [] h.name = "Content-Type" ->
              h.value \in {"text/plain", "text/html", "application/json"}
         [] OTHER -> h.name = "Location" /\ h.value \in Locations
  /\ r.content.page \in Known \cup {OwnBody}
  /\ ToBuffers(r)[1].code \in Known

(***************************************************************************)
(* However stock_reply, the Write* methods and set_header follow one       *)
(* another on the same reply_, the serialised response carries each header *)
(* at most once.  The TODO above set_header is about this.                 *)
(***************************************************************************)
HeaderLinesUnique(r) ==
  LET msg == ToBuffers(r)
  IN \A i, j \in DOMAIN msg :
       msg[i].kind = "header" /\ msg[j].kind = "header" /\ msg[i].name = msg[j].name
         => i = j

(***************************************************************************)
(* Once a Content-Length is set, header("Content-Length") is the decimal  *)
(* length of the content, without leading zeros, after any sequence of     *)
(* calls: the client reads exactly the body.                               *)
(***************************************************************************)
ContentLengthExact(r) ==
  LET v == Header(r, "Content-Length")
  IN v # <<>> => /\ DigitsValue(v) = r.content.len
                 /\ Len(v) = 1 \/ v[1] # 0

(***************************************************************************)
(* A stock reply's status line names the status whose page it carries, for *)
(* a status outside the enumeration too: to_buffer's and to_string's       *)
(* default branches agree.                                                 *)
(***************************************************************************)
StatusLineMatchesPage(r) ==
  r.content.page # OwnBody => ToBuffers(r)[1].code = r.content.page
=============================================================================
