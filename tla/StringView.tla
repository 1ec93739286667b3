------------------------------ MODULE StringView ------------------------------
(***************************************************************************)
(* cppboot::string_view (src/cppboot/base/string_view.h) and the affix     *)
(* tests of src/include/bbt/base/str_util.h.                               *)
(*                                                                         *)
(* A view is [ptr, len]: ptr_ as a 0-based offset into one backing string  *)
(* mem (a std::string, so mem \o <<0>> is its c_str()), or NullPtr.  Bytes *)
(* are unsigned char values.  size_type is SizeBits wide, so npos is      *)
(* 2^SizeBits - 1.                                                         *)
(*                                                                         *)
(* The methods that change a view (remove_prefix, remove_suffix, swap, and *)
(* assignment from a constructor or from substr) are actions on the views  *)
(* held in Slots.  The const methods are operators, and the properties     *)
(* check them in every reachable state against reference definitions.     *)
(***************************************************************************)
EXTENDS Integers, Sequences, SequencesExt

CONSTANTS
  mem,          \* the backing std::string, a sequence of unsigned bytes
  Slots,        \* the string_view objects the program holds
  SizeBits,     \* width of size_type
  NullPtr,      \* ptr_ of string_view()
  OutOfRange    \* std::out_of_range thrown

ASSUME \A k \in DOMAIN mem : mem[k] \in 0..255

npos == 2^SizeBits - 1

\* CPPBOOT_HARDENING_ASSERT(len <= kMaxSize) in CheckLengthInternal
kMaxSize == 2^(SizeBits - 1) - 1

VARIABLES
  views,   \* views[s]: the ptr_ and length_ of slot s
  err      \* the exception the last call threw, or "none"

vars == <<views, err>>

View(p, n) == [ptr |-> p, len |-> n]

\* The bytes a view refers to
Chars(v) == IF v.len = 0 THEN <<>> ELSE SubSeq(mem, v.ptr + 1, v.ptr + v.len)

\* ptr_ + k; only 0 is ever added to a null pointer
Offset(p, k) == IF p = NullPtr THEN NullPtr ELSE p + k

\* string_view::Min
MinSize(a, b) == IF a < b THEN a ELSE b

(***************************************************************************)
(* CPPBOOT_INTERNAL_STRING_VIEW_MEMCMP: __builtin_memcmp or memcmp, which  *)
(* compare the first n bytes as unsigned char and answer the difference   *)
(* of the first pair that differs.                                        *)
(***************************************************************************)
AsSignedChar(b) == IF b >= 128 THEN b - 256 ELSE b

\* Fault model: the bytes compared as (signed) char
RECURSIVE MemcmpSigned(_, _, _)
MemcmpSigned(a, b, n) ==
  IF n = 0 THEN 0
  ELSE IF Head(a) # Head(b) THEN AsSignedChar(Head(a)) - AsSignedChar(Head(b))
  ELSE MemcmpSigned(Tail(a), Tail(b), n - 1)

RECURSIVE Memcmp(_, _, _)
Memcmp(a, b, n) ==
  IF n = 0 THEN 0
  ELSE IF Head(a) # Head(b) THEN Head(a) - Head(b)
  ELSE Memcmp(Tail(a), Tail(b), n - 1)

\* string_view::CompareImpl
CompareImpl(la, lb, r) ==
  IF r = 0 THEN (IF la > lb THEN 1 ELSE 0) - (IF la < lb THEN 1 ELSE 0)
  ELSE IF r < 0 THEN -1 ELSE 1

\* string_view::compare(string_view x)
Compare(a, x) ==
  CompareImpl(a.len, x.len,
              IF MinSize(a.len, x.len) = 0 THEN 0
              ELSE Memcmp(Chars(a), Chars(x), MinSize(a.len, x.len)))

\* Fault model: substr's length not clamped to what remains
SubstrUnclamped(v, pos, n) ==
  IF pos > v.len THEN OutOfRange ELSE View(Offset(v.ptr, pos), n)

\* string_view::substr(pos, n)
Substr(v, pos, n) ==
  IF pos > v.len THEN OutOfRange
  ELSE View(Offset(v.ptr, pos), MinSize(n, v.len - pos))

\* ClippedSubstr(s, pos, n): pos clipped to s.size()
ClippedSubstr(v, pos, n) == Substr(v, MinSize(pos, v.len), n)

\* Fault model: copy's count ignored
CopyIgnoresCount(v, n, pos) ==
  IF pos > v.len THEN OutOfRange
  ELSE LET rlen == v.len - pos
       IN IF rlen > 0 THEN SubSeq(mem, v.ptr + pos + 1, v.ptr + pos + rlen) ELSE <<>>

\* string_view::copy(buf, n, pos): the bytes written to buf
Copy(v, n, pos) ==
  IF pos > v.len THEN OutOfRange
  ELSE LET rlen == MinSize(v.len - pos, n)
       IN IF rlen > 0 THEN SubSeq(mem, v.ptr + pos + 1, v.ptr + pos + rlen) ELSE <<>>

\* operator==: equal sizes, and memcmp over them
Eq(x, y) == x.len = y.len /\ (x.len = 0 \/ Memcmp(Chars(x), Chars(y), x.len) = 0)

\* operator!=: !(x == y)
Ne(x, y) == ~Eq(x, y)

Lt(x, y) == Compare(x, y) < 0

\* Fault model: operator<= written as the strict comparison
LeStrict(x, y) == Lt(x, y)

Le(x, y) == ~Lt(y, x)

Gt(x, y) == Lt(y, x)

Ge(x, y) == ~Lt(x, y)

\* StartsWith(text, prefix) (str_util.h)
StartsWith(text, prefix) ==
  \/ prefix.len = 0
  \/ text.len >= prefix.len /\ Memcmp(Chars(text), Chars(prefix), prefix.len) = 0

\* Fault model: EndsWith compares from the start of text
EndsWithFromStart(text, suffix) ==
  \/ suffix.len = 0
  \/ text.len >= suffix.len /\ Memcmp(Chars(text), Chars(suffix), suffix.len) = 0

\* EndsWith(text, suffix) (str_util.h)
EndsWith(text, suffix) ==
  \/ suffix.len = 0
  \/ /\ text.len >= suffix.len
     /\ Memcmp(Chars(Substr(text, text.len - suffix.len, npos)), Chars(suffix),
               suffix.len) = 0

\* StrlenInternal: bytes of c_str() from offset p up to its NUL
Strlen(p) ==
  LET cstr == mem \o <<0>>
  IN CHOOSE n \in 0..(Len(mem) - p) :
       cstr[p + n + 1] = 0 /\ \A k \in 0..(n - 1) : cstr[p + k + 1] # 0

\* string_view(const char* str): strlen(str), and 0 for a null str
CStrView(p) == IF p = NullPtr THEN View(NullPtr, 0) ELSE View(p, Strlen(p))

\* Fault model: pos1 == size() taken as out of range
CompareSubStrictPos(a, pos1, count1, x) ==
  IF pos1 >= a.len THEN OutOfRange ELSE Compare(Substr(a, pos1, count1), x)

\* compare(pos1, count1, v): substr(pos1, count1).compare(v)
CompareSub(a, pos1, count1, x) ==
  LET s == Substr(a, pos1, count1)
  IN IF s = OutOfRange THEN OutOfRange ELSE Compare(s, x)

\* compare(pos1, count1, v, pos2, count2): both substr calls may throw
CompareSubSub(a, pos1, count1, x, pos2, count2) ==
  LET y == Substr(x, pos2, count2)
  IN IF y = OutOfRange THEN OutOfRange ELSE CompareSub(a, pos1, count1, y)

\* compare(const char* s): compare(string_view(s))
CompareCStr(a, p) == Compare(a, CStrView(p))

\* compare(pos1, count1, const char* s): substr(...).compare(string_view(s))
CompareSubCStr(a, pos1, count1, p) == CompareSub(a, pos1, count1, CStrView(p))

\* compare(pos1, count1, s, count2): substr(...).compare(string_view(s, count2))
CompareSubCStrN(a, pos1, count1, p, count2) ==
  CompareSub(a, pos1, count1, View(p, count2))

-----------------------------------------------------------------------------
Positions == 0..(Len(mem) + 1)          \* pos arguments, one past the end included
Counts == (0..Len(mem)) \cup {npos}     \* n arguments, npos included

Assign(s, v) == views' = [views EXCEPT ![s] = v] /\ err' = "none"

Init ==
  /\ views = [s \in Slots |-> View(NullPtr, 0)]
  /\ err = "none"

\* string_view(const std::string&): all of mem, length check skipped
FromString(s) == Assign(s, View(0, Len(mem)))

\* string_view(const char*) and NullSafeStringView(p): strlen, 0 for null
FromCStr(s, p) == Assign(s, CStrView(p))

\* string_view(data, len), len checked against kMaxSize
FromPtrLen(s, p, n) ==
  /\ p + n <= Len(mem) /\ n <= kMaxSize
  /\ Assign(s, View(p, n))

\* string_view(): ptr_(nullptr), length_(0)
Reset(s) == Assign(s, View(NullPtr, 0))

\* Fault model: remove_prefix moves ptr_ but leaves length_
RemovePrefixKeepsLength(s, n) ==
  /\ n <= views[s].len
  /\ Assign(s, View(Offset(views[s].ptr, n), views[s].len))

\* remove_prefix(n), n <= length_ asserted
RemovePrefix(s, n) ==
  /\ n <= views[s].len
  /\ Assign(s, View(Offset(views[s].ptr, n), views[s].len - n))

\* remove_suffix(n), n <= length_ asserted
RemoveSuffix(s, n) ==
  /\ n <= views[s].len
  /\ Assign(s, View(views[s].ptr, views[s].len - n))

\* swap(s)
Swap(s, t) ==
  /\ views' = [views EXCEPT ![s] = views[t], ![t] = views[s]]
  /\ err' = "none"

\* views[s] = views[t].substr(pos, n); out_of_range leaves views[s] as it was
AssignSubstr(s, t, pos, n) ==
  LET r == Substr(views[t], pos, n)
  IN IF r = OutOfRange THEN err' = OutOfRange /\ UNCHANGED views ELSE Assign(s, r)

\* views[s] = ClippedSubstr(views[t], pos, n)
AssignClipped(s, t, pos, n) == Assign(s, ClippedSubstr(views[t], pos, n))

Next ==
  \/ \E s \in Slots :
       \/ FromString(s) \/ Reset(s)
       \/ \E p \in (0..Len(mem)) \cup {NullPtr} : FromCStr(s, p)
       \/ \E p, n \in 0..Len(mem) : FromPtrLen(s, p, n)
       \/ \E n \in 0..Len(mem) : RemovePrefix(s, n) \/ RemoveSuffix(s, n)
  \/ \E s, t \in Slots : Swap(s, t)
  \/ \E s, t \in Slots, pos \in Positions, n \in Counts :
       AssignSubstr(s, t, pos, n) \/ AssignClipped(s, t, pos, n)

Spec == Init /\ [][Next]_vars

-----------------------------------------------------------------------------
\* Reference definitions: the lexicographic order of byte sequences
LexLess(a, b) ==
  \/ IsStrictPrefix(a, b)
  \/ \E k \in 1..Len(a) :
       /\ k <= Len(b) /\ a[k] < b[k]
       /\ SubSeq(a, 1, k - 1) = SubSeq(b, 1, k - 1)

LexSign(a, b) == IF a = b THEN 0 ELSE IF LexLess(a, b) THEN -1 ELSE 1

TypeOK ==
  /\ views \in [Slots -> [ptr : (0..Len(mem)) \cup {NullPtr}, len : 0..Len(mem)]]
  /\ err \in {"none", OutOfRange}

(***************************************************************************)
(* After any sequence of constructions, remove_prefix/remove_suffix,       *)
(* swaps and substr/ClippedSubstr assignments, every view lies inside the  *)
(* backing string, and a null view is empty: npos and the unsigned         *)
(* length_ - pos arithmetic never push a view past the end.                *)
(***************************************************************************)
ViewsInBounds ==
  \A s \in Slots :
    IF views[s].ptr = NullPtr THEN views[s].len = 0
    ELSE views[s].ptr + views[s].len <= Len(mem)

(***************************************************************************)
(* compare() (CompareImpl over memcmp of the common length) answers -1, 0  *)
(* or 1 exactly as the lexicographic order of the viewed bytes, taken as   *)
(* unsigned char, the order std::string uses.                              *)
(***************************************************************************)
CompareIsLexicographic ==
  \A a, b \in Slots :
    Compare(views[a], views[b]) = LexSign(Chars(views[a]), Chars(views[b]))

(***************************************************************************)
(* The free operators ==, <, <=, > and >= agree with the order of the      *)
(* viewed bytes.                                                           *)
(***************************************************************************)
RelationalOperatorsAgree ==
  \A a, b \in Slots :
    LET x == views[a]
        y == views[b]
        r == LexSign(Chars(x), Chars(y))
    IN /\ Eq(x, y) <=> r = 0
       /\ Ne(x, y) <=> r # 0
       /\ Lt(x, y) <=> r < 0
       /\ Le(x, y) <=> r <= 0
       /\ Gt(x, y) <=> r > 0
       /\ Ge(x, y) <=> r >= 0

(***************************************************************************)
(* copy(buf, n, pos) throws exactly when pos > size(), and otherwise       *)
(* writes the longest run of at most n viewed bytes starting at pos.       *)
(***************************************************************************)
CopyMatchesView ==
  \A s \in Slots, n \in Counts, pos \in Positions :
    LET v == views[s]
        c == Copy(v, n, pos)
    IN IF pos > v.len THEN c = OutOfRange
       ELSE LET rest == SubSeq(Chars(v), pos + 1, v.len)
            IN IsPrefix(c, rest) /\ Len(c) <= n /\ (Len(c) = n \/ c = rest)

(***************************************************************************)
(* StartsWith and EndsWith of str_util.h hold exactly when one view's      *)
(* bytes are a prefix or a suffix of the other's.                          *)
(***************************************************************************)
AffixTestsMatchReference ==
  \A a, b \in Slots :
    /\ StartsWith(views[a], views[b]) <=> IsPrefix(Chars(views[b]), Chars(views[a]))
    /\ EndsWith(views[a], views[b]) <=> IsSuffix(Chars(views[b]), Chars(views[a]))

\* Reference: the bytes of s from pos, at most n of them; out_of_range past the end
SubBytes(s, pos, n) ==
  IF pos > Len(s) THEN OutOfRange ELSE SubSeq(s, pos + 1, pos + MinSize(n, Len(s) - pos))

\* The sign of a comparison, or out_of_range when either operand threw
SignOrThrow(x, y) == IF OutOfRange \in {x, y} THEN OutOfRange ELSE LexSign(x, y)

(***************************************************************************)
(* The compare overloads that take positions and counts, or a C string,    *)
(* order the bytes they select lexicographically, and throw out_of_range   *)
(* exactly when a position is past the end of its view, for any pos and   *)
(* count (npos included) and any views the program has built.              *)
(***************************************************************************)
CompareOverloadsMatchReference ==
  \A a, b \in Slots, pos1 \in Positions, n1 \in Counts :
    LET x == views[a]
        y == views[b]
        sub == SubBytes(Chars(x), pos1, n1)
    IN /\ CompareSub(x, pos1, n1, y) = SignOrThrow(sub, Chars(y))
       /\ \A pos2 \in Positions, n2 \in Counts :
            CompareSubSub(x, pos1, n1, y, pos2, n2)
              = SignOrThrow(sub, SubBytes(Chars(y), pos2, n2))
       /\ \A p \in (0..Len(mem)) \cup {NullPtr} :
            /\ CompareCStr(x, p) = LexSign(Chars(x), Chars(CStrView(p)))
            /\ CompareSubCStr(x, pos1, n1, p) = SignOrThrow(sub, Chars(CStrView(p)))
       /\ \A p \in 0..Len(mem), n2 \in 0..Len(mem) :
            p + n2 <= Len(mem) =>
              CompareSubCStrN(x, pos1, n1, p, n2)
                = SignOrThrow(sub, SubSeq(mem, p + 1, p + n2))

=============================================================================
