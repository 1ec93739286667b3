---------------------------------- MODULE Fmt ----------------------------------
(***************************************************************************)
(* The fmt::formatter<cppboot::string_view> of src/cppboot/base/fmt.h,     *)
(* over the views of StringView.                                           *)
(*                                                                         *)
(* format() calls fmt::format_to_n(ctx.out(), sv.size(), "{:s}", sv.data()). *)
(* The argument is a const char*, so fmt formats it as a C string: it      *)
(* takes strlen(sv.data()) bytes, and format_to_n keeps the first          *)
(* sv.size() of them.  A null data() is not a string: fmt throws           *)
(* format_error ("string pointer is null") or, where the build skips that  *)
(* check, strlen(nullptr) faults; either way no byte is written.           *)
(***************************************************************************)
EXTENDS StringView

\* The outcome of a format call: whether it returned, and the bytes written
Written(out) == [ok |-> TRUE, out |-> out]
\* formatting a null data(): format_error, or a crash
FormatFails == [ok |-> FALSE, out |-> <<>>]

\* Fault model: fmt::format_to in place of format_to_n, the size bound lost
FormatViewUnbounded(v) ==
  IF v.ptr = NullPtr THEN FormatFails
  ELSE Written(SubSeq(mem, v.ptr + 1, v.ptr + Strlen(v.ptr)))

(***************************************************************************)
(* formatter<string_view>::format(sv, ctx): the bytes written to ctx.out() *)
(***************************************************************************)
FormatView(v) ==
  IF v.ptr = NullPtr THEN FormatFails
  ELSE Written(SubSeq(mem, v.ptr + 1, v.ptr + MinSize(v.len, Strlen(v.ptr))))

-----------------------------------------------------------------------------
(***************************************************************************)
(* data() is not NUL-terminated at the end of the view: strlen runs on     *)
(* into the rest of the backing string.  Still, what the formatter writes  *)
(* for a non-null view is a prefix of the view's bytes, never a byte past  *)
(* its end, after any remove_suffix, substr or string_view(data, len).     *)
(***************************************************************************)
FormatWithinView ==
  \A s \in Slots :
    views[s].ptr # NullPtr => IsPrefix(FormatView(views[s]).out, Chars(views[s]))

(***************************************************************************)
(* fmt::format("{}", sv) writes exactly the bytes of sv: what the          *)
(* formatter specialisation is for.  Views reach this with a null data()  *)
(* (string_view(), NullSafeStringView(nullptr)) and with a NUL byte inside *)
(* (std::string and string_view(data, len) allow both).                    *)
(***************************************************************************)
FormatWritesView == \A s \in Slots : FormatView(views[s]) = Written(Chars(views[s]))
=============================================================================
