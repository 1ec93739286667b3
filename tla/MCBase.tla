------------------------------- MODULE MCBase -------------------------------
(***************************************************************************)
(* The two value types fmt.h gives formatters for, side by side:           *)
(* string_views (with the string_view formatter of Fmt) and Status         *)
(* objects.  They share no state and every property is about one of them, *)
(* so a behaviour exercises one of the two (side), the other staying in    *)
(* its initial state: the reachable states of each are all explored,      *)
(* without the product of the two state spaces.  Each property is checked *)
(* on its own side: elsewhere its component is in its initial state, which *)
(* its own side's initial state covers.                                    *)
(***************************************************************************)
EXTENDS Naturals

CONSTANTS
  mem, Slots, SizeBits, NullPtr, OutOfRange,
  Objs, Blocks, Codes, kOk, Msgs, Null, Free

VARIABLES views, err, alive, st, heap, fault, side

svVars == <<views, err>>
stVars == <<alive, st, heap, fault>>
vars == <<svVars, stVars, side>>

SV == INSTANCE Fmt
ST == INSTANCE Status WITH Slots <- Objs

\* "A", 0xC8, an embedded NUL, "A": bytes above 127, a NUL inside the string
MCMem == <<65, 200, 0, 65>>

Init == SV!Init /\ ST!Init /\ side \in {"string_view", "status"}

Next ==
  \/ side = "string_view" /\ SV!Next /\ UNCHANGED <<stVars, side>>
  \/ side = "status" /\ ST!Next /\ UNCHANGED <<svVars, side>>

Spec == Init /\ [][Next]_vars

-----------------------------------------------------------------------------
\* The types of both, and Status's representation invariant
TypeOK == SV!TypeOK /\ ST!TypeOK

\* Every view lies inside the backing string; a null view is empty
ViewsInBounds == side = "string_view" => SV!ViewsInBounds

\* compare() is the lexicographic order of the viewed unsigned bytes
CompareIsLexicographic == side = "string_view" => SV!CompareIsLexicographic

\* ==, <, <=, > and >= agree with that order
RelationalOperatorsAgree == side = "string_view" => SV!RelationalOperatorsAgree

\* copy() writes the longest run of at most n viewed bytes from pos
CopyMatchesView == side = "string_view" => SV!CopyMatchesView

\* StartsWith and EndsWith are the prefix and suffix relations
AffixTestsMatchReference == side = "string_view" => SV!AffixTestsMatchReference

\* compare(pos1, count1, ...) and compare(const char*) order the selected bytes
CompareOverloadsMatchReference == side = "string_view" => SV!CompareOverloadsMatchReference


\* The string_view formatter never writes a byte past the end of the view
FormatWithinView == side = "string_view" => SV!FormatWithinView

\* Every allocated block has exactly one live owner, none dangles
OwnershipExclusive == side = "status" => ST!OwnershipExclusive

\* No block is read or deleted after it is freed
NoUseAfterFree == side = "status" => ST!NoUseAfterFree
=============================================================================
