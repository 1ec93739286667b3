------------------------------- MODULE MCFmt -------------------------------
EXTENDS Fmt

\* "A", 0xC8, an embedded NUL, "A": bytes above 127, a NUL inside the string
MCMem == <<65, 200, 0, 65>>
=============================================================================
