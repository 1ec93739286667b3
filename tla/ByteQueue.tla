------------------------------ MODULE ByteQueue ------------------------------
(***************************************************************************)
(* What the staging buffer promises its users: its readable region is a    *)
(* FIFO of bytes.  A step either adds bytes at the tail (Append), removes  *)
(* bytes from the head (Retrive, RetriveAll) or takes bytes back from the  *)
(* tail (Unwrite).  Growing or compacting the storage is invisible here.   *)
(***************************************************************************)
EXTENDS Sequences, SequencesExt

VARIABLE content

QInit == content = <<>>

\* bytes added at the tail, the old content untouched
Put == IsPrefix(content, content') /\ content' # content

\* bytes consumed from the head
Take == IsSuffix(content', content) /\ content' # content

\* bytes taken back from the tail
Unput == IsPrefix(content', content) /\ content' # content

QNext == Put \/ Take \/ Unput

QSpec == QInit /\ [][QNext]_content
=============================================================================
