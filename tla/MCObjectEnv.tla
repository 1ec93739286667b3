----------------------------- MODULE MCObjectEnv -----------------------------
EXTENDS ObjectEnv

CONSTANTS o1, o2, o3, n1

\* o1 and o2 are two services under the same name; o3 has no name
MCNameOf == [o \in Objs |-> IF o = o3 THEN NoName ELSE n1]
=============================================================================
