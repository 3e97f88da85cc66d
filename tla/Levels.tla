------------------------------- MODULE Levels -------------------------------
(***************************************************************************)
(* Access levels (internal/authz): what an operator certificate carries    *)
(* and every handler compares.  A higher level includes the lower ones.    *)
(***************************************************************************)
EXTENDS Naturals

CONSTANT None   \* no value: an absent row, ceiling, owner, ...

Viewer == 0
Operator == 1
Admin == 2
Levels == Viewer..Admin
=============================================================================
