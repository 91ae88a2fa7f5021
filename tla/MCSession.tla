----------------------------- MODULE MCSession -----------------------------
(* Small instances of Session for TLC. *)
EXTENDS Session, TLC

CONSTANTS p1, p2, i1, i2

Symmetric == Permutations({p1, p2}) \cup Permutations({i1, i2})

\* A backend dies anywhere; or anywhere but between starting a client and
\* having recorded it.
Anywhere == Steps
NotUnrecorded == Steps \ {"register"}
=============================================================================
