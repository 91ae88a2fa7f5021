---------------------------- MODULE MCOverlay ----------------------------
(* Small instances of Overlay for TLC. *)
EXTENDS Overlay, TLC

CONSTANTS k1, k2, e1, e2

Symmetric == Permutations({k1, k2}) \cup Permutations({e1, e2})

\* Where the launcher dies: anywhere; anywhere but in a rollback that has
\* already put the previous overlay back.
Anywhere == Busy
OutsideLateRollback == Busy \ {"rb_stage", "rb_close"}

\* When the player edits files, starts the game or empties the cache: between
\* calls, or also right before a call renames or checks what it verified.
BetweenCalls == {"idle"}
DuringCalls == BetweenCalls \cup {"swap_out", "swap_in", "confirm", "d_move", "d_close"}
==========================================================================
