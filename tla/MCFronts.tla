------------------------------ MODULE MCFronts ------------------------------
(* Small instances of Fronts for TLC. *)
EXTENDS MCSession, Fronts

CONSTANTS r1, r2, s1

\* No front knows plays and rooms both, so one pair of values serves for the
\* two sets; and a room, a play or a pid is as good as another.
SymmetricFronts == Permutations({r1, r2}) \cup Permutations({i1, i2})

\* The player edits the fields between calls, and between the two readings of
\* the request; BBLauncher, the player and the emulator move between a
\* verification and the look at the processes.
BetweenReads == {"idle", "prepare"}
ByHand == {"idle", "late", "looked", "found"}
AroundVerification == {"idle", "looked", "found", "final"}
AroundExport == {"idle", "stage", "replace"}
=============================================================================
