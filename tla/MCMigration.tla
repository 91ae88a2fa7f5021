----------------------------- MODULE MCMigration -----------------------------
(* Small instances of Migration for TLC: only the first edition carries      *)
(* player files.                                                             *)
EXTENDS Migration, TLC

CONSTANTS k1, k2, e1, e2

Symmetric == Permutations({k1, k2})

\* Where the launcher dies: anywhere; anywhere but in a rollback that has
\* already put the previous overlay back.
Anywhere == Busy
OutsideLateRollback == Busy \ {"rb_stage", "rb_close"}

\* When the player edits files or starts the game: between calls; in a
\* migration never between its last look and what it then records.
BetweenCalls == {"idle"}
NotBeforeRecording == {"run", "name"}
Nowhere == {}
=============================================================================
