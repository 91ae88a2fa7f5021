------------------------------ MODULE Migration ------------------------------
(***************************************************************************)
(* The legacy overlay migration of bb_launcher/integrated/migration.py,    *)
(* composed with the overlay transaction it calls.  The companion launcher *)
(* owned the whole mods directory; before BBLauncher takes over, its       *)
(* overlay is disabled and the player's own files that were merged into it *)
(* are put back at mods as a plain folder.                                 *)
(*                                                                         *)
(* The migration keeps a record of its own.  What that record calls        *)
(* `disabled' is read from the transaction file of core.py, so the tree a  *)
(* closed deactivation left behind matters here (`left').  An overlay      *)
(* carries player files when its edition is in Merging; the count the      *)
(* record keeps is then 1.                                                 *)
(***************************************************************************)
EXTENDS Overlay

CONSTANTS
  Merging,        \* the editions with player files merged in
  MigrationAt,    \* points of a migration at which the world may act
  CompanionWaits  \* the player activates nothing while a migration is unfinished

ASSUME MigrationConstants == Merging \subseteq Edition /\ CompanionWaits \in BOOLEAN

VARIABLES
  record,    \* the migration record, rewritten atomically
  left,      \* tree under the disabled name in the closed transaction file
  original,  \* tree under the disabled name in the record
  locked,    \* the lock file of this install exists
  mpc,       \* where the migration is; "idle" when none runs
  taken      \* history: the overlay last moved away for an unfinished migration

migration == <<record, left, original, locked, mpc, taken>>
allVars   == <<vars, migration>>

(* Its phase: none, prepared, disabled or completed; the overlay it names.  *)
NoRecord == [phase |-> "none", key |-> NoKey, merged |-> 0]

MigrationPoints == {"run", "disabling", "recovering", "returned", "name", "placed"}

Unfinished == record.phase \in {"prepared", "disabled"}

Merged(t) == IF t.edition \in Merging THEN 1 ELSE 0

(* The player's files alone, as _copy_merged_files publishes them. *)
Plain(e) == [Folder EXCEPT !.edition = e]

MigrationInit ==
  /\ Init
  /\ record = NoRecord /\ left = Absent /\ original = Absent
  /\ locked = FALSE /\ mpc = "idle" /\ taken = Absent

-----------------------------------------------------------------------------
(* One migration.  Whatever ends it, install_lock removes the lock file.    *)

Release == mpc' = "idle" /\ locked' = FALSE

Abort == Release /\ UNCHANGED <<vars, record, left, original, taken>>

BeginMigration ==
  /\ mpc = "idle" /\ pc = "idle" /\ ~running /\ ~locked
  /\ mpc' = "run" /\ locked' = TRUE
  /\ UNCHANGED <<vars, record, left, original, taken>>

(* no_legacy, or already_migrated.                                          *)
NothingLegacy ==
  /\ mpc = "run" /\ ~Unfinished /\ mods.owner # "ap"
  /\ Abort

(* The companion's overlay is there, for the first time or again.           *)
RecordPrepared ==
  /\ mpc = "run" /\ ~Unfinished /\ mods.owner = "ap"
  /\ IF LoadOwner(mods, NoKey) = "ok"
     THEN /\ record' = [phase |-> "prepared", key |-> mods.key, merged |-> Merged(mods)]
          /\ taken' = Absent
          /\ UNCHANGED <<vars, left, original, locked, mpc>>
     ELSE Abort

CallDeactivate ==
  /\ mpc = "run" /\ record.phase = "prepared" /\ mods # Absent
  /\ IF LoadOwner(mods, record.key) = "ok" /\ Merged(mods) = record.merged /\ ~running
     THEN /\ Begin("deactivate", NoKey, NoEdition, FALSE)
          /\ mpc' = "disabling"
          /\ UNCHANGED <<record, left, original, locked, taken>>
     ELSE Abort

CallRecover ==
  /\ mpc = "run" /\ record.phase = "prepared" /\ mods = Absent
  /\ Begin("recover", NoKey, NoEdition, FALSE)
  /\ mpc' = "recovering"
  /\ UNCHANGED <<record, left, original, locked, taken>>

(* The call just ending is one that returns rather than raises.             *)
Returns ==
  IF mpc = "disabling" THEN DisableClose
  ELSE RedoClose \/ FinishClose
       \/ (RecoverNothing /\ (journal.phase = "none" \/ ~running))

(* A deactivation returns the tree it moved, whichever build that was.      *)
(* After a recovery, _disabled_path asks the transaction file for the name. *)
TransactionNamesIt == journal.mode = "deactivate" /\ journal.key = record.key

RecordDisabled ==
  /\ mpc \in {"returned", "name"}
  /\ IF mpc = "returned" \/ TransactionNamesIt
     THEN /\ record' = [record EXCEPT !.phase = "disabled"]
          /\ original' = left
          /\ mpc' = "run"
          /\ UNCHANGED <<vars, left, locked, taken>>
     ELSE Abort

OriginalVerifies ==
  LoadOwner(original, record.key) = "ok" /\ Merged(original) = record.merged

(* Mutant: whatever is at mods when a run resumes is taken for the copy.    *)
PlayerFilesUnchecked ==
  /\ mpc = "run" /\ record.phase = "disabled" /\ OriginalVerifies
  /\ mods' = IF mods = Absent /\ record.merged = 1 THEN Plain(original.edition) ELSE mods
  /\ mpc' = "placed"
  /\ UNCHANGED <<stage, backup, disabled, journal, world, pc, locals, promise,
                 record, left, original, locked, taken>>

(* Mutant: a copy that an earlier run placed is not recognised.             *)
PlayerFilesAnew ==
  /\ mpc = "run" /\ record.phase = "disabled" /\ OriginalVerifies
  /\ IF mods # Absent THEN Abort
     ELSE /\ mods' = IF record.merged = 1 THEN Plain(original.edition) ELSE Absent
          /\ mpc' = "placed"
          /\ UNCHANGED <<stage, backup, disabled, journal, world, pc, locals, promise,
                         record, left, original, locked, taken>>

PlayerFiles ==
  /\ mpc = "run" /\ record.phase = "disabled" /\ OriginalVerifies
  /\ \/ record.merged = 0 /\ mods = Absent /\ UNCHANGED mods
     \/ record.merged = 1 /\ mods = Plain(original.edition) /\ UNCHANGED mods
     \/ record.merged = 1 /\ mods = Absent /\ mods' = Plain(original.edition)
  /\ mpc' = "placed"
  /\ UNCHANGED <<stage, backup, disabled, journal, world, pc, locals, promise,
                 record, left, original, locked, taken>>

(* The original was changed, or something else appeared at mods.            *)
PlayerFilesFail ==
  /\ mpc = "run" /\ record.phase = "disabled"
  /\ \/ ~OriginalVerifies
     \/ mods # Absent /\ (record.merged = 0 \/ mods # Plain(original.edition))
  /\ Abort

RecordCompleted ==
  /\ mpc = "placed"
  /\ record' = [record EXCEPT !.phase = "completed"]
  /\ taken' = Absent
  /\ Release
  /\ UNCHANGED <<vars, left, original>>

Migrate ==
  NothingLegacy \/ RecordPrepared \/ CallDeactivate \/ CallRecover \/ RecordDisabled
  \/ PlayerFiles \/ PlayerFilesFail \/ RecordCompleted

-----------------------------------------------------------------------------
(* Steps of core.py, whoever called it *)

(* A closed deactivation leaves its tree behind; the next transaction file  *)
(* no longer names it.                                                      *)
KeepLeft ==
  left' = IF journal' = journal THEN left
          ELSE IF journal'.mode = "deactivate" /\ journal'.phase = "completed"
               THEN disabled ELSE Absent

LauncherStep ==
  /\ Launcher
  /\ KeepLeft
  /\ IF mpc = "idle" \/ pc' # "idle" THEN UNCHANGED <<mpc, locked>>
     ELSE IF Returns
     THEN mpc' = (IF mpc = "disabling" THEN "returned" ELSE "name") /\ UNCHANGED locked
     ELSE Release
  /\ taken' = IF record.phase = "prepared" /\ mods # Absent /\ disabled' = mods
              THEN mods ELSE taken
  /\ UNCHANGED <<record, original>>

(* The player uses the companion meanwhile.                                 *)
CompanionCall ==
  /\ mpc = "idle" /\ Call
  /\ op' \in {"activate", "restore"} => ~(CompanionWaits /\ Unfinished)
  /\ UNCHANGED migration

(* A death leaves the lock file behind, an error removes it.                *)
Die ==
  /\ \/ Crash
     \/ /\ mpc \in MigrationPoints /\ pc = "idle" /\ deaths < MaxDeaths
        /\ deaths' = deaths + 1
        /\ UNCHANGED <<disk, running, cached, pc, locals, promise>>
  /\ mpc' = "idle"
  /\ IF mpc = "idle" THEN UNCHANGED locked ELSE locked' \in BOOLEAN
  /\ UNCHANGED <<record, left, original, taken>>

(* The player deletes a lock file nobody holds any more.                    *)
BreakLock ==
  /\ mpc = "idle" /\ locked
  /\ locked' = FALSE
  /\ UNCHANGED <<vars, record, left, original, mpc, taken>>

WorldMayAct == mpc \in {"idle", "disabling", "recovering"} \cup MigrationAt

EditPlain ==
  /\ "edit" \in World /\ pc \in PlayerAt
  /\ mods.owner = "player" /\ mods.edition # NoEdition
  /\ mods' = Folder
  /\ UNCHANGED <<stage, backup, disabled, journal, world, pc, locals, promise>>

WorldStep ==
  /\ WorldMayAct
  /\ Outside \/ EditPlain
  /\ taken' = IF Unfinished /\ mods' # mods THEN Void ELSE taken
  /\ UNCHANGED <<record, left, original, locked, mpc>>

(* The player changes what was moved away; a removal would be refused just  *)
(* alike.  The two names may be of one directory.                           *)
EditLeftovers ==
  /\ WorldMayAct /\ "edit" \in World /\ pc \in PlayerAt
  /\ \/ /\ left # Absent
        /\ left' = [left EXCEPT !.files = "differ"]
        /\ original' = IF original = left THEN left' ELSE original
     \/ /\ original \notin {left, Absent}
        /\ original' = [original EXCEPT !.files = "differ"]
        /\ UNCHANGED left
  /\ UNCHANGED <<vars, record, locked, mpc, taken>>

MigrationNext ==
  \/ BeginMigration \/ Migrate \/ LauncherStep \/ CompanionCall
  \/ Die \/ BreakLock \/ WorldStep \/ EditLeftovers

MigrationSpec == MigrationInit /\ [][MigrationNext]_allVars

(***************************************************************************)
(*                               Properties                                *)
(***************************************************************************)

(* migrate_legacy_overlay "is resumable after companion deactivation or the *)
(* player-file copy": wherever it died, a migration that is recorded as     *)
(* completed has put away the very overlay the companion last moved from    *)
(* mods, intact, and has the player files of that overlay, no more and no   *)
(* less, at mods.  (Unless the player took that overlay away himself.)      *)
PlayerFilesReturn ==
  [][record.phase = "disabled" /\ record'.phase = "completed" =>
       /\ LoadOwner(original, record.key) = "ok"
       /\ taken \in {original, Void}
       /\ mods' = IF original.edition \in Merging THEN Plain(original.edition)
                  ELSE Absent]_allVars

(* A migration that was begun on a settled overlay is finished: it is       *)
(* called again after every death or refusal, by a player who leaves the    *)
(* files alone, activates nothing in between and deletes a lock file left   *)
(* by a dead launcher.  (With an activation still open, the recovery may    *)
(* roll the overlay away the record already names; then nothing finishes    *)
(* it but activating that build again.)                                     *)
MigrationFinishes ==
  record.phase = "prepared" /\ ~Open /\ mods.key = record.key /\ Merged(mods) = record.merged
    ~> record.phase = "completed"

MigrationFairness ==
  /\ WF_allVars(LauncherStep)
  /\ WF_allVars(Migrate)
  /\ WF_allVars(BreakLock)
  /\ SF_allVars(WorldStep /\ GameStops)
  /\ SF_allVars(BeginMigration)
  /\ SF_allVars(CompanionCall /\ ~running /\ Begin("recover", NoKey, NoEdition, FALSE))

FairMigrationSpec == MigrationSpec /\ MigrationFairness

=============================================================================
