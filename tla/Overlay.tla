------------------------------ MODULE Overlay ------------------------------
(***************************************************************************)
(* The overlay transaction of bb_launcher/core.py: activate_build,         *)
(* deactivate_overlay, restore_previous_build and recover_activation, at   *)
(* the grain of one directory rename or one journal write per step, so     *)
(* that the launcher can die between any two of them.                      *)
(*                                                                         *)
(* A directory is a "tree": whose it is, and whether its files still match *)
(* the ownership manifest written with them.  The files themselves are     *)
(* abstracted away.  `stage', `backup' and `disabled' are the siblings the *)
(* journal on disk names.  When a transaction closes they are forgotten:   *)
(* the directories stay on disk, but no code in core.py looks at those     *)
(* names again (Migration keeps the one that integrated/migration.py does).*)
(***************************************************************************)
EXTENDS Naturals

CONSTANTS
  Key,       \* cache keys of verified seed builds
  Edition,   \* (seed/slot identity, player-mod merge fingerprint) pairs
  NoKey,     \* Python's None where a cache key is expected
  NoEdition, \* the edition of a tree the launcher did not write
  CrashAt,   \* control points at which the launcher may die
  MaxDeaths, \* bound on how often it does
  PlayerAt,  \* control points at which the outside world may act
  World      \* what it may do: "edit" files, run the "game", change the "cache"

ASSUME NamesAreDistinct == NoKey \notin Key /\ NoEdition \notin Edition
ASSUME DeathsAreCounted == MaxDeaths \in Nat

VARIABLES
  mods,      \* tree at CUSA03173-mods, the one directory shadPS4 resolves
  stage,     \* tree under the transaction's staging name
  backup,    \* tree under the transaction's previous-overlay name
  disabled,  \* tree under the deactivation's name
  journal,   \* the transaction file, rewritten atomically
  running,   \* shadPS4 is running
  cached,    \* keys whose cached build still verifies
  pc,        \* where the launcher is; "idle" between calls
  op,        \* the call in progress
  want,      \* its arguments
  previous,  \* activate_build's previous_owner: its cache key, or NoKey
  healed,    \* activate_build's heal_notes is not empty
  promise,   \* history: what a transaction that does not finish must give back
  deaths     \* how often the launcher has died

trees  == <<mods, stage, backup, disabled>>
disk   == <<mods, stage, backup, disabled, journal>>
world  == <<running, cached, deaths>>
locals == <<op, want, previous, healed>>
vars   == <<mods, stage, backup, disabled, journal, running, cached, pc, op, want,
            previous, healed, promise, deaths>>

Tree == [owner    : {"nobody", "ap", "player", "link", "void"},
         key      : Key \cup {NoKey},
         previous : Key \cup {NoKey},
         edition  : Edition \cup {NoEdition},
         files    : {"match", "differ", "malformed"}]

NotOurs(who) == [owner |-> who, key |-> NoKey, previous |-> NoKey,
                 edition |-> NoEdition, files |-> "match"]

Absent == NotOurs("nobody")
Folder == NotOurs("player")   \* a directory without our ownership manifest
Link   == NotOurs("link")     \* a symlink, or not a directory at all
Void   == NotOurs("void")     \* a promise the player has made impossible

Journal == [mode     : {"none", "activate", "deactivate"},
            phase    : {"none", "prepared", "staged", "previous_moved",
                        "activated", "completed", "rolled_back"},
            key      : Key \cup {NoKey},
            previous : Key \cup {NoKey}]

NoJournal == [mode |-> "none", phase |-> "none", key |-> NoKey, previous |-> NoKey]

Open == journal.phase \notin {"none", "completed", "rolled_back"}

Want == [key : Key \cup {NoKey}, edition : Edition \cup {NoEdition}, adopt : BOOLEAN]

NoWant == [key |-> NoKey, edition |-> NoEdition, adopt |-> FALSE]

Op == {"none", "recover", "activate", "deactivate", "restore"}

Busy == {"recover", "redo", "redo_close", "finish", "finish_moved",
         "finish_installed", "rollback", "rb_backup", "rb_stage", "rb_close",
         "plan", "stage", "journal", "swap_out", "mark_moved", "swap_in",
         "mark_active", "confirm", "prepare", "d_move", "d_close", "choose"}

(* _load_owner: how reading a directory's ownership manifest ends.  The     *)
(* order matters: ownership, then the expected key, then the files.         *)
LoadOwner(t, expected) ==
  IF t.owner # "ap" THEN "conflict"
  ELSE IF t.files = "malformed" \/ (expected # NoKey /\ t.key # expected)
       THEN "validation"
  ELSE IF t.files = "differ" THEN "integrity" ELSE "ok"

StillOurs(t, expected) == LoadOwner(t, expected) \in {"ok", "integrity"}

Init ==
  /\ mods = Absent /\ stage = Absent /\ backup = Absent /\ disabled = Absent
  /\ journal = NoJournal
  /\ running = FALSE /\ cached = Key
  /\ pc = "idle"
  /\ op = "none" /\ want = NoWant /\ previous = NoKey /\ healed = FALSE
  /\ promise = Absent /\ deaths = 0

-----------------------------------------------------------------------------
(* Control helpers *)

Idle == pc' = "idle" /\ op' = "none" /\ want' = NoWant
        /\ previous' = NoKey /\ healed' = FALSE

Goto(from, to) == pc = from /\ pc' = to /\ UNCHANGED <<op, want, previous>>

Resume(o) ==
  CASE o = "activate"   -> "plan"
    [] o = "deactivate" -> "prepare"
    [] o = "restore"    -> "choose"
    [] OTHER            -> "idle"

(* recover_activation returns to the call that made it. *)
Return == IF op = "recover" THEN Idle ELSE pc' = Resume(op) /\ UNCHANGED locals

(* The call raises: nothing on disk changes. *)
Raise(from) == pc = from /\ Idle /\ UNCHANGED <<disk, promise, world>>

(* Mutant: a phase name recovery does not know. *)
SetPhaseMisspelt(phase) ==
  journal' = [journal EXCEPT !.phase = IF phase = "previous_moved" THEN "moved" ELSE phase]

SetPhase(phase) == journal' = [journal EXCEPT !.phase = phase]

Close(phase) ==
  /\ SetPhase(phase)
  /\ stage' = Absent /\ backup' = Absent /\ disabled' = Absent
  /\ promise' = Absent

-----------------------------------------------------------------------------
(* Calls *)

(* Mutant: the call does not ask whether shadPS4 runs. *)
BeginUnchecked(o, k, e, adopt) ==
  /\ pc = "idle" /\ pc' = "recover" /\ op' = o
  /\ want' = [key |-> k, edition |-> e, adopt |-> adopt]
  /\ UNCHANGED <<disk, world, previous, healed, promise>>

Begin(o, k, e, adopt) ==
  /\ pc = "idle"
  /\ o # "recover" => ~running          \* _require_shad_stopped
  /\ pc' = "recover" /\ op' = o
  /\ want' = [key |-> k, edition |-> e, adopt |-> adopt]
  /\ UNCHANGED <<disk, world, previous, healed, promise>>

Call ==
  \/ \E o \in {"recover", "deactivate"} : Begin(o, NoKey, NoEdition, FALSE)
  \/ \E e \in Edition : Begin("restore", NoKey, e, FALSE)
  \/ \E k \in Key, e \in Edition, adopt \in BOOLEAN : Begin("activate", k, e, adopt)

-----------------------------------------------------------------------------
(* recover_activation *)

RecoverNothing ==
  /\ pc = "recover" /\ ~Open
  /\ IF journal.phase # "none" /\ running THEN Idle ELSE Return
  /\ UNCHANGED <<disk, world, promise>>

RecoverOpen ==
  /\ pc = "recover" /\ Open
  /\ IF running THEN Idle
     ELSE /\ pc' = IF journal.mode = "deactivate" THEN "redo" ELSE "finish"
          /\ UNCHANGED locals
  /\ UNCHANGED <<disk, world, promise>>

RedoMove ==
  /\ pc = "redo" /\ mods # Absent /\ disabled = Absent
  /\ LoadOwner(mods, journal.key) = "ok"
  /\ disabled' = mods /\ mods' = Absent
  /\ pc' = "redo_close"
  /\ UNCHANGED <<stage, backup, journal, world, locals, promise>>

RedoClose ==
  /\ \/ pc = "redo_close"
     \/ pc = "redo" /\ mods = Absent
  /\ LoadOwner(disabled, journal.key) = "ok"
  /\ Close("completed") /\ Return
  /\ UNCHANGED <<mods, world>>

RedoFails ==
  \/ /\ mods # Absent
     /\ disabled # Absent \/ LoadOwner(mods, journal.key) # "ok"
     /\ Raise("redo")
  \/ /\ mods = Absent
     /\ LoadOwner(disabled, journal.key) # "ok"
     /\ Raise("redo") \/ Raise("redo_close")

StageVerifies == LoadOwner(stage, journal.key) = "ok"

FinishStaged ==
  /\ pc = "finish" /\ journal.phase = "staged" /\ StageVerifies
  /\ IF journal.previous # NoKey
     THEN /\ mods # Absent /\ StillOurs(mods, journal.previous)
          /\ mods' = Absent
          /\ \/ LoadOwner(mods, journal.previous) = "ok"
                /\ backup' = mods /\ UNCHANGED healed
             \/ LoadOwner(mods, journal.previous) = "integrity"
                /\ healed' = TRUE /\ UNCHANGED backup
     ELSE mods = Absent /\ UNCHANGED <<mods, backup, healed>>
  /\ pc' = "finish_moved"
  /\ UNCHANGED <<stage, disabled, journal, world, op, want, previous, promise>>

FinishMarkMoved ==
  /\ Goto("finish_moved", "finish") /\ SetPhase("previous_moved")
  /\ UNCHANGED <<trees, world, healed, promise>>

FinishInstall ==
  /\ journal.phase = "previous_moved" /\ mods = Absent /\ StageVerifies
  /\ mods' = stage /\ stage' = Absent
  /\ Goto("finish", "finish_installed")
  /\ UNCHANGED <<backup, disabled, journal, world, healed, promise>>

FinishMarkActive ==
  /\ Goto("finish_installed", "finish") /\ SetPhase("activated")
  /\ UNCHANGED <<trees, world, healed, promise>>

FinishClose ==
  /\ pc = "finish" /\ journal.phase = "activated"
  /\ LoadOwner(mods, journal.key) = "ok"
  /\ Close("completed") /\ Return
  /\ UNCHANGED <<mods, world>>

(* Any other sight of the disk raises inside the try and is rolled back. *)
CanFinish ==
  \/ /\ journal.phase = "staged" /\ StageVerifies
     /\ IF journal.previous = NoKey THEN mods = Absent
        ELSE StillOurs(mods, journal.previous)
  \/ journal.phase = "previous_moved" /\ mods = Absent /\ StageVerifies
  \/ journal.phase = "activated" /\ LoadOwner(mods, journal.key) = "ok"

FinishFails ==
  /\ ~CanFinish
  /\ Goto("finish", "rollback")
  /\ UNCHANGED <<disk, world, healed, promise>>

-----------------------------------------------------------------------------
(* _rollback_activation.  The whole call fails with RecoveryError after it. *)

(* Mutant: whatever is at mods is preserved as failed, staged or not. *)
RollbackModsAlways ==
  /\ mods = Absent \/ StillOurs(mods, NoKey)
  /\ mods' = Absent
  /\ Goto("rollback", "rb_backup")
  /\ UNCHANGED <<stage, backup, disabled, journal, world, healed, promise>>

RollbackMods ==
  /\ \/ mods = Absent /\ UNCHANGED mods
     \/ /\ journal.phase = "staged" /\ journal.previous # NoKey
        /\ StillOurs(mods, journal.previous)
        /\ UNCHANGED mods
     \/ /\ journal.phase # "staged" /\ StillOurs(mods, NoKey)
        /\ mods' = Absent                        \* _preserve_failed
  /\ Goto("rollback", "rb_backup")
  /\ UNCHANGED <<stage, backup, disabled, journal, world, healed, promise>>

RollbackModsFails ==
  /\ mods # Absent
  /\ IF journal.phase = "staged"
     THEN journal.previous = NoKey \/ ~StillOurs(mods, journal.previous)
     ELSE ~StillOurs(mods, NoKey)
  /\ Raise("rollback")

(* Mutants: the backup is never put back; it is put back unchecked. *)
RollbackBackupSkipped ==
  /\ Goto("rb_backup", "rb_stage")
  /\ UNCHANGED <<disk, world, healed, promise>>

RollbackBackupUnchecked ==
  /\ IF backup # Absent /\ mods = Absent THEN mods' = backup /\ backup' = Absent
     ELSE UNCHANGED <<mods, backup>>
  /\ Goto("rb_backup", "rb_stage")
  /\ UNCHANGED <<stage, disabled, journal, world, healed, promise>>

RollbackBackup ==
  /\ IF backup = Absent THEN UNCHANGED <<mods, backup>>
     ELSE /\ LoadOwner(backup, journal.previous) = "ok"
          /\ IF mods = Absent THEN mods' = backup /\ backup' = Absent
             ELSE UNCHANGED <<mods, backup>>
  /\ Goto("rb_backup", "rb_stage")
  /\ UNCHANGED <<stage, disabled, journal, world, healed, promise>>

RollbackBackupFails ==
  /\ backup # Absent /\ LoadOwner(backup, journal.previous) # "ok"
  /\ Raise("rb_backup")

RollbackStage ==
  /\ stage' = Absent                             \* _preserve_failed
  /\ Goto("rb_stage", "rb_close")
  /\ UNCHANGED <<mods, backup, disabled, journal, world, healed, promise>>

(* Mutant: the rolled_back phase is never written. *)
RollbackCloseUnmarked == Raise("rb_close")

RollbackClose ==
  /\ pc = "rb_close"
  /\ Close("rolled_back") /\ Idle
  /\ UNCHANGED <<mods, world>>

-----------------------------------------------------------------------------
(* activate_build, after recovery *)

Unchanged == /\ ~healed
             /\ mods.key = want.key /\ mods.edition = want.edition

(* Mutant: a damaged overlay is refused, as every other caller refuses it. *)
PlanFailsOnDamage ==
  /\ \/ want.key \notin cached
     \/ mods # Absent /\ LoadOwner(mods, NoKey) # "ok"
  /\ Raise("plan")

(* The build does not verify, or mods is neither ours to replace nor ours   *)
(* to move: ConflictError without consent, or a malformed manifest.         *)
PlanFails ==
  /\ \/ want.key \notin cached
     \/ /\ mods # Absent
        /\ \/ LoadOwner(mods, NoKey) = "validation"
           \/ LoadOwner(mods, NoKey) = "conflict" /\ (mods = Link \/ ~want.adopt)
  /\ Raise("plan")

PlanUnchanged ==
  /\ want.key \in cached
  /\ LoadOwner(mods, NoKey) = "ok" /\ Unchanged
  /\ Raise("plan")

(* Mutant: the player's consent is not asked for. *)
PlanMoveAsideAnyway ==
  /\ pc = "plan" /\ want.key \in cached
  /\ LoadOwner(mods, NoKey) = "integrity" \/ mods.owner = "player"
  /\ mods' = Absent /\ healed' = TRUE
  /\ pc' = "stage"
  /\ UNCHANGED <<stage, backup, disabled, journal, world, op, want, previous, promise>>

(* _move_overlay_aside: a damaged overlay of ours, or a folder the player   *)
(* said is not theirs to keep.                                              *)
PlanMoveAside ==
  /\ pc = "plan" /\ want.key \in cached
  /\ \/ LoadOwner(mods, NoKey) = "integrity"
     \/ mods.owner = "player" /\ want.adopt
  /\ mods' = Absent /\ healed' = TRUE
  /\ pc' = "stage"
  /\ UNCHANGED <<stage, backup, disabled, journal, world, op, want, previous, promise>>

PlanReplace ==
  /\ pc = "plan" /\ want.key \in cached
  /\ \/ mods = Absent /\ UNCHANGED previous
     \/ LoadOwner(mods, NoKey) = "ok" /\ ~Unchanged /\ previous' = mods.key
  /\ pc' = "stage"
  /\ UNCHANGED <<disk, world, op, want, healed, promise>>

(* Mutant: the previous key is read from the last transaction's journal. *)
StageOverlayStale ==
  /\ stage' = [owner |-> "ap", key |-> want.key, previous |-> journal.previous,
               edition |-> want.edition, files |-> "match"]
  /\ Goto("stage", "journal")
  /\ UNCHANGED <<mods, backup, disabled, journal, world, healed, promise>>

StageOverlay ==
  /\ stage' = [owner |-> "ap", key |-> want.key, previous |-> previous,
               edition |-> want.edition, files |-> "match"]
  /\ Goto("stage", "journal")
  /\ UNCHANGED <<mods, backup, disabled, journal, world, healed, promise>>

StageFails == Raise("stage")   \* a copy fails: the stage goes to a failed name

WriteJournal ==
  /\ journal' = [mode |-> "activate", phase |-> "staged",
                 key |-> want.key, previous |-> previous]
  /\ promise' = mods
  /\ Goto("journal", "swap_out")
  /\ UNCHANGED <<trees, world, healed>>

SwapOut ==
  /\ IF previous = NoKey THEN UNCHANGED <<mods, backup>>
     ELSE mods # Absent /\ backup' = mods /\ mods' = Absent
  /\ Goto("swap_out", "mark_moved")
  /\ UNCHANGED <<stage, disabled, journal, world, healed, promise>>

MarkMoved ==
  /\ Goto("mark_moved", "swap_in") /\ SetPhase("previous_moved")
  /\ UNCHANGED <<trees, world, healed, promise>>

SwapIn ==
  /\ mods = Absent
  /\ mods' = stage /\ stage' = Absent
  /\ Goto("swap_in", "mark_active")
  /\ UNCHANGED <<backup, disabled, journal, world, healed, promise>>

MarkActive ==
  /\ Goto("mark_active", "confirm") /\ SetPhase("activated")
  /\ UNCHANGED <<trees, world, healed, promise>>

Confirm ==
  /\ pc = "confirm" /\ LoadOwner(mods, want.key) = "ok"
  /\ Close("completed") /\ Idle
  /\ UNCHANGED <<mods, world>>

(* os.replace finds no source or an occupied target, or the check refuses. *)
SwapFails ==
  \/ previous # NoKey /\ mods = Absent /\ Raise("swap_out")
  \/ mods # Absent /\ Raise("swap_in")
  \/ LoadOwner(mods, want.key) # "ok" /\ Raise("confirm")

-----------------------------------------------------------------------------
(* deactivate_overlay and restore_previous_build, after recovery *)

NothingToDisable == (mods = Absent \/ LoadOwner(mods, NoKey) # "ok") /\ Raise("prepare")

PrepareDeactivation ==
  /\ LoadOwner(mods, NoKey) = "ok"
  /\ journal' = [mode |-> "deactivate", phase |-> "prepared",
                 key |-> mods.key, previous |-> NoKey]
  /\ promise' = mods
  /\ Goto("prepare", "d_move")
  /\ UNCHANGED <<trees, world, healed>>

Disable ==
  /\ mods # Absent
  /\ disabled' = mods /\ mods' = Absent
  /\ Goto("d_move", "d_close")
  /\ UNCHANGED <<stage, backup, journal, world, healed, promise>>

DisableClose ==
  /\ pc = "d_close" /\ LoadOwner(disabled, journal.key) = "ok"
  /\ Close("completed") /\ Idle
  /\ UNCHANGED <<mods, world>>

DisableFails ==
  \/ mods = Absent /\ Raise("d_move")
  \/ LoadOwner(disabled, journal.key) # "ok" /\ Raise("d_close")

Restorable == LoadOwner(mods, NoKey) = "ok" /\ mods.previous \in cached

RestorePrevious ==
  /\ pc = "choose" /\ Restorable /\ ~running
  /\ op' = "activate"
  /\ want' = [want EXCEPT !.key = mods.previous]
  /\ pc' = "recover" /\ healed' = FALSE
  /\ UNCHANGED <<disk, world, previous, promise>>

NothingToRestore == (~Restorable \/ running) /\ Raise("choose")

-----------------------------------------------------------------------------
(* The launcher dies, or an operating-system error ends the call. *)

Crash ==
  /\ pc \in CrashAt \ {"idle"} /\ deaths < MaxDeaths
  /\ deaths' = deaths + 1 /\ Idle
  /\ stage' = IF Open THEN stage ELSE Absent    \* an unjournaled stage is litter
  /\ UNCHANGED <<mods, backup, disabled, journal, running, cached, promise>>

-----------------------------------------------------------------------------
(* The player, the game, and a game manager at work on the mods directory *)

Damaged(t) == {[t EXCEPT !.files = "differ"], [t EXCEPT !.files = "malformed"]}

(* What was promised is at the backup name once moved there, else at mods. *)
Holder == IF backup = promise THEN "backup" ELSE IF mods = promise THEN "mods" ELSE "none"

Touch(name) ==
  promise' = IF Open /\ promise # Absent /\ Holder = name THEN Void ELSE promise

EditMods ==
  /\ mods.owner = "ap" /\ mods.files = "match"
  /\ mods' \in Damaged(mods) /\ Touch("mods")
  /\ UNCHANGED <<stage, backup, disabled>>

RemoveMods ==
  /\ mods # Absent
  /\ mods' = Absent /\ Touch("mods")
  /\ UNCHANGED <<stage, backup, disabled>>

PlaceMods ==
  /\ mods = Absent
  /\ mods' \in {Folder, Link}
  /\ UNCHANGED <<stage, backup, disabled, promise>>

EditSibling ==
  /\ \/ stage.owner = "ap" /\ stage.files = "match"
        /\ stage' \in Damaged(stage) /\ UNCHANGED <<backup, disabled, promise>>
     \/ backup.owner = "ap" /\ backup.files = "match"
        /\ backup' \in Damaged(backup) /\ Touch("backup") /\ UNCHANGED <<stage, disabled>>
     \/ disabled.owner = "ap" /\ disabled.files = "match"
        /\ disabled' \in Damaged(disabled) /\ UNCHANGED <<stage, backup, promise>>
  /\ UNCHANGED mods

EditFiles ==
  /\ "edit" \in World /\ pc \in PlayerAt
  /\ EditMods \/ RemoveMods \/ PlaceMods \/ EditSibling
  /\ UNCHANGED <<journal, world, pc, locals>>

GameStarts ==
  /\ "game" \in World /\ pc \in PlayerAt /\ ~running
  /\ running' = TRUE
  /\ UNCHANGED <<disk, cached, deaths, pc, locals, promise>>

GameStops ==
  /\ pc \in PlayerAt /\ running
  /\ running' = FALSE
  /\ UNCHANGED <<disk, cached, deaths, pc, locals, promise>>

CacheChanges ==
  /\ "cache" \in World /\ pc \in PlayerAt
  /\ cached' \in SUBSET Key
  /\ UNCHANGED <<disk, running, deaths, pc, locals, promise>>

Outside == EditFiles \/ GameStarts \/ GameStops \/ CacheChanges

-----------------------------------------------------------------------------

Recover ==
  RecoverNothing \/ RecoverOpen \/ RedoMove \/ RedoClose \/ RedoFails
  \/ FinishStaged \/ FinishMarkMoved \/ FinishInstall \/ FinishMarkActive
  \/ FinishClose \/ FinishFails

Rollback ==
  RollbackMods \/ RollbackModsFails \/ RollbackBackup \/ RollbackBackupFails
  \/ RollbackStage \/ RollbackClose

Activate ==
  PlanFails \/ PlanUnchanged \/ PlanMoveAside \/ PlanReplace \/ StageOverlay
  \/ StageFails \/ WriteJournal \/ SwapOut \/ MarkMoved \/ SwapIn \/ MarkActive
  \/ Confirm \/ SwapFails

Deactivate ==
  NothingToDisable \/ PrepareDeactivation \/ Disable \/ DisableClose \/ DisableFails

Restore == RestorePrevious \/ NothingToRestore

Launcher == Recover \/ Rollback \/ Activate \/ Deactivate \/ Restore

Next == Call \/ Launcher \/ Crash \/ Outside

Spec == Init /\ [][Next]_vars

(***************************************************************************)
(*                               Properties                                *)
(***************************************************************************)

(* Every variable holds what the code can put there. *)
TypeOK ==
  /\ mods \in Tree /\ stage \in Tree /\ backup \in Tree /\ disabled \in Tree
  /\ journal \in Journal
  /\ running \in BOOLEAN /\ cached \in SUBSET Key
  /\ pc \in Busy \cup {"idle"}
  /\ op \in Op /\ want \in Want /\ previous \in Key \cup {NoKey} /\ healed \in BOOLEAN
  /\ promise \in Tree /\ deaths \in 0..MaxDeaths

(***************************************************************************)
(* The inductive invariant.  What each control point has established, as   *)
(* long as the player acts only between calls:                             *)
(***************************************************************************)
Installing == {"swap_out", "mark_moved", "swap_in", "mark_active", "confirm"}
Finishing  == {"finish", "finish_moved", "finish_installed",
               "rollback", "rb_backup", "rb_stage", "rb_close"}
LateRollback == {"rb_stage", "rb_close"}

OpenInv ==
  /\ pc \in {"plan", "stage", "journal", "prepare", "choose"} => ~Open
  /\ pc \in Installing \cup Finishing => Open /\ journal.mode = "activate"
  /\ pc \in {"redo", "redo_close", "d_move", "d_close"}
       => Open /\ journal.mode = "deactivate"
  /\ pc \in {"swap_out", "mark_moved", "finish_moved"} => journal.phase = "staged"
  /\ pc \in {"swap_in", "mark_active", "finish_installed"}
       => journal.phase = "previous_moved"
  /\ pc = "confirm" => journal.phase = "activated"

CallInv ==
  /\ running => pc = "idle" \/ (pc = "recover" /\ op = "recover")
  /\ pc \in {"plan", "stage", "journal"} \cup Installing => op = "activate"
  /\ pc \notin {"stage", "journal"} \cup Installing => previous = NoKey
  /\ pc \in {"stage", "journal"} \cup Installing => want.key \in Key
  /\ pc \in Installing => journal.key = want.key /\ journal.previous = previous

ModsInv ==
  /\ pc \in {"stage", "journal", "swap_out"} =>
       IF previous = NoKey THEN mods = Absent ELSE LoadOwner(mods, previous) = "ok"
  /\ pc \in {"journal", "swap_out", "mark_moved", "swap_in"}
       => LoadOwner(stage, want.key) = "ok"
  /\ pc \in {"mark_moved", "swap_in", "redo_close", "d_close", "finish_moved"}
       => mods = Absent
  /\ pc \in {"d_move", "mark_active", "confirm", "finish_installed"}
       => LoadOwner(mods, journal.key) = "ok"
  /\ pc = "rb_backup" /\ mods # Absent
       => mods.owner = "ap" /\ journal.phase = "staged" /\ journal.previous # NoKey

(* Our manifests name a build, and a closed transaction has no siblings.    *)
NamesInv ==
  /\ \A t \in {mods, stage, backup, disabled} : t.owner = "ap" => t.key \in Key
  /\ IF Open THEN journal.key \in Key /\ journal.mode \in {"activate", "deactivate"}
     ELSE backup = Absent /\ disabled = Absent

(* Where an open activation keeps the overlay it may have to give back: at  *)
(* the backup name once moved there, at mods before that.                   *)
DiskInv ==
  Open /\ journal.mode = "activate" =>
    /\ journal.previous = NoKey <=> promise = Absent
    /\ promise \in {Absent, Void} \/ LoadOwner(promise, journal.previous) = "ok"
    /\ backup # Absent => journal.previous # NoKey
    /\ LoadOwner(backup, NoKey) = "ok" => promise = backup
    /\ journal.phase = "staged" =>
         /\ backup # Absent => mods.owner # "ap"
         /\ LoadOwner(mods, NoKey) = "ok" => promise = mods
    /\ promise \notin {Absent, Void, backup} =>
         promise = mods /\ (journal.phase = "staged" \/ pc \in LateRollback)
    /\ pc \in LateRollback => promise \in {mods, Void}

ControlInv == OpenInv /\ CallInv /\ ModsInv /\ NamesInv

Inductive == ControlInv /\ DiskInv

(* While an activation is open, the overlay it must give back on failure   *)
(* sits at the mods name or at the backup name, wherever the launcher died. *)
PromiseHeld ==
  Open /\ journal.mode = "activate" /\ promise \notin {Absent, Void}
    => promise \in {mods, backup}

(* docs/LAUNCHER.md: "an interrupted transaction either finishes from the   *)
(* verified stage or restores the verified previous overlay".  A step that  *)
(* closes an activation as completed leaves the journaled build, verified,  *)
(* at mods; one that closes it as rolled back leaves the very overlay that  *)
(* was there before it began (unless the player spoilt that one).           *)
PromiseKept ==
  [][Open /\ ~Open' /\ journal.mode = "activate" =>
       CASE journal'.phase = "completed" -> LoadOwner(mods', journal.key) = "ok"
         [] journal'.phase = "rolled_back" -> promise \in {mods', Void}]_vars

(* Player content is never moved without consent: the launcher takes a      *)
(* directory without our manifest away only in an activation the player     *)
(* confirmed, and a link or a file at that name never.  (Between calls the  *)
(* player does as he likes.)                                                *)
ForeignIsLeftAlone ==
  [][mods.owner \in {"player", "link"} /\ mods' # mods =>
       pc = "idle" \/ (mods.owner = "player" /\ op = "activate" /\ want.adopt)]_vars

(* No call of the launcher installs a tree that fails its own ownership     *)
(* check.                                                                   *)
OnlyVerifiedInstalled ==
  [][mods' \notin {mods, Absent} => pc = "idle" \/ LoadOwner(mods', NoKey) = "ok"]_vars

(* The manifest of a freshly activated overlay names the overlay it took    *)
(* over from, so Restore Previous goes back to the build last played.       *)
PreviousIsTruthful ==
  [][Open /\ journal'.phase = "completed" /\ journal.mode = "activate" =>
       promise = Void \/ mods'.previous = promise.key]_vars

(* activate_build "is the one operation that heals rather than polices the  *)
(* directory it owns": an activation of a good build that comes to an end   *)
(* leaves no damaged overlay behind, unless it rolled a transaction back or *)
(* was stopped by a deactivation still open when it was called (then its    *)
(* recovery raises before anything is healed).                              *)
HealsUnlessDeactivating ==
  [][op = "activate" /\ want.key \in cached /\ pc # "idle" /\ pc' = "idle"
       /\ LoadOwner(mods', NoKey) = "integrity"
       => \/ running \/ deaths' # deaths
          \/ journal'.phase = "rolled_back"
          \/ Open' /\ journal'.mode = "deactivate"]_vars

(* The transaction implements the abstract switch: SeedSwitch's game is     *)
(* shown what is at mods, and its switch is pending while the journal is    *)
(* open.                                                                    *)
NoTarget == [mode |-> "none", key |-> NoKey]

Target == [mode : {"activate", "deactivate"}, key : Key]

Delivers ==
  {d \in Tree \X Target : IF d[2].mode = "deactivate" THEN d[1] = Absent
                          ELSE LoadOwner(d[1], d[2].key) = "ok"}

Removable == {t \in Tree : t.owner = "player" \/ LoadOwner(t, NoKey) = "integrity"}

Pending == IF Open THEN [mode |-> journal.mode, key |-> journal.key] ELSE NoTarget

Switch == INSTANCE SeedSwitch WITH
  None <- NoTarget, target <- Pending,
  shown <- mods, saved <- promise, busy <- (pc # "idle")

ImplementsSwitch == Switch!Spec

(* Interrupted transactions do not linger: the launcher dies finitely often *)
(* and files are left alone, so an open transaction is eventually closed.   *)
TransactionsClose == Open ~> ~Open

(* The launcher runs while a call is in progress, the player eventually     *)
(* quits the game, and comes back to the launcher with the game closed.     *)
Fairness ==
  /\ WF_vars(Launcher)
  /\ SF_vars(GameStops)
  /\ SF_vars(~running /\ Begin("recover", NoKey, NoEdition, FALSE))

FairSpec == Spec /\ Fairness

=============================================================================
