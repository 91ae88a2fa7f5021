-------------------------- MODULE MigrationProofs --------------------------
(***************************************************************************)
(* The legacy migration, for any keys, editions, control points of death   *)
(* and bound on deaths, and for a player who edits files between calls:    *)
(* it gives the player's files back, and the overlay transaction keeps its *)
(* own promises while migrations run beside and around it.                 *)
(***************************************************************************)
EXTENDS Migration, OverlayProofs

MigrationTypeOK ==
  /\ TypeOK
  /\ record \in [phase : {"none", "prepared", "disabled", "completed"},
                 key : Key \cup {NoKey}, merged : {0, 1}]
  /\ left \in Tree /\ original \in Tree /\ taken \in Tree /\ locked \in BOOLEAN
  /\ mpc \in MigrationPoints \cup {"idle"}

(* What each point of a migration has established. *)
CallsInv ==
  /\ mpc \in {"run", "returned", "name", "placed"} => pc = "idle"
  /\ mpc \in {"disabling", "recovering", "returned", "name"} => record.phase = "prepared"
  /\ mpc \in {"returned", "name"} => ~Open
  /\ mpc = "returned" => journal.mode = "deactivate"
  /\ mpc = "placed" =>
       /\ record.phase = "disabled" /\ OriginalVerifies
       /\ mods = IF record.merged = 1 THEN Plain(original.edition) ELSE Absent

(* A migration leaves the overlay transaction alone except for the player's *)
(* files, which it places where nothing is.                                 *)
OwnStep ==
  /\ pc = "idle" /\ pc' = "idle"
  /\ mods' = mods \/ (mods.owner # "ap" /\ mods'.owner = "player")
  /\ UNCHANGED <<stage, backup, disabled, journal, running, cached, locals, promise>>

LEMMA OverlaySteps ==
  PlayerWaits /\ CallsInv /\ [MigrationNext]_allVars => [Next]_vars \/ OwnStep
<1> SUFFICES ASSUME PlayerWaits, CallsInv, [MigrationNext]_allVars PROVE [Next]_vars \/ OwnStep
  OBVIOUS
<1>1. CASE UNCHANGED allVars \/ BeginMigration \/ BreakLock \/ EditLeftovers
  <2>1. UNCHANGED vars
    BY <1>1 DEF allVars, BeginMigration, BreakLock, EditLeftovers
  <2>2. QED
    BY <2>1
<1>2. CASE Migrate
  <2>1. UNCHANGED vars \/ Call \/ (PlayerFiles /\ mods' # mods)
    BY <1>2 DEF Migrate, NothingLegacy, RecordPrepared, CallDeactivate, CallRecover,
       RecordDisabled, PlayerFiles, PlayerFilesFail, RecordCompleted, Abort, Call, vars,
       world, locals
  <2>2. CASE PlayerFiles /\ mods' # mods
    <3>1. mods = Absent /\ mods' = Plain(original.edition) /\ pc = "idle"
      BY <2>2 DEF PlayerFiles, CallsInv
    <3>2. mods.owner # "ap" /\ mods'.owner = "player"
      BY <3>1, NotOursOwner DEF Plain, Folder, NotOurs
    <3>3. QED
      BY <2>2, <3>1, <3>2 DEF PlayerFiles, OwnStep, world, locals
  <2>3. QED
    BY <2>1, <2>2 DEF Next
<1>3. CASE LauncherStep \/ CompanionCall
  BY <1>3 DEF LauncherStep, CompanionCall, Next
<1>4. CASE Die
  <2>1. CASE Crash
    BY <2>1 DEF Next
  <2>2. CASE ~Crash
    BY <1>4, <2>2 DEF Die, OwnStep, disk, locals
  <2>3. QED
    BY <2>1, <2>2
<1>5. CASE WorldStep
  <2>1. CASE Outside
    BY <2>1 DEF Next
  <2>2. CASE EditPlain
    BY <2>2 DEF EditPlain, PlayerWaits, OwnStep, Folder, NotOurs, world, locals
  <2>3. QED
    BY <1>5, <2>1, <2>2 DEF WorldStep
<1>6. QED
  BY <1>1, <1>2, <1>3, <1>4, <1>5 DEF MigrationNext

-----------------------------------------------------------------------------
(* Types *)

LEMMA PlainIsTree == ASSUME NEW t \in Tree PROVE Plain(t.edition) \in Tree
BY NotOursIsTree DEF Plain, Tree

LEMMA DiffersIsTree == ASSUME NEW t \in Tree PROVE [t EXCEPT !.files = "differ"] \in Tree
BY DEF Tree

LEMMA MigrationTypeInit == MigrationInit => MigrationTypeOK
<1> SUFFICES ASSUME MigrationInit PROVE MigrationTypeOK
  OBVIOUS
<1>1. record \in [phase : {"none", "prepared", "disabled", "completed"},
                  key : Key \cup {NoKey}, merged : {0, 1}]
  BY DEF MigrationInit, NoRecord
<1>2. QED
  BY <1>1, TypeInit, NotOursIsTree DEF MigrationInit, MigrationTypeOK

LEMMA MigrationTypeOverlay ==
  PlayerWaits /\ CallsInv /\ MigrationTypeOK /\ [MigrationNext]_allVars => TypeOK'
<1> SUFFICES ASSUME PlayerWaits, CallsInv, MigrationTypeOK, [MigrationNext]_allVars
             PROVE  TypeOK'
  OBVIOUS
<1>1. CASE [Next]_vars
  BY <1>1, TypeNext DEF MigrationTypeOK
<1>2. CASE OwnStep /\ ~[Next]_vars
  <2>1. mods' \in Tree
    <3>1. CASE PlayerFiles
      BY <3>1, PlainIsTree, NotOursIsTree DEF PlayerFiles, MigrationTypeOK, TypeOK
    <3>2. CASE EditPlain
      BY <3>2, NotOursIsTree DEF EditPlain
    <3>3. CASE UNCHANGED mods
      BY <3>3 DEF MigrationTypeOK, TypeOK
    <3>4. PlayerFiles \/ EditPlain \/ UNCHANGED mods
      BY <1>2 DEF MigrationNext, Migrate, NothingLegacy, RecordPrepared, CallDeactivate,
         CallRecover, RecordDisabled, PlayerFilesFail, RecordCompleted, Abort, Begin,
         BeginMigration, BreakLock, EditLeftovers, LauncherStep, CompanionCall, Die,
         WorldStep, Next, allVars, vars, disk
    <3>5. QED
      BY <3>1, <3>2, <3>3, <3>4
  <2>2. deaths' \in 0..MaxDeaths
    <3>1. deaths' = deaths \/ (deaths < MaxDeaths /\ deaths' = deaths + 1)
      BY <1>2 DEF MigrationNext, Migrate, NothingLegacy, RecordPrepared, CallDeactivate,
         CallRecover, RecordDisabled, PlayerFiles, PlayerFilesFail, RecordCompleted, Abort,
         Begin, BeginMigration, BreakLock, EditLeftovers, LauncherStep, CompanionCall, Die,
         WorldStep, EditPlain, Next, allVars, vars, world
    <3>2. QED
      BY <3>1, DeathsAreCounted DEF MigrationTypeOK, TypeOK
  <2>3. QED
    BY <1>2, <2>1, <2>2 DEF OwnStep, MigrationTypeOK, TypeOK, locals
<1>3. QED
  BY <1>1, <1>2, OverlaySteps

LEMMA MigrationTypeStep ==
  PlayerWaits /\ CallsInv /\ MigrationTypeOK /\ [MigrationNext]_allVars => MigrationTypeOK'
<1> SUFFICES ASSUME PlayerWaits, CallsInv, MigrationTypeOK, [MigrationNext]_allVars
             PROVE  MigrationTypeOK'
  OBVIOUS
<1> USE DEF MigrationTypeOK
<1>0. TypeOK'
  BY MigrationTypeOverlay
<1>1. CASE UNCHANGED allVars
  BY <1>0, <1>1 DEF allVars, migration
<1>2. CASE BeginMigration \/ BreakLock
  BY <1>0, <1>2 DEF BeginMigration, BreakLock, MigrationPoints
<1>3. CASE Migrate
  <2>1. Merged(mods) \in {0, 1} /\ mods.key \in Key \cup {NoKey}
    BY DEF Merged, TypeOK, Tree
  <2>2. CASE RecordPrepared
    <3>1. CASE LoadOwner(mods, NoKey) = "ok"
      <4>1. record' = [phase |-> "prepared", key |-> mods.key, merged |-> Merged(mods)]
            /\ taken' = Absent /\ UNCHANGED <<left, original, locked, mpc>>
        BY <2>2, <3>1 DEF RecordPrepared
      <4>2. QED
        BY <1>0, <2>1, <4>1, NotOursIsTree
    <3>2. CASE LoadOwner(mods, NoKey) # "ok"
      BY <1>0, <2>2, <3>2 DEF RecordPrepared, Abort, Release
    <3>3. QED
      BY <3>1, <3>2
  <2>3. CASE RecordDisabled
    BY <1>0, <2>3 DEF RecordDisabled, Abort, Release, MigrationPoints
  <2>4. CASE RecordCompleted
    BY <1>0, <2>4, NotOursIsTree DEF RecordCompleted, Release
  <2>5. CASE NothingLegacy \/ CallDeactivate \/ CallRecover \/ PlayerFiles \/ PlayerFilesFail
    BY <1>0, <2>5 DEF NothingLegacy, CallDeactivate, CallRecover, PlayerFiles,
       PlayerFilesFail, Abort, Release, MigrationPoints
  <2>6. QED
    BY <1>3, <2>2, <2>3, <2>4, <2>5 DEF Migrate
<1>4. CASE LauncherStep
  BY <1>0, <1>4, NotOursIsTree DEF LauncherStep, KeepLeft, Release, MigrationPoints, TypeOK
<1>5. CASE CompanionCall
  BY <1>0, <1>5 DEF CompanionCall, migration
<1>6. CASE Die
  BY <1>0, <1>6 DEF Die
<1>7. CASE WorldStep
  BY <1>0, <1>7, NotOursIsTree DEF WorldStep
<1>8. CASE EditLeftovers
  BY <1>0, <1>8, DiffersIsTree DEF EditLeftovers
<1>9. QED
  BY <1>1, <1>2, <1>3, <1>4, <1>5, <1>6, <1>7, <1>8 DEF MigrationNext

-----------------------------------------------------------------------------
(* The calls of a migration *)

LEMMA LauncherBusy == Launcher => pc # "idle"
BY DEF Launcher, Recover, RecoverNothing, RecoverOpen, RedoMove, RedoClose, RedoFails,
   FinishStaged, FinishMarkMoved, FinishInstall, FinishMarkActive, FinishClose, FinishFails,
   Rollback, RollbackMods, RollbackModsFails, RollbackBackup, RollbackBackupFails,
   RollbackStage, RollbackClose, Activate, PlanFails, PlanUnchanged, PlanMoveAside,
   PlanReplace, StageOverlay, StageFails, WriteJournal, SwapOut, MarkMoved, SwapIn,
   MarkActive, Confirm, SwapFails, Deactivate, NothingToDisable, PrepareDeactivation,
   Disable, DisableClose, DisableFails, Restore, RestorePrevious, NothingToRestore, Raise,
   Goto

(* What the transaction file and the disabled name show of a launcher step. *)
Moves ==
  \/ UNCHANGED <<journal, disabled>>
  \/ UNCHANGED journal /\ Open /\ mods # Absent /\ disabled' = mods
  \/ /\ Open /\ ~Open' /\ disabled' = Absent /\ journal.mode = "deactivate"
     /\ journal'.mode = "deactivate" /\ journal'.phase = "completed"
  \/ journal'.mode # "deactivate"
  \/ Open' /\ disabled = Absent /\ disabled' = Absent

LEMMA LauncherMoves == TypeOK /\ ControlInv /\ Launcher => Moves
<1> SUFFICES ASSUME TypeOK, ControlInv, Launcher PROVE Moves
  OBVIOUS
<1> USE DEF ControlInv
<1>1. CASE Recover
  <2>1. CASE RedoClose
    <3>1. Close("completed") /\ pc \in {"redo", "redo_close"}
      BY <2>1 DEF RedoClose
    <3>2. /\ journal.mode = "deactivate" /\ Open
          /\ journal'.phase = "completed" /\ journal'.mode = "deactivate"
      BY <3>1, PhaseClosed DEF Close, OpenInv
    <3>3. QED
      BY <3>1, <3>2, ControlClose DEF Moves
  <2>2. CASE FinishClose
    BY <2>2, PhaseClosed DEF FinishClose, Close, OpenInv, Finishing, Moves
  <2>3. CASE RedoMove
    BY <2>3 DEF RedoMove, OpenInv, Moves
  <2>4. CASE FinishMarkMoved \/ FinishMarkActive
    BY <2>4 DEF FinishMarkMoved, FinishMarkActive, Goto, SetPhase, TypeOK, Journal, OpenInv,
       Finishing, Moves
  <2>5. QED
    BY <1>1, <2>1, <2>2, <2>3, <2>4 DEF Recover, RecoverNothing, RecoverOpen, RedoFails,
       FinishStaged, FinishInstall, FinishFails, Raise, disk, Moves
<1>2. CASE Rollback
  <2>1. CASE RollbackClose
    BY <2>1, PhaseClosed DEF RollbackClose, Close, OpenInv, Finishing, Moves
  <2>2. QED
    BY <1>2, <2>1 DEF Rollback, RollbackMods, RollbackModsFails, RollbackBackup,
       RollbackBackupFails, RollbackStage, Raise, disk, Moves
<1>3. CASE Activate
  <2>1. CASE Confirm
    BY <2>1, PhaseClosed DEF Confirm, Close, OpenInv, Installing, Moves
  <2>2. CASE WriteJournal
    BY <2>2 DEF WriteJournal, Moves
  <2>3. CASE MarkMoved \/ MarkActive
    BY <2>3 DEF MarkMoved, MarkActive, Goto, SetPhase, TypeOK, Journal, OpenInv, Installing,
       Moves
  <2>4. QED
    BY <1>3, <2>1, <2>2, <2>3 DEF Activate, PlanFails, PlanUnchanged, PlanMoveAside,
       PlanReplace, StageOverlay, StageFails, SwapOut, SwapIn, SwapFails, Raise, disk, Moves
<1>4. CASE Deactivate \/ Restore
  <2>1. CASE PrepareDeactivation
    BY <2>1 DEF PrepareDeactivation, Goto, trees, OpenInv, NamesInv, Open, Moves
  <2>2. CASE DisableClose
    <3>1. /\ journal.mode = "deactivate" /\ Open
          /\ journal'.phase = "completed" /\ journal'.mode = "deactivate"
      BY <2>2, PhaseClosed DEF DisableClose, Close, OpenInv
    <3>2. QED
      BY <2>2, <3>1, ControlClose DEF DisableClose, Moves
  <2>3. CASE Disable
    BY <2>3 DEF Disable, Goto, OpenInv, Moves
  <2>4. QED
    BY <1>4, <2>1, <2>2, <2>3 DEF Deactivate, NothingToDisable, DisableFails, Restore,
       RestorePrevious, NothingToRestore, Raise, disk, Moves
<1>5. QED
  BY <1>1, <1>2, <1>3, <1>4 DEF Launcher

(* A call returns to the migration with the transaction closed. *)
LEMMA ReturnsClosed ==
  TypeOK /\ ControlInv /\ Returns =>
    ~Open' /\ (mpc = "disabling" => journal'.mode = "deactivate")
<1> SUFFICES ASSUME TypeOK, ControlInv, Returns
             PROVE  ~Open' /\ (mpc = "disabling" => journal'.mode = "deactivate")
  OBVIOUS
<1>1. CASE mpc = "disabling"
  BY <1>1, PhaseClosed, ControlClose
  DEF Returns, DisableClose, Close, ControlInv, OpenInv
<1>2. CASE mpc # "disabling"
  <2>1. CASE RedoClose \/ FinishClose
    BY <1>2, <2>1, ControlClose DEF RedoClose, FinishClose
  <2>2. CASE RecoverNothing
    BY <1>2, <2>2 DEF RecoverNothing, disk, Open
  <2>3. QED
    BY <1>2, <2>1, <2>2 DEF Returns
<1>3. QED
  BY <1>1, <1>2

(* What is at mods and at the original name once the files are placed stays *)
(* so until it is recorded.                                                 *)
NotWhilePlaced == "placed" \notin MigrationAt

LEMMA CallsStep ==
  PlayerWaits /\ NotWhilePlaced /\ MigrationTypeOK /\ ControlInv /\ CallsInv
    /\ [MigrationNext]_allVars => CallsInv'
<1> SUFFICES ASSUME PlayerWaits, NotWhilePlaced, MigrationTypeOK, ControlInv, CallsInv,
                    [MigrationNext]_allVars
             PROVE  CallsInv'
  OBVIOUS
<1>1. CASE UNCHANGED allVars
  BY <1>1 DEF allVars, vars, migration, CallsInv, Open, OriginalVerifies
<1>2. CASE BeginMigration \/ BreakLock
  BY <1>2 DEF BeginMigration, BreakLock, vars, CallsInv, Open, OriginalVerifies
<1>3. CASE Migrate
  <2>1. CASE Abort
    BY <2>1 DEF Abort, Release, CallsInv
  <2>2. CASE RecordPrepared /\ ~Abort
    BY <2>2 DEF RecordPrepared, vars, CallsInv
  <2>3. CASE (CallDeactivate \/ CallRecover) /\ ~Abort
    BY <2>3 DEF CallDeactivate, CallRecover, CallsInv
  <2>4. CASE RecordDisabled /\ ~Abort
    BY <2>4 DEF RecordDisabled, vars, CallsInv
  <2>5. CASE PlayerFiles
    <3>1. mpc' = "placed" /\ UNCHANGED <<pc, record, original>>
          /\ record.phase = "disabled" /\ OriginalVerifies /\ pc = "idle"
      BY <2>5 DEF PlayerFiles, CallsInv
    <3>2. mods' = IF record.merged = 1 THEN Plain(original.edition) ELSE Absent
      BY <2>5 DEF PlayerFiles
    <3>3. QED
      BY <3>1, <3>2 DEF CallsInv, OriginalVerifies
  <2>6. CASE RecordCompleted
    BY <2>6 DEF RecordCompleted, Release, CallsInv
  <2>7. QED
    BY <1>3, <2>1, <2>2, <2>3, <2>4, <2>5, <2>6 DEF Migrate, NothingLegacy, PlayerFilesFail
<1>4. CASE LauncherStep
  <2>1. mpc \in {"idle", "disabling", "recovering"} /\ UNCHANGED record
    BY <1>4, LauncherBusy DEF LauncherStep, CallsInv, MigrationTypeOK, MigrationPoints
  <2>2. CASE mpc = "idle" \/ pc' # "idle"
    BY <1>4, <2>1, <2>2 DEF LauncherStep, CallsInv
  <2>3. CASE mpc # "idle" /\ pc' = "idle" /\ Returns
    <3>1. mpc' = IF mpc = "disabling" THEN "returned" ELSE "name"
      BY <1>4, <2>3 DEF LauncherStep
    <3>2. ~Open' /\ (mpc = "disabling" => journal'.mode = "deactivate")
      BY <2>3, ReturnsClosed DEF MigrationTypeOK
    <3>3. QED
      BY <2>1, <2>3, <3>1, <3>2 DEF CallsInv
  <2>4. CASE mpc # "idle" /\ pc' = "idle" /\ ~Returns
    BY <1>4, <2>4 DEF LauncherStep, Release, CallsInv
  <2>5. QED
    BY <2>2, <2>3, <2>4
<1>5. CASE CompanionCall
  BY <1>5 DEF CompanionCall, migration, CallsInv
<1>6. CASE Die
  BY <1>6 DEF Die, CallsInv
<1>7. CASE WorldStep
  <2>1. pc' = pc /\ UNCHANGED <<journal, record, mpc>> /\ mpc # "placed"
    BY <1>7 DEF WorldStep, WorldMayAct, NotWhilePlaced, Outside, EditFiles, GameStarts,
       GameStops, CacheChanges, EditPlain, disk
  <2>2. QED
    BY <2>1 DEF CallsInv, Open
<1>8. CASE EditLeftovers
  <2>1. UNCHANGED <<pc, journal, record, mpc>> /\ mpc # "placed"
    BY <1>8 DEF EditLeftovers, WorldMayAct, NotWhilePlaced, vars
  <2>2. QED
    BY <2>1 DEF CallsInv, Open
<1>9. QED
  BY <1>1, <1>2, <1>3, <1>4, <1>5, <1>6, <1>7, <1>8 DEF MigrationNext

-----------------------------------------------------------------------------
(***************************************************************************)
(* The overlay that was moved away last is the one the record will call    *)
(* disabled: at the disabled name while the deactivation is open, under    *)
(* the name the closed transaction file still has after it, and under the  *)
(* record's own name in the end.  An overlay of ours at mods means that    *)
(* nothing has been moved away for the record yet.                         *)
(***************************************************************************)
MovedInv ==
  journal.mode = "deactivate" /\ mods.owner = "ap" => Open /\ disabled = Absent

Intact(t) == LoadOwner(t, NoKey) = "ok"

TakenInv ==
  /\ record.phase = "prepared" /\ journal.mode = "deactivate" =>
       LET moved == IF Open THEN disabled ELSE left
       IN  Intact(moved) => taken \in {moved, Void}
  /\ record.phase = "disabled" /\ Intact(original) => taken \in {original, Void}

LEMMA AbsentNotIntact == ~Intact(Absent)
BY NotOursOwner, OkMeans DEF Intact

LEMMA ControlOwn == ControlInv /\ OwnStep => ControlInv'
BY DEF OwnStep, locals, ControlInv, OpenInv, CallInv, ModsInv, NamesInv, Open, Installing,
   Finishing

LEMMA MovedNext ==
  PlayerWaits /\ TypeOK /\ ControlInv /\ MovedInv /\ [Next]_vars => MovedInv'
<1> SUFFICES ASSUME PlayerWaits, TypeOK, ControlInv, MovedInv, [Next]_vars PROVE MovedInv'
  OBVIOUS
<1> USE DEF ControlInv
<1>1. CASE UNCHANGED vars \/ Call \/ Crash
  BY <1>1 DEF vars, Call, Begin, Crash, disk, MovedInv, Open
<1>2. CASE Recover
  <2>1. CASE RedoMove
    BY <2>1, NotOursOwner DEF RedoMove, MovedInv
  <2>2. CASE RedoClose
    <3>1. mods' = Absent
      BY <2>2 DEF RedoClose, ModsInv
    <3>2. QED
      BY <3>1, NotOursOwner DEF MovedInv
  <2>3. CASE FinishStaged \/ FinishMarkMoved \/ FinishInstall \/ FinishMarkActive \/ FinishClose
    <3>1. journal'.mode = "activate"
      BY <2>3 DEF FinishStaged, FinishMarkMoved, FinishInstall, FinishMarkActive, FinishClose,
         Goto, Close, SetPhase, TypeOK, Journal, OpenInv, Finishing
    <3>2. QED
      BY <3>1 DEF MovedInv
  <2>4. QED
    BY <1>2, <2>1, <2>2, <2>3 DEF Recover, RecoverNothing, RecoverOpen, RedoFails,
       FinishFails, Raise, disk, MovedInv, Open
<1>3. CASE Rollback
  <2>1. journal'.mode = "activate"
    BY <1>3 DEF Rollback, RollbackMods, RollbackModsFails, RollbackBackup,
       RollbackBackupFails, RollbackStage, RollbackClose, Raise, Goto, Close, SetPhase,
       TypeOK, Journal, OpenInv, Finishing, disk
  <2>2. QED
    BY <2>1 DEF MovedInv
<1>4. CASE Activate
  <2>1. CASE PlanMoveAside
    BY <2>1, NotOursOwner DEF PlanMoveAside, MovedInv
  <2>2. CASE WriteJournal \/ SwapOut \/ MarkMoved \/ SwapIn \/ MarkActive \/ Confirm
    <3>1. journal'.mode = "activate"
      BY <2>2 DEF WriteJournal, SwapOut, MarkMoved, SwapIn, MarkActive, Confirm, Goto, Close,
         SetPhase, TypeOK, Journal, OpenInv, Installing
    <3>2. QED
      BY <3>1 DEF MovedInv
  <2>3. QED
    BY <1>4, <2>1, <2>2 DEF Activate, PlanFails, PlanUnchanged, PlanReplace, StageOverlay,
       StageFails, SwapFails, Raise, disk, MovedInv, Open
<1>5. CASE Deactivate \/ Restore
  <2>1. CASE PrepareDeactivation
    BY <2>1 DEF PrepareDeactivation, Goto, trees, OpenInv, NamesInv, MovedInv, Open
  <2>2. CASE Disable
    BY <2>2, NotOursOwner DEF Disable, MovedInv
  <2>3. CASE DisableClose
    <3>1. mods' = Absent
      BY <2>3 DEF DisableClose, ModsInv
    <3>2. QED
      BY <3>1, NotOursOwner DEF MovedInv
  <2>4. QED
    BY <1>5, <2>1, <2>2, <2>3 DEF Deactivate, NothingToDisable, DisableFails, Restore,
       RestorePrevious, NothingToRestore, Raise, disk, MovedInv, Open
<1>6. CASE Outside
  <2>1. mods'.owner = "ap" => mods.owner = "ap"
    BY <1>6, NotOursOwner, DamageKeepsName
    DEF Outside, EditFiles, EditMods, RemoveMods, PlaceMods, EditSibling, GameStarts,
        GameStops, CacheChanges, disk, TypeOK
  <2>2. disabled = Absent => disabled' = Absent
    BY <1>6, NotOursOwner
    DEF Outside, EditFiles, EditMods, RemoveMods, PlaceMods, EditSibling, GameStarts,
        GameStops, CacheChanges, disk
  <2>3. UNCHANGED journal
    BY <1>6 DEF Outside, EditFiles, GameStarts, GameStops, CacheChanges, disk
  <2>4. QED
    BY <2>1, <2>2, <2>3 DEF MovedInv, Open
<1>7. QED
  BY <1>1, <1>2, <1>3, <1>4, <1>5, <1>6 DEF Next, Launcher

LEMMA MovedOwn == MovedInv /\ OwnStep => MovedInv'
BY DEF OwnStep, MovedInv, Open

LEMMA TakenLauncher ==
  MigrationTypeOK /\ ControlInv /\ TakenInv /\ LauncherStep => TakenInv'
<1> SUFFICES ASSUME MigrationTypeOK, ControlInv, TakenInv, LauncherStep PROVE TakenInv'
  OBVIOUS
<1>1. Moves
  BY LauncherMoves DEF LauncherStep, MigrationTypeOK
<1>2. UNCHANGED <<record, original>>
      /\ taken' = IF record.phase = "prepared" /\ mods # Absent /\ disabled' = mods
                  THEN mods ELSE taken
  BY DEF LauncherStep
<1>3. record'.phase = "disabled" /\ Intact(original)' => taken' \in {original', Void}
  BY <1>2 DEF TakenInv, Intact
<1>4. ASSUME record.phase = "prepared", journal'.mode = "deactivate",
             Intact(IF Open' THEN disabled' ELSE left')
      PROVE  taken' \in {IF Open' THEN disabled' ELSE left', Void}
  <2>1. CASE UNCHANGED <<journal, disabled>>
    <3>1. left' = left /\ Open' = Open
      BY <2>1 DEF LauncherStep, KeepLeft, Open
    <3>2. taken' = taken \/ (Open /\ taken' = disabled)
      BY <1>2, <2>1 DEF ControlInv, NamesInv
    <3>3. QED
      BY <1>4, <2>1, <3>1, <3>2 DEF TakenInv
  <2>2. CASE UNCHANGED journal /\ Open /\ mods # Absent /\ disabled' = mods
    BY <1>2, <1>4, <2>2 DEF Open
  <2>3. CASE /\ Open /\ ~Open' /\ disabled' = Absent /\ journal.mode = "deactivate"
             /\ journal'.mode = "deactivate" /\ journal'.phase = "completed"
    <3>1. left' = disabled /\ taken' = taken
      BY <1>2, <2>3 DEF LauncherStep, KeepLeft, Open
    <3>2. QED
      BY <1>4, <2>3, <3>1 DEF TakenInv
  <2>4. CASE Open' /\ disabled = Absent /\ disabled' = Absent
    BY <1>4, <2>4, AbsentNotIntact
  <2>5. QED
    BY <1>1, <1>4, <2>1, <2>2, <2>3, <2>4 DEF Moves
<1>5. QED
  BY <1>2, <1>3, <1>4 DEF TakenInv, Intact

LEMMA TakenMigrate ==
  MigrationTypeOK /\ CallsInv /\ MovedInv /\ TakenInv /\ Migrate => TakenInv'
<1> SUFFICES ASSUME MigrationTypeOK, CallsInv, MovedInv, TakenInv, Migrate PROVE TakenInv'
  OBVIOUS
<1>1. CASE UNCHANGED <<record, left, original, taken, journal, disabled>>
  BY <1>1 DEF TakenInv, Intact, Open
<1>2. CASE RecordPrepared /\ ~Abort
  <2>1. record'.phase = "prepared" /\ mods.owner = "ap" /\ UNCHANGED <<journal, disabled>>
    BY <1>2 DEF RecordPrepared, vars
  <2>2. journal.mode = "deactivate" => Open /\ disabled = Absent
    BY <2>1 DEF MovedInv
  <2>3. QED
    BY <2>1, <2>2, AbsentNotIntact DEF TakenInv, Intact, Open
<1>3. CASE RecordDisabled /\ ~Abort
  <2>1. /\ record.phase = "prepared" /\ record'.phase = "disabled"
        /\ original' = left /\ taken' = taken
    BY <1>3 DEF RecordDisabled, CallsInv, MigrationTypeOK
  <2>2. journal.mode = "deactivate" /\ ~Open
    BY <1>3 DEF RecordDisabled, CallsInv, TransactionNamesIt
  <2>3. QED
    BY <2>1, <2>2 DEF TakenInv, Intact
<1>4. CASE RecordCompleted
  BY <1>4 DEF RecordCompleted, TakenInv
<1>5. QED
  BY <1>1, <1>2, <1>3, <1>4 DEF Migrate, NothingLegacy, CallDeactivate, CallRecover,
     RecordPrepared, RecordDisabled, PlayerFiles, PlayerFilesFail, Abort, Begin, vars, disk

(* The player spoils what was moved away, or takes away what was to be.     *)
LEMMA TakenOutside ==
  MigrationTypeOK /\ TakenInv /\ (WorldStep \/ EditLeftovers) => TakenInv'
<1> SUFFICES ASSUME MigrationTypeOK, TakenInv, WorldStep \/ EditLeftovers PROVE TakenInv'
  OBVIOUS
<1>1. CASE WorldStep
  <2>1. UNCHANGED <<record, left, original, journal>> /\ taken' \in {taken, Void}
    BY <1>1 DEF WorldStep, Outside, EditFiles, GameStarts, GameStops, CacheChanges,
       EditPlain, disk
  <2>2. disabled' = disabled \/ ~Intact(disabled')
    BY <1>1, DamageKeepsName
    DEF WorldStep, Outside, EditFiles, EditMods, RemoveMods, PlaceMods, EditSibling,
        GameStarts, GameStops, CacheChanges, EditPlain, disk, MigrationTypeOK, TypeOK, Intact
  <2>3. QED
    BY <2>1, <2>2 DEF TakenInv, Intact, Open
<1>2. CASE EditLeftovers
  <2>1. UNCHANGED <<record, journal, disabled, taken>>
    BY <1>2 DEF EditLeftovers, vars
  <2>2. \A t \in Tree : ~Intact([t EXCEPT !.files = "differ"])
    BY DEF Intact, LoadOwner, Tree
  <2>3. /\ left' = left \/ ~Intact(left')
        /\ original' = original \/ ~Intact(original')
    BY <1>2, <2>2 DEF EditLeftovers, MigrationTypeOK
  <2>4. QED
    BY <2>1, <2>3 DEF TakenInv, Intact, Open
<1>3. QED
  BY <1>1, <1>2

LEMMA TakenStep ==
  MigrationTypeOK /\ ControlInv /\ CallsInv /\ MovedInv /\ TakenInv
    /\ [MigrationNext]_allVars => TakenInv'
<1> SUFFICES ASSUME MigrationTypeOK, ControlInv, CallsInv, MovedInv, TakenInv,
                    [MigrationNext]_allVars
             PROVE  TakenInv'
  OBVIOUS
<1>1. CASE UNCHANGED allVars \/ BeginMigration \/ BreakLock \/ CompanionCall \/ Die
  <2>1. UNCHANGED <<record, left, original, taken, journal, disabled>>
    BY <1>1 DEF allVars, vars, migration, BeginMigration, BreakLock, CompanionCall, Call,
       Begin, Die, Crash, disk
  <2>2. QED
    BY <2>1 DEF TakenInv, Intact, Open
<1>2. QED
  BY <1>1, TakenLauncher, TakenMigrate, TakenOutside DEF MigrationNext

MigrationInv == MigrationTypeOK /\ ControlInv /\ CallsInv /\ MovedInv /\ TakenInv

LEMMA MigrationInvAlways ==
  ASSUME PlayerWaits, NotWhilePlaced PROVE MigrationSpec => []MigrationInv
<1>1. MigrationInit => MigrationInv
  <2>1. MigrationInit => CallsInv /\ MovedInv /\ TakenInv
    BY DEF MigrationInit, NoRecord, Init, NoJournal, CallsInv, MovedInv, TakenInv
  <2>2. MigrationInit => ControlInv
    BY ControlInit DEF MigrationInit
  <2>3. QED
    BY <2>1, <2>2, MigrationTypeInit DEF MigrationInv
<1>2. MigrationInv /\ [MigrationNext]_allVars => MigrationInv'
  <2> SUFFICES ASSUME MigrationInv, [MigrationNext]_allVars PROVE MigrationInv'
    OBVIOUS
  <2>1. [Next]_vars \/ OwnStep
    BY OverlaySteps DEF MigrationInv
  <2>2. ControlInv' /\ MovedInv'
    BY <2>1, ControlNext, ControlOwn, MovedNext, MovedOwn DEF MigrationInv, MigrationTypeOK
  <2>3. QED
    BY <2>2, MigrationTypeStep, CallsStep, TakenStep DEF MigrationInv
<1>3. QED
  BY <1>1, <1>2, PTL DEF MigrationSpec

(* Every reachable state of a migration beside the transaction is typed. *)
THEOREM MigrationTypeCorrect ==
  ASSUME PlayerWaits, NotWhilePlaced PROVE MigrationSpec => []MigrationTypeOK
BY MigrationInvAlways, PTL DEF MigrationInv

(* A migration recorded as completed has put away, intact, the very overlay *)
(* that was last moved from mods for it, and has that overlay's player      *)
(* files at mods, however often it died and was resumed and whatever the    *)
(* companion did in between.                                                *)
THEOREM PlayerFilesBack ==
  ASSUME PlayerWaits, NotWhilePlaced PROVE MigrationSpec => PlayerFilesReturn
<1>1. MigrationInv /\ [MigrationNext]_allVars =>
        [record.phase = "disabled" /\ record'.phase = "completed" =>
           /\ LoadOwner(original, record.key) = "ok"
           /\ taken \in {original, Void}
           /\ mods' = IF original.edition \in Merging THEN Plain(original.edition)
                      ELSE Absent]_allVars
  <2> SUFFICES ASSUME MigrationInv, MigrationNext,
                      record.phase = "disabled", record'.phase = "completed"
               PROVE  /\ LoadOwner(original, record.key) = "ok"
                      /\ taken \in {original, Void}
                      /\ mods' = IF original.edition \in Merging
                                 THEN Plain(original.edition) ELSE Absent
    OBVIOUS
  <2>1. RecordCompleted
    BY DEF MigrationNext, BeginMigration, Migrate, NothingLegacy, RecordPrepared,
       CallDeactivate, CallRecover, RecordDisabled, PlayerFiles, PlayerFilesFail, Abort,
       LauncherStep, CompanionCall, migration, Die, BreakLock, WorldStep, EditLeftovers,
       MigrationInv, MigrationTypeOK
  <2>2. /\ OriginalVerifies /\ mods' = mods
        /\ mods = IF record.merged = 1 THEN Plain(original.edition) ELSE Absent
    BY <2>1 DEF RecordCompleted, vars, MigrationInv, CallsInv
  <2>3. Intact(original)
    BY <2>2, OkMeans DEF OriginalVerifies, Intact
  <2>4. QED
    BY <2>2, <2>3 DEF OriginalVerifies, Merged, MigrationInv, TakenInv
<1>2. QED
  BY <1>1, MigrationInvAlways, PTL DEF MigrationSpec, PlayerFilesReturn

-----------------------------------------------------------------------------
(* What the overlay transaction promises, with migrations at work beside it *)

LEMMA OverlayAlways ==
  ASSUME PlayerWaits, NotWhilePlaced PROVE MigrationSpec => [](TypeOK /\ ControlInv /\ HealInv)
<1>1. HealInv /\ OwnStep => HealInv'
  BY DEF OwnStep, HealInv, Activating, Open
<1>2. MigrationInit => HealInv
  BY DEF MigrationInit, Init, NoJournal, HealInv, Activating, Open
<1>3. MigrationInv /\ HealInv /\ [MigrationNext]_allVars => HealInv'
  <2>1. MigrationInv /\ [MigrationNext]_allVars => [Next]_vars \/ OwnStep
    BY OverlaySteps DEF MigrationInv
  <2>2. QED
    BY <1>1, <2>1, HealNext DEF MigrationInv, MigrationTypeOK
<1>4. MigrationInv => TypeOK /\ ControlInv
  BY DEF MigrationInv, MigrationTypeOK
<1>5. QED
  BY <1>2, <1>3, <1>4, MigrationInvAlways, PTL DEF MigrationSpec

LEMMA OverlaySteppedAlways ==
  ASSUME PlayerWaits, NotWhilePlaced
  PROVE  MigrationSpec => [][Next \/ OwnStep]_vars
<1>1. MigrationInv /\ [MigrationNext]_allVars => [Next \/ OwnStep]_vars
  BY OverlaySteps DEF MigrationInv
<1>2. QED
  BY <1>1, MigrationInvAlways, PTL DEF MigrationSpec

(* No folder of the player's is moved away without consent, and no link     *)
(* ever, by a call the migration makes or beside one.                       *)
THEOREM MigrationForeignSafe ==
  ASSUME PlayerWaits, NotWhilePlaced PROVE MigrationSpec => ForeignIsLeftAlone
<1>1. ControlInv /\ [Next \/ OwnStep]_vars =>
        [mods.owner \in {"player", "link"} /\ mods' # mods =>
           pc = "idle" \/ (mods.owner = "player" /\ op = "activate" /\ want.adopt)]_vars
  BY ForeignNext DEF ForeignStep, EditFiles, PlayerWaits, OwnStep
<1>2. QED
  BY <1>1, OverlayAlways, OverlaySteppedAlways, PTL DEF ForeignIsLeftAlone

(* No call installs a tree that fails its own check. *)
THEOREM MigrationVerifiedSafe ==
  ASSUME PlayerWaits, NotWhilePlaced PROVE MigrationSpec => OnlyVerifiedInstalled
<1>1. ControlInv /\ [Next \/ OwnStep]_vars =>
        [mods' \notin {mods, Absent} => pc = "idle" \/ LoadOwner(mods', NoKey) = "ok"]_vars
  BY VerifiedNext DEF VerifiedStep, EditFiles, PlayerWaits, OwnStep
<1>2. QED
  BY <1>1, OverlayAlways, OverlaySteppedAlways, PTL DEF OnlyVerifiedInstalled

(* An activation still heals what a migration, or the player, left at mods. *)
THEOREM MigrationHeals ==
  ASSUME PlayerWaits, NotWhilePlaced PROVE MigrationSpec => HealsUnlessDeactivating
<1>1. TypeOK /\ ControlInv /\ HealInv /\ [Next \/ OwnStep]_vars => [HealStep]_vars
  BY HealStepNext DEF HealStep, OwnStep
<1>2. QED
  BY <1>1, OverlayAlways, OverlaySteppedAlways, PTL
     DEF HealsUnlessDeactivating, HealStep

(* The player's files appear at mods as an edit between two switches. *)
LEMMA OwnIsEdit == TypeOK' /\ OwnStep => SwitchStep
<1> SUFFICES ASSUME TypeOK', OwnStep PROVE SwitchStep
  OBVIOUS
<1>1. Switch!Edit
  BY DEF OwnStep, TypeOK, Switch!Edit, Pending, Open
<1>2. QED
  BY <1>1 DEF SwitchStep, Switch!Next

LEMMA DiskOwn == DiskInv /\ OwnStep => DiskInv'
<1> SUFFICES ASSUME DiskInv, OwnStep PROVE DiskInv'
  OBVIOUS
<1>1. CASE mods' = mods
  BY <1>1, DiskSame DEF OwnStep, LateRollback
<1>2. CASE mods.owner # "ap" /\ mods'.owner = "player"
  BY <1>2, OkMeans DEF OwnStep, DiskInv, Open, LateRollback
<1>3. QED
  BY <1>1, <1>2 DEF OwnStep

(* The transaction implements the abstract switch with migrations at work.  *)
THEOREM MigrationRefinement ==
  ASSUME PlayerWaits, DeathSparesRollback, NotWhilePlaced
  PROVE  MigrationSpec => ImplementsSwitch
<1>1. MigrationInit => DiskInv /\ Switch!Init
  BY DEF MigrationInit, Init, NoJournal, DiskInv, Open, Switch!Init, Pending
<1>2. TypeOK /\ ControlInv /\ DiskInv /\ [Next \/ OwnStep]_vars => DiskInv'
  BY DiskNext, DiskOwn
<1>3. TypeOK /\ TypeOK' /\ Inductive /\ [Next \/ OwnStep]_vars => SwitchStep
  BY SwitchNext, OwnIsEdit
<1>4. QED
  BY <1>1, <1>2, <1>3, OverlayAlways, OverlaySteppedAlways, PTL
  DEF MigrationSpec, ImplementsSwitch, Switch!Spec, SwitchStep, Inductive
=============================================================================
