--------------------------- MODULE OverlayProofs ---------------------------
(***************************************************************************)
(* Type correctness and safety of the overlay transaction, for any sets of *)
(* keys and editions, any control points of death and any bound on deaths; *)
(* safety, and that it implements SeedSwitch, for a player who acts only   *)
(* between calls.                                                          *)
(***************************************************************************)
EXTENDS Overlay, TLAPS

LEMMA NotOursIsTree ==
  /\ Absent \in Tree /\ Folder \in Tree /\ Link \in Tree /\ Void \in Tree
BY DEF Absent, Folder, Link, Void, NotOurs, Tree

LEMMA DamageIsTree == ASSUME NEW t \in Tree PROVE Damaged(t) \subseteq Tree
BY DEF Damaged, Tree

LEMMA PhaseIsJournal ==
  ASSUME TypeOK,
         NEW phase \in {"previous_moved", "activated", "completed", "rolled_back"},
         SetPhase(phase)
  PROVE  journal' \in Journal
BY DEF TypeOK, SetPhase, Journal

(* The type invariant, as one lemma per group of actions. *)
LEMMA TypeInit == Init => TypeOK
<1> SUFFICES ASSUME Init PROVE TypeOK
  OBVIOUS
<1>1. deaths \in 0..MaxDeaths
  BY DeathsAreCounted DEF Init
<1>2. journal \in Journal /\ want \in Want
  BY DEF Init, NoJournal, Journal, NoWant, Want
<1>3. cached \in SUBSET Key
  BY DEF Init
<1>4. QED
  BY <1>1, <1>2, <1>3, NotOursIsTree DEF Init, TypeOK, Op, Busy

(* What an action leaves of the control state, typed. *)
ControlOK ==
  /\ pc \in Busy \cup {"idle"} /\ op \in Op /\ want \in Want
  /\ previous \in Key \cup {NoKey} /\ healed \in BOOLEAN

LEMMA IdleOK == Idle => ControlOK'
<1> SUFFICES ASSUME Idle PROVE ControlOK'
  OBVIOUS
<1>1. want' \in Want
  BY DEF Idle, NoWant, Want
<1>2. QED
  BY <1>1 DEF Idle, ControlOK, Op, Busy

LEMMA ReturnOK == TypeOK /\ Return => ControlOK'
<1> SUFFICES ASSUME TypeOK, Return PROVE ControlOK'
  OBVIOUS
<1>1. CASE op = "recover"
  BY <1>1, IdleOK DEF Return
<1>2. CASE op # "recover"
  <2>1. Resume(op) \in Busy \cup {"idle"}
    BY DEF TypeOK, Op, Busy, Resume
  <2>2. QED
    BY <1>2, <2>1 DEF Return, ControlOK, TypeOK, locals
<1>3. QED
  BY <1>1, <1>2

LEMMA RaiseOK ==
  ASSUME TypeOK, NEW from, Raise(from)
  PROVE  TypeOK'
BY IdleOK DEF TypeOK, Raise, ControlOK, disk, world

LEMMA TypeCall == TypeOK /\ Call => TypeOK'
<1> SUFFICES ASSUME TypeOK, Call PROVE TypeOK'
  OBVIOUS
<1>1. PICK o \in {"recover", "deactivate", "restore", "activate"},
           k \in Key \cup {NoKey}, e \in Edition \cup {NoEdition},
           adopt \in BOOLEAN : Begin(o, k, e, adopt)
  BY DEF Call
<1>2. QED
  BY <1>1 DEF TypeOK, Begin, disk, world, Want, Op, Busy

LEMMA TypeRecover == TypeOK /\ Recover => TypeOK'
<1> SUFFICES ASSUME TypeOK, Recover PROVE TypeOK'
  OBVIOUS
<1>1. CASE RecoverNothing
  BY <1>1, IdleOK, ReturnOK DEF RecoverNothing, TypeOK, ControlOK, disk, world
<1>2. CASE RecoverOpen
  BY <1>2, IdleOK DEF RecoverOpen, TypeOK, ControlOK, Busy, disk, world, locals
<1>3. CASE RedoMove
  BY <1>3, NotOursIsTree DEF RedoMove, TypeOK, Busy, world, locals
<1>4. CASE RedoClose
  BY <1>4, ReturnOK, NotOursIsTree, PhaseIsJournal DEF RedoClose, Close, TypeOK, ControlOK, world
<1>5. CASE RedoFails
  BY <1>5, RaiseOK DEF RedoFails
<1>6. CASE FinishStaged
  BY <1>6, NotOursIsTree DEF FinishStaged, TypeOK, Busy, world
<1>7. CASE FinishMarkMoved \/ FinishMarkActive
  BY <1>7, PhaseIsJournal DEF FinishMarkMoved, FinishMarkActive, Goto, TypeOK, Busy, trees, world
<1>8. CASE FinishInstall
  BY <1>8, NotOursIsTree DEF FinishInstall, Goto, TypeOK, Busy, world
<1>9. CASE FinishClose
  BY <1>9, ReturnOK, NotOursIsTree, PhaseIsJournal DEF FinishClose, Close, TypeOK, ControlOK, world
<1>10. CASE FinishFails
  BY <1>10 DEF FinishFails, Goto, TypeOK, Busy, disk, world
<1>11. QED
  BY <1>1, <1>2, <1>3, <1>4, <1>5, <1>6, <1>7, <1>8, <1>9, <1>10 DEF Recover

LEMMA TypeRollback == TypeOK /\ Rollback => TypeOK'
<1> SUFFICES ASSUME TypeOK, Rollback PROVE TypeOK'
  OBVIOUS
<1>1. CASE RollbackMods
  BY <1>1, NotOursIsTree DEF RollbackMods, Goto, TypeOK, Busy, world
<1>2. CASE RollbackModsFails \/ RollbackBackupFails
  BY <1>2, RaiseOK DEF RollbackModsFails, RollbackBackupFails
<1>3. CASE RollbackBackup
  BY <1>3, NotOursIsTree DEF RollbackBackup, Goto, TypeOK, Busy, world
<1>4. CASE RollbackStage
  BY <1>4, NotOursIsTree DEF RollbackStage, Goto, TypeOK, Busy, world
<1>5. CASE RollbackClose
  BY <1>5, IdleOK, NotOursIsTree, PhaseIsJournal DEF RollbackClose, Close, TypeOK, ControlOK, world
<1>6. QED
  BY <1>1, <1>2, <1>3, <1>4, <1>5 DEF Rollback

LEMMA TypeActivate == TypeOK /\ Activate => TypeOK'
<1> SUFFICES ASSUME TypeOK, Activate PROVE TypeOK'
  OBVIOUS
<1>1. CASE PlanFails \/ PlanUnchanged \/ StageFails \/ SwapFails
  BY <1>1, RaiseOK DEF PlanFails, PlanUnchanged, StageFails, SwapFails
<1>2. CASE PlanMoveAside
  BY <1>2, NotOursIsTree DEF PlanMoveAside, TypeOK, Busy, world
<1>3. CASE PlanReplace
  BY <1>3 DEF PlanReplace, TypeOK, Busy, Tree, disk, world
<1>4. CASE StageOverlay
  <2>1. stage' \in Tree
    BY <1>4 DEF StageOverlay, TypeOK, Tree, Want
  <2>2. QED
    BY <1>4, <2>1 DEF StageOverlay, Goto, TypeOK, Busy, world
<1>5. CASE WriteJournal
  <2>1. journal' \in Journal
    BY <1>5 DEF WriteJournal, TypeOK, Journal, Want
  <2>2. QED
    BY <1>5, <2>1 DEF WriteJournal, Goto, TypeOK, Busy, trees, world
<1>6. CASE SwapOut
  BY <1>6, NotOursIsTree DEF SwapOut, Goto, TypeOK, Busy, world
<1>7. CASE MarkMoved \/ MarkActive
  BY <1>7, PhaseIsJournal DEF MarkMoved, MarkActive, Goto, TypeOK, Busy, trees, world
<1>8. CASE SwapIn
  BY <1>8, NotOursIsTree DEF SwapIn, Goto, TypeOK, Busy, world
<1>9. CASE Confirm
  BY <1>9, IdleOK, NotOursIsTree, PhaseIsJournal DEF Confirm, Close, TypeOK, ControlOK, world
<1>10. QED
  BY <1>1, <1>2, <1>3, <1>4, <1>5, <1>6, <1>7, <1>8, <1>9 DEF Activate

LEMMA TypeDeactivateRestore == TypeOK /\ (Deactivate \/ Restore) => TypeOK'
<1> SUFFICES ASSUME TypeOK, Deactivate \/ Restore PROVE TypeOK'
  OBVIOUS
<1>1. CASE NothingToDisable \/ DisableFails \/ NothingToRestore
  BY <1>1, RaiseOK DEF NothingToDisable, DisableFails, NothingToRestore
<1>2. CASE PrepareDeactivation
  <2>1. journal' \in Journal
    BY <1>2 DEF PrepareDeactivation, TypeOK, Journal, Tree
  <2>2. QED
    BY <1>2, <2>1 DEF PrepareDeactivation, Goto, TypeOK, Busy, trees, world
<1>3. CASE Disable
  BY <1>3, NotOursIsTree DEF Disable, Goto, TypeOK, Busy, world
<1>4. CASE DisableClose
  BY <1>4, IdleOK, NotOursIsTree, PhaseIsJournal DEF DisableClose, Close, TypeOK, ControlOK, world
<1>5. CASE RestorePrevious
  <2>1. want' \in Want
    BY <1>5 DEF RestorePrevious, TypeOK, Tree, Want
  <2>2. QED
    BY <1>5, <2>1 DEF RestorePrevious, TypeOK, Busy, Op, disk, world
<1>6. QED
  BY <1>1, <1>2, <1>3, <1>4, <1>5 DEF Deactivate, Restore

LEMMA TypeCrash == TypeOK /\ Crash => TypeOK'
<1> SUFFICES ASSUME TypeOK, Crash PROVE TypeOK'
  OBVIOUS
<1>1. deaths' \in 0..MaxDeaths
  BY DeathsAreCounted DEF Crash, TypeOK
<1>2. stage' \in Tree
  BY NotOursIsTree DEF Crash, TypeOK
<1>3. QED
  BY <1>1, <1>2, IdleOK DEF Crash, TypeOK, ControlOK

LEMMA TypeOutside == TypeOK /\ Outside => TypeOK'
<1> SUFFICES ASSUME TypeOK, Outside PROVE TypeOK'
  OBVIOUS
<1>1. CASE EditFiles
  <2>1. mods' \in Tree /\ promise' \in Tree
    BY <1>1, NotOursIsTree, DamageIsTree
    DEF EditFiles, EditMods, RemoveMods, PlaceMods, EditSibling, Touch, TypeOK
  <2>2. stage' \in Tree /\ backup' \in Tree /\ disabled' \in Tree
    BY <1>1, NotOursIsTree, DamageIsTree
    DEF EditFiles, EditMods, RemoveMods, PlaceMods, EditSibling, TypeOK
  <2>3. QED
    BY <1>1, <2>1, <2>2 DEF EditFiles, TypeOK, world, locals
<1>2. CASE GameStarts \/ GameStops \/ CacheChanges
  BY <1>2 DEF GameStarts, GameStops, CacheChanges, TypeOK, disk, locals
<1>3. QED
  BY <1>1, <1>2 DEF Outside

LEMMA TypeNext == TypeOK /\ [Next]_vars => TypeOK'
<1>1. TypeOK /\ UNCHANGED vars => TypeOK'
  BY DEF vars, TypeOK
<1>2. QED
  BY <1>1, TypeCall, TypeRecover, TypeRollback, TypeActivate,
     TypeDeactivateRestore, TypeCrash, TypeOutside
  DEF Next, Launcher

(* Whatever the launcher, the player and the game do, every variable keeps  *)
(* to the values the code gives it: the journal never holds a phase that    *)
(* recover_activation does not know.                                        *)
THEOREM TypeCorrect == Spec => []TypeOK
BY TypeInit, TypeNext, PTL DEF Spec

-----------------------------------------------------------------------------
PlayerWaits == PlayerAt \subseteq {"idle"}

LEMMA NotOursOwner ==
  /\ Absent.owner # "ap" /\ Folder.owner # "ap" /\ Link.owner # "ap" /\ Void.owner # "ap"
  /\ Absent # Void
BY DEF Absent, Folder, Link, Void, NotOurs

LEMMA OkMeans ==
  ASSUME NEW t, NEW k, LoadOwner(t, k) = "ok"
  PROVE  t.owner = "ap" /\ LoadOwner(t, NoKey) = "ok" /\ (k = NoKey \/ t.key = k)
BY DEF LoadOwner

LEMMA OkFor ==
  ASSUME NEW t, NEW k, LoadOwner(t, NoKey) = "ok", k = NoKey \/ t.key = k
  PROVE  LoadOwner(t, k) = "ok"
BY DEF LoadOwner

(* A call that ends, however it ends, and leaves the disk as it is. *)
LEMMA ControlIdle ==
  ASSUME ControlInv, Idle, UNCHANGED <<mods, backup, disabled, journal>>,
         stage' \in {stage, Absent}
  PROVE  ControlInv'
<1>1. OpenInv' /\ CallInv'
  BY DEF OpenInv, CallInv, Idle, Installing, Finishing
<1>2. ModsInv'
  BY DEF ModsInv, Idle
<1>3. NamesInv'
  BY NotOursOwner DEF ControlInv, NamesInv, Open
<1>4. QED
  BY <1>1, <1>2, <1>3 DEF ControlInv

LEMMA ControlRaise ==
  ASSUME ControlInv, NEW from, Raise(from)
  PROVE  ControlInv'
BY ControlIdle DEF Raise, disk

LEMMA ControlInit == Init => ControlInv
BY NotOursOwner DEF Init, NoJournal, ControlInv, OpenInv, CallInv, ModsInv, NamesInv,
   Open, Installing, Finishing

LEMMA ControlCall == TypeOK /\ ControlInv /\ Call => ControlInv'
<1> SUFFICES ASSUME TypeOK, ControlInv, Call PROVE ControlInv'
  OBVIOUS
<1>1. PICK o, k, e, adopt : Begin(o, k, e, adopt)
  BY DEF Call
<1>2. OpenInv' /\ CallInv'
  BY <1>1 DEF Begin, disk, world, ControlInv, OpenInv, CallInv, Open, Installing, Finishing
<1>3. ModsInv' /\ NamesInv'
  BY <1>1 DEF Begin, disk, world, ControlInv, ModsInv, NamesInv, Open
<1>4. QED
  BY <1>2, <1>3 DEF ControlInv

(* Closing a transaction returns to the call that asked for recovery.       *)
LEMMA ControlReturn ==
  ASSUME TypeOK, ControlInv, Return, pc # "idle", ~Open', ~running,
         pc \notin {"stage", "journal"} \cup Installing,
         UNCHANGED <<mods, running>>,
         \/ UNCHANGED <<stage, backup, disabled>>
         \/ stage' = Absent /\ backup' = Absent /\ disabled' = Absent,
         Open => backup' = Absent /\ disabled' = Absent
  PROVE  ControlInv'
<1>1. pc' \in {"idle", "plan", "prepare", "choose"} /\ previous' = NoKey /\ ~running'
      /\ (pc' = "plan" => op' = "activate")
  <2>1. CASE op = "recover"
    BY <2>1 DEF Return, Idle
  <2>2. CASE op # "recover"
    BY <2>2 DEF Return, Resume, locals, ControlInv, CallInv
  <2>3. QED
    BY <2>1, <2>2
<1>2. OpenInv' /\ CallInv'
  BY <1>1 DEF OpenInv, CallInv, Installing, Finishing
<1>3. ModsInv'
  BY <1>1 DEF ModsInv
<1>4. NamesInv'
  BY NotOursOwner DEF ControlInv, NamesInv
<1>5. QED
  BY <1>2, <1>3, <1>4 DEF ControlInv

LEMMA ControlClose ==
  ASSUME NEW phase \in {"completed", "rolled_back"}, Close(phase)
  PROVE  /\ ~Open'
         /\ stage' = Absent /\ backup' = Absent /\ disabled' = Absent
BY DEF Close, SetPhase, Open

(* A call that closes a transaction and ends there. *)
LEMMA ControlEnd ==
  ASSUME ControlInv, Idle, NEW phase \in {"completed", "rolled_back"}, Close(phase),
         UNCHANGED mods
  PROVE  ControlInv'
<1>1. OpenInv' /\ CallInv'
  BY DEF OpenInv, CallInv, Idle, Installing, Finishing
<1>2. ModsInv'
  BY DEF ModsInv, Idle
<1>3. NamesInv'
  BY ControlClose, NotOursOwner DEF ControlInv, NamesInv
<1>4. QED
  BY <1>1, <1>2, <1>3 DEF ControlInv

LEMMA ControlRecover == TypeOK /\ ControlInv /\ Recover => ControlInv'
<1> SUFFICES ASSUME TypeOK, ControlInv, Recover PROVE ControlInv'
  OBVIOUS
<1> USE DEF ControlInv
<1>1. CASE RecoverNothing
  <2>1. CASE journal.phase # "none" /\ running
    BY <1>1, <2>1, ControlIdle DEF RecoverNothing, disk
  <2>2. CASE ~(journal.phase # "none" /\ running)
    <3>1. CASE running
      BY <1>1, <2>2, <3>1, ControlIdle
      DEF RecoverNothing, disk, Return, CallInv
    <3>2. CASE ~running
      BY <1>1, <2>2, <3>2, ControlReturn
      DEF RecoverNothing, disk, world, Open, Installing, CallInv
    <3>3. QED
      BY <3>1, <3>2
  <2>3. QED
    BY <2>1, <2>2
<1>2. CASE RecoverOpen
  <2>1. CASE running
    BY <1>2, <2>1, ControlIdle DEF RecoverOpen, disk
  <2>2. CASE ~running
    <3>1. OpenInv' /\ CallInv'
      BY <1>2, <2>2
      DEF RecoverOpen, disk, world, locals, OpenInv, CallInv, NamesInv, Open, Installing, Finishing
    <3>2. ModsInv' /\ NamesInv'
      BY <1>2, <2>2 DEF RecoverOpen, disk, ModsInv, NamesInv, Open
    <3>3. QED
      BY <3>1, <3>2
  <2>3. QED
    BY <2>1, <2>2
<1>3. CASE RedoMove
  <2>1. OpenInv' /\ CallInv'
    BY <1>3 DEF RedoMove, world, locals, OpenInv, CallInv, Open, Installing, Finishing
  <2>2. ModsInv' /\ NamesInv'
    BY <1>3, NotOursOwner DEF RedoMove, ModsInv, NamesInv, Open, OpenInv
  <2>3. QED
    BY <2>1, <2>2
<1>4. CASE RedoClose
  BY <1>4, ControlReturn, ControlClose
  DEF RedoClose, Installing, world, CallInv
<1>5. CASE RedoFails
  BY <1>5, ControlRaise DEF RedoFails
<1>6. CASE FinishStaged
  <2>1. OpenInv' /\ CallInv'
    BY <1>6 DEF FinishStaged, world, OpenInv, CallInv, Open, Installing, Finishing
  <2>2. ModsInv' /\ NamesInv'
    BY <1>6, NotOursOwner DEF FinishStaged, ModsInv, NamesInv, Open, OpenInv, Finishing
  <2>3. QED
    BY <2>1, <2>2
<1>7. CASE FinishMarkMoved \/ FinishMarkActive
  <2>1. OpenInv' /\ CallInv'
    BY <1>7 DEF FinishMarkMoved, FinishMarkActive, Goto, SetPhase, TypeOK, Journal,
                trees, world, OpenInv, CallInv, Open, Installing, Finishing
  <2>2. ModsInv' /\ NamesInv'
    BY <1>7 DEF FinishMarkMoved, FinishMarkActive, Goto, SetPhase, TypeOK, Journal,
                trees, ModsInv, NamesInv, Open, OpenInv, Finishing
  <2>3. QED
    BY <2>1, <2>2
<1>8. CASE FinishInstall
  <2>1. OpenInv' /\ CallInv'
    BY <1>8 DEF FinishInstall, Goto, world, OpenInv, CallInv, Open, Installing, Finishing
  <2>2. ModsInv' /\ NamesInv'
    BY <1>8, NotOursOwner DEF FinishInstall, StageVerifies, Goto, ModsInv, NamesInv, Open, OpenInv, Finishing
  <2>3. QED
    BY <2>1, <2>2
<1>9. CASE FinishClose
  BY <1>9, ControlReturn, ControlClose
  DEF FinishClose, Installing, world, CallInv
<1>10. CASE FinishFails
  <2>1. OpenInv' /\ CallInv'
    BY <1>10 DEF FinishFails, Goto, disk, world, OpenInv, CallInv, Open, Installing, Finishing
  <2>2. ModsInv' /\ NamesInv'
    BY <1>10 DEF FinishFails, Goto, disk, ModsInv, NamesInv, Open
  <2>3. QED
    BY <2>1, <2>2
<1>11. QED
  BY <1>1, <1>2, <1>3, <1>4, <1>5, <1>6, <1>7, <1>8, <1>9, <1>10 DEF Recover

LEMMA ControlRollback == TypeOK /\ ControlInv /\ Rollback => ControlInv'
<1> SUFFICES ASSUME TypeOK, ControlInv, Rollback PROVE ControlInv'
  OBVIOUS
<1> USE DEF ControlInv
<1>1. CASE RollbackMods
  <2>1. OpenInv' /\ CallInv'
    BY <1>1 DEF RollbackMods, Goto, world, OpenInv, CallInv, Open, Installing, Finishing
  <2>2. NamesInv'
    BY <1>1, NotOursOwner DEF RollbackMods, Goto, NamesInv, Open
  <2>3. ModsInv'
    BY <1>1 DEF RollbackMods, Goto, StillOurs, LoadOwner, ModsInv
  <2>4. QED
    BY <2>1, <2>2, <2>3
<1>2. CASE RollbackModsFails \/ RollbackBackupFails
  BY <1>2, ControlRaise DEF RollbackModsFails, RollbackBackupFails
<1>3. CASE RollbackBackup
  <2>1. OpenInv' /\ CallInv'
    BY <1>3 DEF RollbackBackup, Goto, world, OpenInv, CallInv, Open, Installing, Finishing
  <2>2. ModsInv' /\ NamesInv'
    BY <1>3, NotOursOwner DEF RollbackBackup, Goto, ModsInv, NamesInv, Open, OpenInv, Finishing
  <2>3. QED
    BY <2>1, <2>2
<1>4. CASE RollbackStage
  <2>1. OpenInv' /\ CallInv'
    BY <1>4 DEF RollbackStage, Goto, world, OpenInv, CallInv, Open, Installing, Finishing
  <2>2. ModsInv' /\ NamesInv'
    BY <1>4, NotOursOwner DEF RollbackStage, Goto, ModsInv, NamesInv, Open
  <2>3. QED
    BY <2>1, <2>2
<1>5. CASE RollbackClose
  BY <1>5, ControlEnd DEF RollbackClose
<1>6. QED
  BY <1>1, <1>2, <1>3, <1>4, <1>5 DEF Rollback

LEMMA ControlActivate == TypeOK /\ ControlInv /\ Activate => ControlInv'
<1> SUFFICES ASSUME TypeOK, ControlInv, Activate PROVE ControlInv'
  OBVIOUS
<1> USE DEF ControlInv
<1>1. CASE PlanFails \/ PlanUnchanged \/ StageFails \/ SwapFails
  BY <1>1, ControlRaise DEF PlanFails, PlanUnchanged, StageFails, SwapFails
<1>2. CASE PlanMoveAside
  <2>1. OpenInv' /\ CallInv'
    BY <1>2 DEF PlanMoveAside, TypeOK, world, OpenInv, CallInv, Open, Installing, Finishing
  <2>2. ModsInv' /\ NamesInv'
    BY <1>2, NotOursOwner DEF PlanMoveAside, CallInv, ModsInv, NamesInv, Open, OpenInv, Installing
  <2>3. QED
    BY <2>1, <2>2
<1>3. CASE PlanReplace
  <2>1. OpenInv' /\ CallInv'
    BY <1>3 DEF PlanReplace, TypeOK, disk, world, OpenInv, CallInv, Open, Installing, Finishing
  <2>2. NamesInv'
    BY <1>3 DEF PlanReplace, disk, NamesInv, Open
  <2>3. ModsInv'
    BY <1>3, NamesAreDistinct, OkMeans, OkFor
    DEF PlanReplace, disk, CallInv, ModsInv, NamesInv, Open, OpenInv, Installing
  <2>4. QED
    BY <2>1, <2>2, <2>3
<1>4. CASE StageOverlay
  <2>1. OpenInv' /\ CallInv'
    BY <1>4 DEF StageOverlay, Goto, world, OpenInv, CallInv, Open, Installing, Finishing
  <2>2. NamesInv'
    BY <1>4, NotOursOwner DEF StageOverlay, Goto, CallInv, NamesInv, Open, OpenInv
  <2>3. ModsInv'
    BY <1>4 DEF StageOverlay, Goto, ModsInv, LoadOwner
  <2>4. QED
    BY <2>1, <2>2, <2>3
<1>5. CASE WriteJournal
  <2>1. OpenInv' /\ CallInv'
    BY <1>5 DEF WriteJournal, Goto, world, trees, OpenInv, CallInv, Open, Installing, Finishing
  <2>2. ModsInv' /\ NamesInv'
    BY <1>5 DEF WriteJournal, Goto, trees, CallInv, ModsInv, NamesInv, Open, OpenInv
  <2>3. QED
    BY <2>1, <2>2
<1>6. CASE SwapOut
  <2>1. OpenInv' /\ CallInv'
    BY <1>6 DEF SwapOut, Goto, world, OpenInv, CallInv, Open, Installing, Finishing
  <2>2. ModsInv' /\ NamesInv'
    BY <1>6, NotOursOwner DEF SwapOut, Goto, ModsInv, NamesInv, Open, OpenInv, Installing
  <2>3. QED
    BY <2>1, <2>2
<1>7. CASE MarkMoved \/ MarkActive
  <2>1. OpenInv' /\ CallInv'
    BY <1>7 DEF MarkMoved, MarkActive, Goto, SetPhase, TypeOK, Journal, trees, world,
                OpenInv, CallInv, Open, Installing, Finishing
  <2>2. ModsInv' /\ NamesInv'
    BY <1>7 DEF MarkMoved, MarkActive, Goto, SetPhase, TypeOK, Journal, trees,
                ModsInv, NamesInv, Open, OpenInv, Installing
  <2>3. QED
    BY <2>1, <2>2
<1>8. CASE SwapIn
  <2>1. OpenInv' /\ CallInv'
    BY <1>8 DEF SwapIn, Goto, world, OpenInv, CallInv, Open, Installing, Finishing
  <2>2. ModsInv' /\ NamesInv'
    BY <1>8, NotOursOwner DEF SwapIn, Goto, CallInv, ModsInv, NamesInv, Open, OpenInv, Installing
  <2>3. QED
    BY <2>1, <2>2
<1>9. CASE Confirm
  BY <1>9, ControlEnd DEF Confirm
<1>10. QED
  BY <1>1, <1>2, <1>3, <1>4, <1>5, <1>6, <1>7, <1>8, <1>9 DEF Activate

LEMMA ControlDeactivateRestore ==
  TypeOK /\ ControlInv /\ (Deactivate \/ Restore) => ControlInv'
<1> SUFFICES ASSUME TypeOK, ControlInv, Deactivate \/ Restore PROVE ControlInv'
  OBVIOUS
<1> USE DEF ControlInv
<1>1. CASE NothingToDisable \/ DisableFails \/ NothingToRestore
  BY <1>1, ControlRaise DEF NothingToDisable, DisableFails, NothingToRestore
<1>2. CASE PrepareDeactivation
  <2>1. OpenInv' /\ CallInv'
    BY <1>2 DEF PrepareDeactivation, Goto, trees, world, OpenInv, CallInv, Open, Installing, Finishing
  <2>2. ModsInv' /\ NamesInv'
    BY <1>2, OkMeans, OkFor DEF PrepareDeactivation, Goto, trees, ModsInv, NamesInv, Open, OpenInv
  <2>3. QED
    BY <2>1, <2>2
<1>3. CASE Disable
  <2>1. OpenInv' /\ CallInv'
    BY <1>3 DEF Disable, Goto, world, OpenInv, CallInv, Open, Installing, Finishing
  <2>2. ModsInv' /\ NamesInv'
    BY <1>3, NotOursOwner DEF Disable, Goto, ModsInv, NamesInv, Open, OpenInv
  <2>3. QED
    BY <2>1, <2>2
<1>4. CASE DisableClose
  BY <1>4, ControlEnd DEF DisableClose
<1>5. CASE RestorePrevious
  <2>1. OpenInv' /\ CallInv'
    BY <1>5 DEF RestorePrevious, disk, world, OpenInv, CallInv, Open, Installing, Finishing
  <2>2. ModsInv' /\ NamesInv'
    BY <1>5 DEF RestorePrevious, disk, ModsInv, NamesInv, Open
  <2>3. QED
    BY <2>1, <2>2
<1>6. QED
  BY <1>1, <1>2, <1>3, <1>4, <1>5 DEF Deactivate, Restore

LEMMA ControlCrash == ControlInv /\ Crash => ControlInv'
BY ControlIdle DEF Crash

LEMMA DamageKeepsName ==
  ASSUME NEW t \in Tree, NEW u \in Damaged(t)
  PROVE  u.owner = t.owner /\ u.key = t.key /\ LoadOwner(u, NoKey) # "ok"
BY DEF Damaged, Tree, LoadOwner

(* The player, acting between calls, cannot disturb a call's own state.     *)
LEMMA ControlOutside == PlayerWaits /\ TypeOK /\ ControlInv /\ Outside => ControlInv'
<1> SUFFICES ASSUME PlayerWaits, TypeOK, ControlInv, Outside PROVE ControlInv'
  OBVIOUS
<1> USE DEF ControlInv
<1>1. pc = "idle" /\ pc' = "idle"
  BY DEF PlayerWaits, Outside, EditFiles, GameStarts, GameStops, CacheChanges
<1>2. UNCHANGED <<journal, op, want, previous>>
  BY DEF Outside, EditFiles, GameStarts, GameStops, CacheChanges, disk, locals
<1>3. OpenInv' /\ CallInv' /\ ModsInv'
  BY <1>1, <1>2 DEF OpenInv, CallInv, ModsInv, Installing, Finishing
<1>4. NamesInv'
  <2>1. CASE EditFiles
    <3>1. ~Open => backup' = Absent /\ disabled' = Absent
      BY <2>1, NotOursOwner
      DEF EditFiles, EditMods, RemoveMods, PlaceMods, EditSibling, NamesInv
    <3>2. mods'.owner = "ap" => mods'.key \in Key
      BY <2>1, NotOursOwner, DamageKeepsName
      DEF EditFiles, EditMods, RemoveMods, PlaceMods, EditSibling, NamesInv, TypeOK
    <3>3. \A t \in {stage', backup', disabled'} : t.owner = "ap" => t.key \in Key
      BY <2>1, DamageKeepsName
      DEF EditFiles, EditMods, RemoveMods, PlaceMods, EditSibling, NamesInv, TypeOK
    <3>4. QED
      BY <3>1, <3>2, <3>3, <1>2 DEF NamesInv, Open
  <2>2. CASE ~EditFiles
    BY <2>2, <1>2 DEF Outside, GameStarts, GameStops, CacheChanges, disk, NamesInv, Open
  <2>3. QED
    BY <2>1, <2>2
<1>5. QED
  BY <1>3, <1>4

LEMMA ControlNext == PlayerWaits /\ TypeOK /\ ControlInv /\ [Next]_vars => ControlInv'
<1>1. ControlInv /\ UNCHANGED vars => ControlInv'
  BY DEF vars, ControlInv, OpenInv, CallInv, ModsInv, NamesInv, Open
<1>2. QED
  BY <1>1, ControlCall, ControlRecover, ControlRollback, ControlActivate,
     ControlDeactivateRestore, ControlCrash, ControlOutside
  DEF Next, Launcher

(* At every control point the launcher has what its next step relies on.    *)
THEOREM ControlCorrect == ASSUME PlayerWaits PROVE Spec => []ControlInv
BY TypeCorrect, ControlInit, ControlNext, PTL DEF Spec

(* The launcher takes a folder that is not its own away only in an          *)
(* activation whose caller consented, and a link never, however often and   *)
(* wherever it died before.                                                 *)
ForeignStep ==
  mods.owner \in {"player", "link"} /\ mods' # mods =>
    EditFiles \/ (mods.owner = "player" /\ op = "activate" /\ want.adopt)

LEMMA ForeignNext == ControlInv /\ [Next]_vars => ForeignStep
<1> SUFFICES ASSUME ControlInv, Next, mods.owner \in {"player", "link"}, mods' # mods,
                    ~EditFiles
             PROVE  mods.owner = "player" /\ op = "activate" /\ want.adopt
  BY DEF ForeignStep, vars
<1>1. mods # Absent /\ \A k : LoadOwner(mods, k) = "conflict"
  BY DEF LoadOwner, Absent, NotOurs
<1>2. ModsInv /\ CallInv
  BY DEF ControlInv
<1>3. ~Recover
  BY <1>1 DEF Recover, RecoverNothing, RecoverOpen, RedoMove, RedoClose, RedoFails, Raise,
     FinishStaged, FinishMarkMoved, FinishInstall, FinishMarkActive, FinishClose,
     FinishFails, StillOurs, disk, trees
<1>4. ~Rollback
  BY <1>1 DEF Rollback, RollbackMods, RollbackModsFails, RollbackBackup,
     RollbackBackupFails, RollbackStage, RollbackClose, StillOurs, Raise, disk
<1>5. ~Call /\ ~Crash /\ ~Outside /\ ~Deactivate /\ ~Restore
  BY <1>1, <1>2 DEF Call, Begin, Crash, Outside, GameStarts, GameStops, CacheChanges,
     Deactivate, Restore, NothingToDisable, PrepareDeactivation, Disable, DisableClose,
     DisableFails, RestorePrevious, NothingToRestore, Raise, Goto, disk, trees, ModsInv
<1>6. Activate
  BY <1>3, <1>4, <1>5 DEF Next, Launcher
<1>7. PlanMoveAside
  BY <1>1, <1>2, <1>6 DEF Activate, PlanFails, PlanUnchanged, PlanReplace, StageOverlay,
     StageFails, WriteJournal, SwapOut, MarkMoved, SwapIn, MarkActive, Confirm, SwapFails,
     Raise, Goto, disk, trees, ModsInv
<1>8. QED
  BY <1>1, <1>2, <1>7 DEF PlanMoveAside, CallInv

THEOREM ForeignSafe == ASSUME PlayerWaits PROVE Spec => ForeignIsLeftAlone
<1>1. ControlInv /\ [Next]_vars =>
        [mods.owner \in {"player", "link"} /\ mods' # mods =>
           pc = "idle" \/ (mods.owner = "player" /\ op = "activate" /\ want.adopt)]_vars
  BY ForeignNext DEF ForeignStep, EditFiles, PlayerWaits
<1>2. QED
  BY <1>1, ControlCorrect, PTL DEF Spec, ForeignIsLeftAlone

(* Every tree the launcher puts at mods passed its ownership check.         *)
VerifiedStep ==
  mods' \notin {mods, Absent} => EditFiles \/ LoadOwner(mods', NoKey) = "ok"

LEMMA VerifiedNext == ControlInv /\ [Next]_vars => VerifiedStep
<1> SUFFICES ASSUME ControlInv, Next, mods' \notin {mods, Absent}, ~EditFiles
             PROVE  LoadOwner(mods', NoKey) = "ok"
  BY DEF VerifiedStep, vars
<1>1. ModsInv
  BY DEF ControlInv
<1>2. CASE Recover
  BY <1>2, OkMeans DEF Recover, RecoverNothing, RecoverOpen, RedoMove, RedoClose, RedoFails,
     Raise, FinishStaged, FinishMarkMoved, FinishInstall, FinishMarkActive, FinishClose,
     FinishFails, StageVerifies, Goto, disk, trees
<1>3. CASE Rollback
  BY <1>3, OkMeans DEF Rollback, RollbackMods, RollbackModsFails, RollbackBackup,
     RollbackBackupFails, RollbackStage, RollbackClose, Raise, Goto, disk
<1>4. CASE Activate
  BY <1>1, <1>4, OkMeans DEF Activate, PlanFails, PlanUnchanged, PlanMoveAside, PlanReplace,
     StageOverlay, StageFails, WriteJournal, SwapOut, MarkMoved, SwapIn, MarkActive,
     Confirm, SwapFails, Raise, Goto, disk, trees, ModsInv
<1>5. CASE Call \/ Crash \/ Outside \/ Deactivate \/ Restore
  BY <1>5 DEF Call, Begin, Crash, Outside, GameStarts, GameStops, CacheChanges,
     Deactivate, Restore, NothingToDisable, PrepareDeactivation, Disable, DisableClose,
     DisableFails, RestorePrevious, NothingToRestore, Raise, Goto, disk, trees
<1>6. QED
  BY <1>2, <1>3, <1>4, <1>5 DEF Next, Launcher

THEOREM VerifiedSafe == ASSUME PlayerWaits PROVE Spec => OnlyVerifiedInstalled
<1>1. ControlInv /\ [Next]_vars =>
        [mods' \notin {mods, Absent} => pc = "idle" \/ LoadOwner(mods', NoKey) = "ok"]_vars
  BY VerifiedNext DEF VerifiedStep, EditFiles, PlayerWaits
<1>2. QED
  BY <1>1, ControlCorrect, PTL DEF Spec, OnlyVerifiedInstalled

-----------------------------------------------------------------------------
(***************************************************************************)
(* What must be given back is never lost, provided the launcher does not   *)
(* die in the last two steps of a rollback (the one gap: a transaction     *)
(* there looks to the next recovery like an interrupted installation).     *)
(***************************************************************************)
DeathSparesRollback == CrashAt \cap LateRollback = {}

LEMMA DiskSame ==
  ASSUME DiskInv, UNCHANGED <<mods, backup, journal, promise>>,
         pc \notin LateRollback, pc' \notin LateRollback
  PROVE  DiskInv'
BY DEF DiskInv, Open

LEMMA DiskClosed == ~Open' => DiskInv'
BY DEF DiskInv

LEMMA DiskRaise ==
  ASSUME DiskInv, NEW from, from \notin LateRollback, Raise(from)
  PROVE  DiskInv'
BY DiskSame DEF Raise, Idle, disk, LateRollback

LEMMA DiskCall == DiskInv /\ Call => DiskInv'
<1> SUFFICES ASSUME DiskInv, Call PROVE DiskInv'
  OBVIOUS
<1>1. PICK o, k, e, adopt : Begin(o, k, e, adopt)
  BY DEF Call
<1>2. QED
  BY <1>1, DiskSame DEF Begin, disk, LateRollback

LEMMA PcReturn == Return => pc' \notin LateRollback
BY DEF Return, Idle, Resume, LateRollback

LEMMA DiskRecover == TypeOK /\ ControlInv /\ DiskInv /\ Recover => DiskInv'
<1> SUFFICES ASSUME TypeOK, ControlInv, DiskInv, Recover PROVE DiskInv'
  OBVIOUS
<1> USE DEF ControlInv
<1>1. CASE RecoverNothing
  BY <1>1, DiskSame, PcReturn DEF RecoverNothing, disk, Idle, LateRollback
<1>2. CASE RecoverOpen
  BY <1>2, DiskSame DEF RecoverOpen, disk, Idle, LateRollback
<1>3. CASE RedoMove
  BY <1>3 DEF RedoMove, DiskInv, OpenInv
<1>4. CASE RedoClose
  BY <1>4, ControlClose, DiskClosed DEF RedoClose
<1>5. CASE RedoFails
  BY <1>5, DiskRaise DEF RedoFails, LateRollback
<1>6. CASE FinishStaged
  <2>1. journal.mode = "activate" /\ Open /\ UNCHANGED <<journal, promise>>
        /\ pc' \notin LateRollback /\ pc \notin LateRollback
    BY <1>6 DEF FinishStaged, OpenInv, Finishing, LateRollback
  <2>2. CASE journal.previous = NoKey
    BY <1>6, <2>1, <2>2 DEF FinishStaged, DiskInv, Open
  <2>3. CASE journal.previous # NoKey /\ LoadOwner(mods, journal.previous) = "ok"
    <3>1. backup' = mods /\ mods' = Absent /\ promise = mods
      BY <1>6, <2>1, <2>3, OkMeans DEF FinishStaged, DiskInv
    <3>2. QED
      BY <1>6, <2>1, <2>3, <3>1, OkMeans, NotOursOwner DEF DiskInv, Open
  <2>4. CASE journal.previous # NoKey /\ LoadOwner(mods, journal.previous) = "integrity"
    <3>1. mods.owner = "ap" /\ LoadOwner(mods, journal.previous) # "ok"
      BY <2>4 DEF LoadOwner
    <3>2. mods' = Absent /\ UNCHANGED backup
      BY <1>6, <2>4 DEF FinishStaged
    <3>3. backup = Absent /\ promise \in {Absent, Void}
      BY <1>6, <2>1, <3>1, NotOursOwner DEF FinishStaged, DiskInv, LateRollback
    <3>4. QED
      BY <2>1, <2>4, <3>2, <3>3, NotOursOwner, OkMeans DEF DiskInv, Open
  <2>5. QED
    BY <1>6, <2>2, <2>3, <2>4 DEF FinishStaged
<1>7. CASE FinishMarkMoved \/ FinishMarkActive
  <2>1. UNCHANGED <<mods, backup, promise>> /\ Open /\ Open'
        /\ journal'.phase \in {"previous_moved", "activated"}
        /\ journal'.mode = journal.mode /\ journal'.previous = journal.previous
        /\ pc' \notin LateRollback /\ pc \notin LateRollback
    BY <1>7 DEF FinishMarkMoved, FinishMarkActive, Goto, SetPhase, TypeOK, Journal,
       trees, OpenInv, Finishing, LateRollback, Open
  <2>2. journal.phase = "staged" => mods = Absent
    BY <1>7 DEF FinishMarkMoved, FinishMarkActive, Goto, OpenInv, ModsInv
  <2>3. QED
    BY <2>1, <2>2 DEF DiskInv
<1>8. CASE FinishInstall
  BY <1>8, OkMeans, NotOursOwner
  DEF FinishInstall, StageVerifies, Goto, DiskInv, Open, LateRollback
<1>9. CASE FinishClose
  BY <1>9, ControlClose, DiskClosed DEF FinishClose
<1>10. CASE FinishFails
  BY <1>10, DiskSame DEF FinishFails, Goto, disk, LateRollback
<1>11. QED
  BY <1>1, <1>2, <1>3, <1>4, <1>5, <1>6, <1>7, <1>8, <1>9, <1>10 DEF Recover

LEMMA DiskRollback == TypeOK /\ ControlInv /\ DiskInv /\ Rollback => DiskInv'
<1> SUFFICES ASSUME TypeOK, ControlInv, DiskInv, Rollback PROVE DiskInv'
  OBVIOUS
<1> USE DEF ControlInv
<1>1. CASE RollbackMods
  <2>1. UNCHANGED <<backup, journal, promise>> /\ pc' \notin LateRollback /\ pc \notin LateRollback
    BY <1>1 DEF RollbackMods, Goto, LateRollback
  <2>2. CASE UNCHANGED mods
    BY <2>1, <2>2, DiskSame
  <2>3. CASE journal.phase # "staged" /\ mods' = Absent
    BY <2>1, <2>3 DEF DiskInv, Open
  <2>4. QED
    BY <1>1, <2>2, <2>3 DEF RollbackMods
<1>2. CASE RollbackModsFails \/ RollbackBackupFails
  BY <1>2, DiskRaise DEF RollbackModsFails, RollbackBackupFails, LateRollback
<1>3. CASE RollbackBackup
  <2>1. UNCHANGED <<journal, promise>> /\ pc = "rb_backup"
        /\ pc' = "rb_stage" /\ Open /\ journal.mode = "activate"
    BY <1>3 DEF RollbackBackup, Goto, OpenInv, Finishing
  <2>2. CASE backup = Absent
    <3>1. UNCHANGED <<mods, backup>>
      BY <1>3, <2>2 DEF RollbackBackup
    <3>2. promise \in {mods, Void}
      BY <2>1, <2>2 DEF DiskInv, ModsInv
    <3>3. QED
      BY <2>1, <3>1, <3>2 DEF DiskInv, Open, LateRollback
  <2>3. CASE backup # Absent
    <3>1. LoadOwner(backup, journal.previous) = "ok"
      BY <1>3, <2>3 DEF RollbackBackup
    <3>2. promise = backup /\ mods = Absent
      BY <2>1, <2>3, <3>1, OkMeans DEF DiskInv, ModsInv
    <3>3. mods' = backup /\ backup' = Absent
      BY <1>3, <2>3, <3>2 DEF RollbackBackup
    <3>4. QED
      BY <2>1, <3>1, <3>2, <3>3, OkMeans, NotOursOwner DEF DiskInv, Open, LateRollback
  <2>4. QED
    BY <2>2, <2>3
<1>4. CASE RollbackStage
  BY <1>4 DEF RollbackStage, Goto, DiskInv, Open, LateRollback
<1>5. CASE RollbackClose
  BY <1>5, ControlClose, DiskClosed DEF RollbackClose
<1>6. QED
  BY <1>1, <1>2, <1>3, <1>4, <1>5 DEF Rollback

LEMMA DiskActivate == TypeOK /\ ControlInv /\ DiskInv /\ Activate => DiskInv'
<1> SUFFICES ASSUME TypeOK, ControlInv, DiskInv, Activate PROVE DiskInv'
  OBVIOUS
<1> USE DEF ControlInv
<1>1. CASE PlanFails \/ PlanUnchanged \/ StageFails \/ SwapFails
  BY <1>1, DiskRaise DEF PlanFails, PlanUnchanged, StageFails, SwapFails, LateRollback
<1>2. CASE PlanMoveAside
  BY <1>2, DiskClosed DEF PlanMoveAside, OpenInv, Open
<1>3. CASE PlanReplace
  BY <1>3, DiskSame DEF PlanReplace, disk, LateRollback
<1>4. CASE StageOverlay
  BY <1>4, DiskSame DEF StageOverlay, Goto, LateRollback
<1>5. CASE WriteJournal
  <2>1. UNCHANGED <<mods, backup>> /\ promise' = mods /\ journal'.previous = previous
        /\ journal'.phase = "staged" /\ pc' \notin LateRollback
    BY <1>5 DEF WriteJournal, Goto, trees, LateRollback
  <2>2. backup = Absent
    BY <1>5 DEF WriteJournal, Goto, OpenInv, NamesInv
  <2>3. IF previous = NoKey THEN mods = Absent ELSE LoadOwner(mods, previous) = "ok"
    BY <1>5 DEF WriteJournal, Goto, ModsInv
  <2>4. QED
    BY <2>1, <2>2, <2>3, OkMeans, NotOursOwner DEF DiskInv
<1>6. CASE SwapOut
  <2>1. UNCHANGED <<journal, promise>> /\ pc' \notin LateRollback /\ pc \notin LateRollback
        /\ Open /\ journal.mode = "activate" /\ journal.phase = "staged"
        /\ journal.previous = previous
    BY <1>6 DEF SwapOut, Goto, OpenInv, CallInv, Installing, LateRollback
  <2>2. CASE previous = NoKey
    BY <1>6, <2>1, <2>2, DiskSame DEF SwapOut
  <2>3. CASE previous # NoKey
    <3>1. LoadOwner(mods, previous) = "ok" /\ backup' = mods /\ mods' = Absent
      BY <1>6, <2>3 DEF SwapOut, Goto, ModsInv
    <3>2. promise = mods
      BY <2>1, <3>1, OkMeans DEF DiskInv
    <3>3. QED
      BY <2>1, <2>3, <3>1, <3>2, OkMeans, NotOursOwner DEF DiskInv, Open
  <2>4. QED
    BY <2>2, <2>3
<1>7. CASE MarkMoved \/ MarkActive
  <2>1. UNCHANGED <<mods, backup, promise>> /\ Open /\ Open'
        /\ journal'.phase \in {"previous_moved", "activated"}
        /\ journal'.mode = journal.mode /\ journal'.previous = journal.previous
        /\ pc' \notin LateRollback /\ pc \notin LateRollback
    BY <1>7 DEF MarkMoved, MarkActive, Goto, SetPhase, TypeOK, Journal,
       trees, OpenInv, Installing, LateRollback, Open
  <2>2. journal.phase = "staged" => mods = Absent
    BY <1>7 DEF MarkMoved, MarkActive, Goto, OpenInv, ModsInv
  <2>3. QED
    BY <2>1, <2>2 DEF DiskInv
<1>8. CASE SwapIn
  <2>1. journal.phase = "previous_moved"
    BY <1>8 DEF SwapIn, Goto, OpenInv
  <2>2. QED
    BY <1>8, <2>1 DEF SwapIn, Goto, DiskInv, Open, LateRollback
<1>9. CASE Confirm
  BY <1>9, ControlClose, DiskClosed DEF Confirm
<1>10. QED
  BY <1>1, <1>2, <1>3, <1>4, <1>5, <1>6, <1>7, <1>8, <1>9 DEF Activate

LEMMA DiskDeactivateRestore ==
  ControlInv /\ DiskInv /\ (Deactivate \/ Restore) => DiskInv'
<1> SUFFICES ASSUME ControlInv, DiskInv, Deactivate \/ Restore PROVE DiskInv'
  OBVIOUS
<1> USE DEF ControlInv
<1>1. CASE NothingToDisable \/ DisableFails \/ NothingToRestore
  BY <1>1, DiskRaise DEF NothingToDisable, DisableFails, NothingToRestore, LateRollback
<1>2. CASE PrepareDeactivation
  BY <1>2 DEF PrepareDeactivation, DiskInv
<1>3. CASE Disable
  BY <1>3 DEF Disable, Goto, DiskInv, OpenInv
<1>4. CASE DisableClose
  BY <1>4, ControlClose, DiskClosed DEF DisableClose
<1>5. CASE RestorePrevious
  BY <1>5, DiskSame DEF RestorePrevious, disk, LateRollback
<1>6. QED
  BY <1>1, <1>2, <1>3, <1>4, <1>5 DEF Deactivate, Restore

LEMMA DiskCrash == DeathSparesRollback /\ DiskInv /\ Crash => DiskInv'
BY DiskSame DEF DeathSparesRollback, Crash, Idle, LateRollback

LEMMA DiskOutside == PlayerWaits /\ TypeOK /\ DiskInv /\ Outside => DiskInv'
<1> SUFFICES ASSUME PlayerWaits, TypeOK, DiskInv, Outside PROVE DiskInv'
  OBVIOUS
<1>1. pc \notin LateRollback /\ pc' \notin LateRollback /\ UNCHANGED journal
  BY DEF PlayerWaits, LateRollback, Outside, EditFiles, GameStarts, GameStops,
     CacheChanges, disk
<1>2. CASE GameStarts \/ GameStops \/ CacheChanges
  BY <1>1, <1>2, DiskSame DEF GameStarts, GameStops, CacheChanges, disk
<1>3. CASE EditFiles
  <2> SUFFICES ASSUME Open, journal.mode = "activate" PROVE DiskInv'
    BY <1>1 DEF DiskInv, Open
  <2>1. CASE EditMods
    <3>1. UNCHANGED backup /\ mods.owner = "ap" /\ mods'.owner = "ap"
          /\ LoadOwner(mods', NoKey) # "ok"
      BY <1>3, <2>1, DamageKeepsName DEF EditFiles, EditMods, TypeOK
    <3>2. promise' = promise \/ (promise' = Void /\ promise # Absent)
      BY <2>1 DEF EditMods, Touch
    <3>3. promise' = promise => promise \in {Absent, Void, backup}
      BY <1>1, <2>1, <3>1, NotOursOwner DEF EditMods, Touch, Holder, DiskInv
    <3>4. QED
      BY <1>1, <2>1, <3>1, <3>2, <3>3, NotOursOwner, OkMeans
      DEF EditMods, Touch, Holder, DiskInv, Open
  <2>2. CASE RemoveMods
    <3>1. UNCHANGED backup /\ mods' = Absent
      BY <1>3, <2>2 DEF EditFiles, RemoveMods
    <3>2. promise' = promise \/ (promise' = Void /\ promise # Absent)
      BY <2>2 DEF RemoveMods, Touch
    <3>3. promise' = promise => promise \in {Absent, Void, backup}
      BY <1>1, <2>2 DEF RemoveMods, Touch, Holder, DiskInv
    <3>4. QED
      BY <1>1, <2>2, <3>1, <3>2, <3>3, NotOursOwner, OkMeans
      DEF RemoveMods, Touch, Holder, DiskInv, Open
  <2>3. CASE PlaceMods
    <3>1. UNCHANGED <<backup, promise>> /\ mods = Absent /\ mods'.owner # "ap"
      BY <1>3, <2>3, NotOursOwner DEF EditFiles, PlaceMods
    <3>2. promise \in {Absent, Void, backup}
      BY <1>1, <3>1 DEF DiskInv
    <3>3. QED
      BY <1>1, <3>1, <3>2, OkMeans DEF DiskInv, Open
  <2>4. CASE EditSibling
    <3>1. UNCHANGED mods
      BY <2>4 DEF EditSibling
    <3>2. CASE UNCHANGED <<backup, promise>>
      BY <1>1, <3>1, <3>2, DiskSame
    <3>3. CASE backup.owner = "ap" /\ backup' \in Damaged(backup) /\ Touch("backup")
      <4>1. LoadOwner(backup', NoKey) # "ok" /\ backup'.owner = "ap"
        BY <3>3, DamageKeepsName DEF TypeOK
      <4>2. promise' = IF promise # Absent /\ promise = backup THEN Void ELSE promise
        BY <3>3 DEF Touch, Holder
      <4>3. backup # Absent
        BY <3>3, NotOursOwner
      <4>4. QED
        BY <1>1, <3>1, <3>3, <4>1, <4>2, <4>3, NotOursOwner, OkMeans DEF DiskInv, Open
    <3>4. QED
      BY <2>4, <3>2, <3>3 DEF EditSibling
  <2>5. QED
    BY <1>3, <2>1, <2>2, <2>3, <2>4 DEF EditFiles
<1>4. QED
  BY <1>2, <1>3 DEF Outside

LEMMA DiskNext ==
  PlayerWaits /\ DeathSparesRollback /\ TypeOK /\ ControlInv /\ DiskInv /\ [Next]_vars
    => DiskInv'
<1>1. DiskInv /\ UNCHANGED vars => DiskInv'
  BY DEF vars, DiskInv, Open
<1>2. QED
  BY <1>1, DiskCall, DiskRecover, DiskRollback, DiskActivate, DiskDeactivateRestore,
     DiskCrash, DiskOutside
  DEF Next, Launcher

(* The whole inductive invariant: wherever the launcher dies, short of the  *)
(* end of a rollback, the disk still shows what it was doing and what it    *)
(* has to give back.                                                        *)
THEOREM InductiveCorrect ==
  ASSUME PlayerWaits, DeathSparesRollback PROVE Spec => []Inductive
<1>1. Init => DiskInv
  BY DEF Init, NoJournal, DiskInv, Open
<1>2. QED
  BY <1>1, TypeCorrect, ControlCorrect, DiskNext, PTL DEF Spec, Inductive

(* An open activation still has the overlay it may have to give back.       *)
THEOREM PromiseHeldAlways ==
  ASSUME PlayerWaits, DeathSparesRollback PROVE Spec => []PromiseHeld
<1>1. Inductive => PromiseHeld
  BY DEF Inductive, DiskInv, PromiseHeld
<1>2. QED
  BY <1>1, InductiveCorrect, PTL

(* An activation that closes leaves either the verified build it was asked  *)
(* for or the overlay that was there before.                                *)
KeptStep ==
  Open /\ ~Open' /\ journal.mode = "activate" =>
    CASE journal'.phase = "completed" -> LoadOwner(mods', journal.key) = "ok"
      [] journal'.phase = "rolled_back" -> promise \in {mods', Void}

LEMMA PhaseClosed ==
  ASSUME TypeOK, NEW phase \in {"completed", "rolled_back"}, SetPhase(phase)
  PROVE  journal'.phase = phase /\ journal'.mode = journal.mode /\ journal'.key = journal.key
BY DEF SetPhase, TypeOK, Journal

LEMMA KeptNext == TypeOK /\ Inductive /\ [Next]_vars => KeptStep
<1> SUFFICES ASSUME TypeOK, Inductive, Next, Open, ~Open', journal.mode = "activate"
             PROVE  CASE journal'.phase = "completed" -> LoadOwner(mods', journal.key) = "ok"
                      [] journal'.phase = "rolled_back" -> promise \in {mods', Void}
  BY DEF KeptStep, vars, Open
<1> USE DEF Inductive, ControlInv
<1>1. journal' # journal
  BY DEF Open
<1>2. ~Call /\ ~Crash /\ ~Outside /\ ~Restore
  BY <1>1 DEF Call, Begin, Crash, Outside, EditFiles, GameStarts, GameStops, CacheChanges,
     Restore, RestorePrevious, NothingToRestore, Raise, disk
<1>3. CASE Recover
  <2>1. FinishClose
    BY <1>1, <1>3 DEF Recover, RecoverNothing, RecoverOpen, RedoMove, RedoClose, RedoFails,
       Raise, FinishStaged, FinishMarkMoved, FinishInstall, FinishMarkActive, FinishFails,
       SetPhase, TypeOK, Journal, Open, OpenInv, disk
  <2>2. QED
    BY <2>1, PhaseClosed DEF FinishClose, Close
<1>4. CASE Rollback
  <2>1. RollbackClose
    BY <1>1, <1>4 DEF Rollback, RollbackMods, RollbackModsFails, RollbackBackup,
       RollbackBackupFails, RollbackStage, Raise, disk
  <2>2. journal'.phase = "rolled_back" /\ UNCHANGED mods /\ promise \in {mods, Void}
    BY <2>1, PhaseClosed DEF RollbackClose, Close, DiskInv, LateRollback
  <2>3. QED
    BY <2>2
<1>5. CASE Activate
  <2>1. Confirm
    BY <1>1, <1>5 DEF Activate, PlanFails, PlanUnchanged, PlanMoveAside, PlanReplace,
       StageOverlay, StageFails, WriteJournal, SwapOut, MarkMoved, SwapIn, MarkActive,
       SwapFails, Raise, Goto, SetPhase, TypeOK, Journal, Open, disk
  <2>2. QED
    BY <2>1, PhaseClosed DEF Confirm, Close, CallInv, Installing
<1>6. CASE Deactivate
  BY <1>1, <1>6 DEF Deactivate, NothingToDisable, PrepareDeactivation, Disable, DisableClose,
     DisableFails, Raise, Goto, OpenInv, Open, disk
<1>7. QED
  BY <1>2, <1>3, <1>4, <1>5, <1>6 DEF Next, Launcher

THEOREM PromiseKeptAlways ==
  ASSUME PlayerWaits, DeathSparesRollback PROVE Spec => PromiseKept
<1>1. TypeOK /\ Inductive /\ [Next]_vars => [KeptStep]_vars
  BY KeptNext
<1>2. QED
  BY <1>1, TypeCorrect, InductiveCorrect, PTL DEF Spec, PromiseKept, KeptStep

-----------------------------------------------------------------------------
(***************************************************************************)
(* An activation heals what it comes across.  While one is open and not yet *)
(* past its first rename, an overlay of ours at mods is the one it is to    *)
(* take over from, damaged or not, and nothing is at the backup name.       *)
(***************************************************************************)
Activating == Open /\ journal.mode = "activate"

HealInv ==
  /\ pc \in {"prepare", "d_move", "d_close"} => op = "deactivate"
  /\ pc = "choose" => op = "restore"
  /\ Activating =>
       /\ backup # Absent => journal.previous # NoKey
       /\ journal.phase = "staged" /\ mods.owner = "ap" =>
            mods.key = journal.previous /\ journal.previous # NoKey /\ backup = Absent

LEMMA HealSame ==
  ASSUME HealInv, UNCHANGED <<mods, backup, journal>>,
         pc' \notin {"prepare", "d_move", "d_close", "choose"}
  PROVE  HealInv'
BY DEF HealInv, Activating, Open

LEMMA HealIdle ==
  ASSUME HealInv, Idle, UNCHANGED <<mods, backup, journal>>
  PROVE  HealInv'
BY HealSame DEF Idle

LEMMA HealRaise == ASSUME HealInv, NEW from, Raise(from) PROVE HealInv'
BY HealIdle DEF Raise, disk

(* Back in the call that asked for recovery. *)
LEMMA HealReturn ==
  ASSUME TypeOK, Return, ~Open'
  PROVE  HealInv'
<1>1. CASE op = "recover"
  BY <1>1 DEF Return, Idle, HealInv, Activating
<1>2. CASE op # "recover"
  <2>1. pc' = Resume(op) /\ op' = op
    BY <1>2 DEF Return, locals
  <2>2. QED
    BY <2>1 DEF Resume, HealInv, Activating
<1>3. QED
  BY <1>1, <1>2

LEMMA HealClose == ASSUME Idle, ~Open' PROVE HealInv'
BY DEF Idle, HealInv, Activating

LEMMA HealRecover == TypeOK /\ ControlInv /\ HealInv /\ Recover => HealInv'
<1> SUFFICES ASSUME TypeOK, ControlInv, HealInv, Recover PROVE HealInv'
  OBVIOUS
<1> USE DEF ControlInv
<1>1. CASE RecoverNothing
  BY <1>1, HealReturn, HealIdle DEF RecoverNothing, disk, Open
<1>2. CASE RecoverOpen
  BY <1>2, HealSame, HealIdle DEF RecoverOpen, disk
<1>3. CASE RedoMove
  BY <1>3 DEF RedoMove, OpenInv, HealInv, Activating, Open
<1>4. CASE RedoClose
  BY <1>4, ControlClose, HealReturn DEF RedoClose
<1>5. CASE RedoFails
  BY <1>5, HealRaise DEF RedoFails
<1>6. CASE FinishStaged
  <2>1. journal.previous = NoKey => UNCHANGED <<mods, backup>>
    BY <1>6 DEF FinishStaged
  <2>2. journal.previous # NoKey => mods' = Absent
    BY <1>6 DEF FinishStaged
  <2>3. UNCHANGED journal /\ pc' = "finish_moved"
    BY <1>6 DEF FinishStaged
  <2>4. QED
    BY <2>1, <2>2, <2>3, NotOursOwner DEF HealInv, Activating, Open
<1>7. CASE FinishMarkMoved \/ FinishMarkActive
  <2>1. Activating /\ journal'.phase # "staged" /\ journal'.previous = journal.previous
        /\ UNCHANGED <<mods, backup>>
        /\ pc' \notin {"prepare", "d_move", "d_close", "choose"}
    BY <1>7 DEF FinishMarkMoved, FinishMarkActive, Goto, SetPhase, trees, TypeOK, Journal, OpenInv,
       Finishing, Activating
  <2>2. QED
    BY <2>1 DEF HealInv
<1>8. CASE FinishInstall
  BY <1>8 DEF FinishInstall, Goto, HealInv, Activating, Open
<1>9. CASE FinishClose
  BY <1>9, ControlClose, HealReturn DEF FinishClose
<1>10. CASE FinishFails
  BY <1>10, HealSame DEF FinishFails, Goto, disk
<1>11. QED
  BY <1>1, <1>2, <1>3, <1>4, <1>5, <1>6, <1>7, <1>8, <1>9, <1>10 DEF Recover

LEMMA HealRollback == TypeOK /\ ControlInv /\ HealInv /\ Rollback => HealInv'
<1> SUFFICES ASSUME TypeOK, ControlInv, HealInv, Rollback PROVE HealInv'
  OBVIOUS
<1> USE DEF ControlInv
<1>1. CASE RollbackMods
  BY <1>1, NotOursOwner DEF RollbackMods, Goto, HealInv, Activating, Open
<1>2. CASE RollbackModsFails \/ RollbackBackupFails
  BY <1>2, HealRaise DEF RollbackModsFails, RollbackBackupFails
<1>3. CASE RollbackBackup
  <2>1. pc' = "rb_stage" /\ UNCHANGED journal /\ Activating
    BY <1>3 DEF RollbackBackup, Goto, OpenInv, Finishing, Activating
  <2>2. CASE UNCHANGED <<mods, backup>>
    BY <2>1, <2>2, HealSame
  <2>3. CASE backup # Absent /\ mods' = backup /\ backup' = Absent
    BY <1>3, <2>1, <2>3, OkMeans DEF RollbackBackup, HealInv, Activating
  <2>4. QED
    BY <1>3, <2>2, <2>3 DEF RollbackBackup
<1>4. CASE RollbackStage
  BY <1>4, HealSame DEF RollbackStage, Goto
<1>5. CASE RollbackClose
  BY <1>5, ControlClose, HealClose DEF RollbackClose
<1>6. QED
  BY <1>1, <1>2, <1>3, <1>4, <1>5 DEF Rollback

LEMMA HealActivate == TypeOK /\ ControlInv /\ HealInv /\ Activate => HealInv'
<1> SUFFICES ASSUME TypeOK, ControlInv, HealInv, Activate PROVE HealInv'
  OBVIOUS
<1> USE DEF ControlInv
<1>1. CASE PlanFails \/ PlanUnchanged \/ StageFails \/ SwapFails
  BY <1>1, HealRaise DEF PlanFails, PlanUnchanged, StageFails, SwapFails
<1>2. CASE PlanMoveAside \/ PlanReplace \/ StageOverlay
  <2>1. ~Open' /\ pc' \in {"stage", "journal"}
    BY <1>2 DEF PlanMoveAside, PlanReplace, StageOverlay, Goto, disk, OpenInv, Open
  <2>2. QED
    BY <2>1 DEF HealInv, Activating
<1>3. CASE WriteJournal
  <2>1. UNCHANGED <<mods, backup>> /\ journal'.previous = previous /\ pc' = "swap_out"
    BY <1>3 DEF WriteJournal, Goto, trees
  <2>2. backup = Absent
    BY <1>3 DEF WriteJournal, Goto, OpenInv, NamesInv
  <2>3. IF previous = NoKey THEN mods = Absent ELSE LoadOwner(mods, previous) = "ok"
    BY <1>3 DEF WriteJournal, Goto, ModsInv
  <2>4. QED
    BY <2>1, <2>2, <2>3, OkMeans, NotOursOwner DEF HealInv
<1>4. CASE SwapOut
  <2>1. UNCHANGED journal /\ pc' = "mark_moved" /\ journal.previous = previous
    BY <1>4 DEF SwapOut, Goto, CallInv, Installing
  <2>2. (previous = NoKey => UNCHANGED <<mods, backup>>)
        /\ (previous # NoKey => mods' = Absent)
    BY <1>4 DEF SwapOut
  <2>3. QED
    BY <2>1, <2>2, NotOursOwner DEF HealInv, Activating, Open
<1>5. CASE MarkMoved \/ MarkActive
  <2>1. Activating /\ journal'.phase # "staged" /\ journal'.previous = journal.previous
        /\ UNCHANGED <<mods, backup>>
        /\ pc' \notin {"prepare", "d_move", "d_close", "choose"}
    BY <1>5 DEF MarkMoved, MarkActive, Goto, SetPhase, trees, TypeOK, Journal, OpenInv,
       Installing, Activating
  <2>2. QED
    BY <2>1 DEF HealInv
<1>6. CASE SwapIn
  BY <1>6 DEF SwapIn, Goto, OpenInv, HealInv, Activating, Open
<1>7. CASE Confirm
  BY <1>7, ControlClose, HealClose DEF Confirm
<1>8. QED
  BY <1>1, <1>2, <1>3, <1>4, <1>5, <1>6, <1>7 DEF Activate

LEMMA HealDeactivateRestore ==
  ControlInv /\ HealInv /\ (Deactivate \/ Restore) => HealInv'
<1> SUFFICES ASSUME ControlInv, HealInv, Deactivate \/ Restore PROVE HealInv'
  OBVIOUS
<1> USE DEF ControlInv
<1>1. CASE NothingToDisable \/ DisableFails \/ NothingToRestore
  BY <1>1, HealRaise DEF NothingToDisable, DisableFails, NothingToRestore
<1>2. CASE PrepareDeactivation
  BY <1>2 DEF PrepareDeactivation, Goto, HealInv, Activating
<1>3. CASE Disable
  BY <1>3 DEF Disable, Goto, OpenInv, HealInv, Activating
<1>4. CASE DisableClose
  BY <1>4, ControlClose, HealClose DEF DisableClose
<1>5. CASE RestorePrevious
  BY <1>5, HealSame DEF RestorePrevious, disk
<1>6. QED
  BY <1>1, <1>2, <1>3, <1>4, <1>5 DEF Deactivate, Restore

LEMMA HealOutside == PlayerWaits /\ TypeOK /\ HealInv /\ Outside => HealInv'
<1> SUFFICES ASSUME PlayerWaits, TypeOK, HealInv, Outside PROVE HealInv'
  OBVIOUS
<1>1. pc' = "idle" /\ UNCHANGED journal
  BY DEF PlayerWaits, Outside, EditFiles, GameStarts, GameStops, CacheChanges, disk
<1>2. CASE GameStarts \/ GameStops \/ CacheChanges
  BY <1>1, <1>2, HealSame DEF GameStarts, GameStops, CacheChanges, disk
<1>3. CASE EditFiles
  <2>1. \/ UNCHANGED mods
        \/ mods'.owner # "ap"
        \/ mods'.owner = mods.owner /\ mods'.key = mods.key
    BY <1>3, DamageKeepsName, NotOursOwner
    DEF EditFiles, EditMods, RemoveMods, PlaceMods, EditSibling, TypeOK
  <2>2. backup' # Absent => backup # Absent
    BY <1>3, NotOursOwner DEF EditFiles, EditMods, RemoveMods, PlaceMods, EditSibling
  <2>3. QED
    BY <1>1, <2>1, <2>2 DEF HealInv, Activating, Open
<1>4. QED
  BY <1>2, <1>3 DEF Outside

LEMMA HealNext ==
  PlayerWaits /\ TypeOK /\ ControlInv /\ HealInv /\ [Next]_vars => HealInv'
<1> SUFFICES ASSUME PlayerWaits, TypeOK, ControlInv, HealInv, [Next]_vars PROVE HealInv'
  OBVIOUS
<1>1. CASE UNCHANGED vars
  BY <1>1 DEF vars, HealInv, Activating, Open
<1>2. CASE Call
  BY <1>2, HealSame DEF Call, Begin, disk
<1>3. CASE Crash
  BY <1>3, HealIdle DEF Crash
<1>4. QED
  BY <1>1, <1>2, <1>3, HealRecover, HealRollback, HealActivate, HealDeactivateRestore,
     HealOutside
  DEF Next, Launcher

LEMMA HealAlways == ASSUME PlayerWaits PROVE Spec => []HealInv
<1>1. Init => HealInv
  BY DEF Init, NoJournal, HealInv, Activating, Open
<1>2. QED
  BY <1>1, TypeCorrect, ControlCorrect, HealNext, PTL DEF Spec

(* How a call of activate_build for a good build comes to an end. *)
HealStep ==
  op = "activate" /\ want.key \in cached /\ pc # "idle" /\ pc' = "idle"
    /\ LoadOwner(mods', NoKey) = "integrity"
    => \/ running \/ deaths' # deaths
       \/ journal'.phase = "rolled_back"
       \/ Open' /\ journal'.mode = "deactivate"

LEMMA ReturnResumes == Return /\ op = "activate" => pc' = "plan"
BY DEF Return, Resume

LEMMA HealStepNext ==
  TypeOK /\ ControlInv /\ HealInv /\ Next => HealStep
<1> SUFFICES ASSUME TypeOK, ControlInv, HealInv, Next, op = "activate", want.key \in cached,
                    pc # "idle", pc' = "idle", LoadOwner(mods', NoKey) = "integrity",
                    ~running, deaths' = deaths
             PROVE  journal'.phase = "rolled_back" \/ (Open' /\ journal'.mode = "deactivate")
  BY DEF HealStep
<1> USE DEF ControlInv
<1>1. mods'.owner = "ap" /\ mods' # Absent /\ LoadOwner(mods', NoKey) # "ok"
  BY NotOursOwner DEF LoadOwner
<1>2. StillOurs(mods', NoKey)
      /\ (mods'.key = journal.previous => StillOurs(mods', journal.previous))
  BY DEF StillOurs, LoadOwner
<1>3. ~Call /\ ~Crash /\ ~Outside /\ ~Deactivate /\ ~Restore
  <2>1. ~Call /\ ~Outside
    BY DEF Call, Begin, Outside, EditFiles, GameStarts, GameStops, CacheChanges
  <2>2. deaths \in Nat
    BY DeathsAreCounted DEF TypeOK
  <2>3. ~Crash
    BY <2>2 DEF Crash
  <2>4. ~Deactivate /\ ~Restore
    BY DEF HealInv, Deactivate, NothingToDisable, PrepareDeactivation, Disable,
       DisableClose, DisableFails, Restore, RestorePrevious, NothingToRestore, Raise, Goto
  <2>5. QED
    BY <2>1, <2>3, <2>4
<1>4. CASE Recover
  <2>1. RedoFails
    BY <1>4, ReturnResumes DEF Recover, RecoverNothing, RecoverOpen, RedoMove, RedoClose,
       FinishStaged, FinishMarkMoved, FinishInstall, FinishMarkActive, FinishClose,
       FinishFails, Goto
  <2>2. UNCHANGED journal /\ pc \in {"redo", "redo_close"}
    BY <2>1 DEF RedoFails, Raise, disk
  <2>3. QED
    BY <2>2 DEF OpenInv, Open
<1>5. CASE Rollback
  <2>1. CASE RollbackModsFails
    <3>1. UNCHANGED <<mods, journal>> /\ pc = "rollback"
      BY <2>1 DEF RollbackModsFails, Raise, disk
    <3>2. Activating
      BY <3>1 DEF OpenInv, Finishing, Activating
    <3>3. journal.phase = "staged" =>
            journal.previous # NoKey /\ StillOurs(mods, journal.previous)
      BY <1>1, <1>2, <3>1, <3>2 DEF HealInv
    <3>4. QED
      BY <1>2, <2>1, <3>1, <3>3 DEF RollbackModsFails
  <2>2. CASE RollbackBackupFails
    <3>1. UNCHANGED <<mods, journal>> /\ pc = "rb_backup" /\ backup # Absent
      BY <2>2 DEF RollbackBackupFails, Raise, disk
    <3>2. Activating /\ journal.phase = "staged" /\ mods.owner = "ap"
      BY <1>1, <3>1 DEF OpenInv, ModsInv, Finishing, Activating
    <3>3. QED
      BY <3>1, <3>2 DEF HealInv
  <2>3. CASE RollbackClose
    BY <2>3, PhaseClosed DEF RollbackClose, Close
  <2>4. QED
    BY <1>5, <2>1, <2>2, <2>3 DEF Rollback, RollbackMods, RollbackBackup, RollbackStage, Goto
<1>6. CASE Activate
  <2>1. CASE PlanFails \/ PlanUnchanged
    <3>1. UNCHANGED mods
      BY <2>1 DEF PlanFails, PlanUnchanged, Raise, disk
    <3>2. LoadOwner(mods, NoKey) \in {"validation", "conflict", "ok"}
      BY <1>1, <2>1, <3>1 DEF PlanFails, PlanUnchanged
    <3>3. QED
      BY <3>1, <3>2
  <2>2. CASE StageFails \/ SwapFails
    <3>1. UNCHANGED mods /\ pc \in {"stage", "swap_out", "swap_in", "confirm"}
      BY <2>2 DEF StageFails, SwapFails, Raise, disk
    <3>2. CASE pc = "stage"
      BY <1>1, <3>1, <3>2, OkMeans DEF ModsInv
    <3>3. CASE pc = "swap_out"
      BY <1>1, <2>2, <3>1, <3>3 DEF StageFails, SwapFails, Raise
    <3>4. CASE pc = "swap_in"
      BY <1>1, <3>1, <3>4 DEF ModsInv
    <3>5. CASE pc = "confirm"
      BY <1>1, <3>1, <3>5, OkMeans DEF ModsInv
    <3>6. QED
      BY <3>1, <3>2, <3>3, <3>4, <3>5
  <2>3. CASE Confirm
    BY <1>1, <2>3, OkMeans DEF Confirm
  <2>4. QED
    BY <1>6, <2>1, <2>2, <2>3 DEF Activate, PlanMoveAside, PlanReplace, StageOverlay,
       WriteJournal, SwapOut, MarkMoved, SwapIn, MarkActive, Goto
<1>7. QED
  BY <1>3, <1>4, <1>5, <1>6 DEF Next, Launcher

(* An activation of a good build that ends leaves no damaged overlay        *)
(* behind, wherever earlier calls died, unless it rolled one back, was      *)
(* refused for the running game or met an open deactivation.                *)
THEOREM Heals == ASSUME PlayerWaits PROVE Spec => HealsUnlessDeactivating
<1>1. TypeOK /\ ControlInv /\ HealInv /\ [Next]_vars => [HealStep]_vars
  BY HealStepNext
<1>2. QED
  BY <1>1, TypeCorrect, ControlCorrect, HealAlways, PTL
     DEF Spec, HealsUnlessDeactivating, HealStep

-----------------------------------------------------------------------------
(***************************************************************************)
(* The manifest that will be at mods when an open activation completes     *)
(* names the overlay it has to give back if it does not.                   *)
(***************************************************************************)
Installed == pc \in {"mark_active", "finish_installed"}
             \/ (journal.phase = "activated" /\ pc \notin LateRollback)

TruthInv ==
  /\ pc = "journal" => stage.previous = previous
  /\ Activating =>
       /\ promise # Void => promise.key = journal.previous
       /\ stage.owner = "ap" => stage.previous = journal.previous
       /\ mods.owner = "ap" /\ Installed => mods.previous = journal.previous

LEMMA TruthSame ==
  ASSUME TruthInv, UNCHANGED <<mods, journal, promise>>, stage' \in {stage, Absent},
         pc \notin LateRollback, pc' \notin {"journal", "mark_active", "finish_installed"}
  PROVE  TruthInv'
BY NotOursOwner DEF TruthInv, Activating, Open, Installed

LEMMA TruthIdle ==
  ASSUME TruthInv, Idle, UNCHANGED <<mods, journal, promise>>, stage' \in {stage, Absent},
         pc \notin LateRollback
  PROVE  TruthInv'
BY TruthSame DEF Idle

LEMMA TruthRaise ==
  ASSUME TruthInv, NEW from, from \notin LateRollback, Raise(from)
  PROVE  TruthInv'
BY TruthIdle DEF Raise, disk

LEMMA TruthClose == ASSUME ~Open', pc' # "journal" PROVE TruthInv'
BY DEF TruthInv, Activating

LEMMA ReturnsTo == TypeOK /\ Return => pc' \in {"idle", "plan", "prepare", "choose"}
BY DEF Return, Idle, Resume

LEMMA TruthRecover == TypeOK /\ ControlInv /\ TruthInv /\ Recover => TruthInv'
<1> SUFFICES ASSUME TypeOK, ControlInv, TruthInv, Recover PROVE TruthInv'
  OBVIOUS
<1> USE DEF ControlInv
<1>1. CASE RecoverNothing
  BY <1>1, ReturnsTo, TruthSame DEF RecoverNothing, Idle, disk, LateRollback
<1>2. CASE RecoverOpen
  BY <1>2, TruthSame DEF RecoverOpen, Idle, disk, LateRollback
<1>3. CASE RedoMove
  BY <1>3 DEF RedoMove, OpenInv, TruthInv, Activating, Open
<1>4. CASE RedoClose
  BY <1>4, ControlClose, ReturnsTo, TruthClose DEF RedoClose
<1>5. CASE RedoFails
  BY <1>5, TruthRaise DEF RedoFails, LateRollback
<1>6. CASE FinishStaged
  <2>1. UNCHANGED <<stage, journal, promise>> /\ pc' = "finish_moved"
        /\ journal.phase = "staged"
    BY <1>6 DEF FinishStaged
  <2>2. QED
    BY <2>1 DEF TruthInv, Activating, Open, Installed
<1>7. CASE FinishMarkMoved \/ FinishMarkActive
  <2>1. Activating /\ journal'.previous = journal.previous
        /\ UNCHANGED <<mods, stage, promise>> /\ pc' = "finish"
        /\ (journal'.phase = "activated" => pc = "finish_installed")
    BY <1>7 DEF FinishMarkMoved, FinishMarkActive, Goto, SetPhase, trees, TypeOK, Journal,
       OpenInv, Finishing, Activating
  <2>2. QED
    BY <2>1 DEF TruthInv, Installed
<1>8. CASE FinishInstall
  <2>1. /\ mods' = stage /\ stage' = Absent /\ UNCHANGED <<journal, promise>>
        /\ pc' = "finish_installed"
    BY <1>8 DEF FinishInstall, Goto
  <2>2. QED
    BY <2>1, NotOursOwner DEF TruthInv, Activating, Open
<1>9. CASE FinishClose
  BY <1>9, ControlClose, ReturnsTo, TruthClose DEF FinishClose
<1>10. CASE FinishFails
  BY <1>10, TruthSame DEF FinishFails, Goto, disk, LateRollback
<1>11. QED
  BY <1>1, <1>2, <1>3, <1>4, <1>5, <1>6, <1>7, <1>8, <1>9, <1>10 DEF Recover

LEMMA TruthRollback == TypeOK /\ ControlInv /\ TruthInv /\ Rollback => TruthInv'
<1> SUFFICES ASSUME TypeOK, ControlInv, TruthInv, Rollback PROVE TruthInv'
  OBVIOUS
<1> USE DEF ControlInv
<1>1. CASE RollbackMods
  <2>1. mods' \in {mods, Absent} /\ UNCHANGED <<stage, journal, promise>>
        /\ pc = "rollback" /\ pc' = "rb_backup"
    BY <1>1 DEF RollbackMods, Goto
  <2>2. QED
    BY <2>1, NotOursOwner DEF TruthInv, Activating, Open, Installed, LateRollback
<1>2. CASE RollbackModsFails \/ RollbackBackupFails
  BY <1>2, TruthRaise DEF RollbackModsFails, RollbackBackupFails, LateRollback
<1>3. CASE RollbackBackup
  BY <1>3 DEF RollbackBackup, Goto, TruthInv, Activating, Open, Installed, LateRollback
<1>4. CASE RollbackStage
  BY <1>4, NotOursOwner
  DEF RollbackStage, Goto, TruthInv, Activating, Open, Installed, LateRollback
<1>5. CASE RollbackClose
  BY <1>5, ControlClose, TruthClose DEF RollbackClose, Idle
<1>6. QED
  BY <1>1, <1>2, <1>3, <1>4, <1>5 DEF Rollback

LEMMA TruthActivate == TypeOK /\ ControlInv /\ TruthInv /\ Activate => TruthInv'
<1> SUFFICES ASSUME TypeOK, ControlInv, TruthInv, Activate PROVE TruthInv'
  OBVIOUS
<1> USE DEF ControlInv
<1>1. CASE PlanFails \/ PlanUnchanged \/ StageFails \/ SwapFails
  BY <1>1, TruthRaise DEF PlanFails, PlanUnchanged, StageFails, SwapFails, LateRollback
<1>2. CASE PlanMoveAside \/ PlanReplace
  <2>1. ~Open' /\ pc' = "stage"
    BY <1>2 DEF PlanMoveAside, PlanReplace, disk, OpenInv, Open
  <2>2. QED
    BY <2>1, TruthClose
<1>3. CASE StageOverlay
  <2>1. ~Open' /\ stage'.previous = previous /\ previous' = previous
    BY <1>3 DEF StageOverlay, Goto, OpenInv, Open
  <2>2. QED
    BY <2>1 DEF TruthInv, Activating
<1>4. CASE WriteJournal
  <2>1. UNCHANGED <<stage, mods>> /\ journal'.previous = previous /\ promise' = mods
        /\ journal'.phase = "staged" /\ pc' = "swap_out" /\ stage.previous = previous
    BY <1>4 DEF WriteJournal, Goto, trees, TruthInv
  <2>2. mods.key = previous
    BY <1>4, OkMeans DEF WriteJournal, Goto, ModsInv, Absent, NotOurs
  <2>3. QED
    BY <2>1, <2>2 DEF TruthInv, Installed
<1>5. CASE SwapOut
  <2>1. UNCHANGED <<stage, journal, promise>> /\ pc' = "mark_moved" /\ journal.phase = "staged"
    BY <1>5 DEF SwapOut, Goto, OpenInv
  <2>2. QED
    BY <2>1 DEF TruthInv, Activating, Open, Installed
<1>6. CASE MarkMoved \/ MarkActive
  <2>1. Activating /\ journal'.previous = journal.previous
        /\ UNCHANGED <<mods, stage, promise>> /\ pc' \in {"swap_in", "confirm"}
        /\ (journal'.phase = "activated" => pc = "mark_active")
    BY <1>6 DEF MarkMoved, MarkActive, Goto, SetPhase, trees, TypeOK, Journal, OpenInv,
       Installing, Activating
  <2>2. QED
    BY <2>1 DEF TruthInv, Installed
<1>7. CASE SwapIn
  <2>1. /\ mods' = stage /\ stage' = Absent /\ UNCHANGED <<journal, promise>>
        /\ pc' = "mark_active"
    BY <1>7 DEF SwapIn, Goto
  <2>2. QED
    BY <2>1, NotOursOwner DEF TruthInv, Activating, Open
<1>8. CASE Confirm
  BY <1>8, ControlClose, TruthClose DEF Confirm, Idle
<1>9. QED
  BY <1>1, <1>2, <1>3, <1>4, <1>5, <1>6, <1>7, <1>8 DEF Activate

LEMMA TruthDeactivateRestore ==
  ControlInv /\ TruthInv /\ (Deactivate \/ Restore) => TruthInv'
<1> SUFFICES ASSUME ControlInv, TruthInv, Deactivate \/ Restore PROVE TruthInv'
  OBVIOUS
<1> USE DEF ControlInv
<1>1. CASE NothingToDisable \/ DisableFails \/ NothingToRestore
  BY <1>1, TruthRaise DEF NothingToDisable, DisableFails, NothingToRestore, LateRollback
<1>2. CASE PrepareDeactivation
  BY <1>2 DEF PrepareDeactivation, Goto, TruthInv, Activating
<1>3. CASE Disable
  BY <1>3 DEF Disable, Goto, OpenInv, TruthInv, Activating
<1>4. CASE DisableClose
  BY <1>4, ControlClose, TruthClose DEF DisableClose, Idle
<1>5. CASE RestorePrevious
  BY <1>5, TruthSame DEF RestorePrevious, disk, LateRollback
<1>6. QED
  BY <1>1, <1>2, <1>3, <1>4, <1>5 DEF Deactivate, Restore

LEMMA DamageKeepsPrevious ==
  ASSUME NEW t \in Tree, NEW u \in Damaged(t)
  PROVE  u.previous = t.previous /\ u.owner = t.owner
BY DEF Damaged, Tree

LEMMA TruthOutside == PlayerWaits /\ TypeOK /\ TruthInv /\ Outside => TruthInv'
<1> SUFFICES ASSUME PlayerWaits, TypeOK, TruthInv, Outside PROVE TruthInv'
  OBVIOUS
<1>1. pc = "idle" /\ pc' = "idle" /\ UNCHANGED journal
  BY DEF PlayerWaits, Outside, EditFiles, GameStarts, GameStops, CacheChanges, disk
<1>2. CASE GameStarts \/ GameStops \/ CacheChanges
  BY <1>1, <1>2, TruthSame DEF GameStarts, GameStops, CacheChanges, disk, LateRollback
<1>3. CASE EditFiles
  <2>1. \/ UNCHANGED mods
        \/ mods'.owner # "ap"
        \/ mods'.owner = mods.owner /\ mods'.previous = mods.previous
    BY <1>3, DamageKeepsPrevious, NotOursOwner
    DEF EditFiles, EditMods, RemoveMods, PlaceMods, EditSibling, TypeOK
  <2>2. stage'.previous = stage.previous /\ stage'.owner = stage.owner
    BY <1>3, DamageKeepsPrevious
    DEF EditFiles, EditMods, RemoveMods, PlaceMods, EditSibling, TypeOK
  <2>3. promise' \in {promise, Void}
    BY <1>3 DEF EditFiles, EditMods, RemoveMods, PlaceMods, EditSibling, Touch
  <2>4. QED
    BY <1>1, <2>1, <2>2, <2>3 DEF TruthInv, Activating, Open, Installed, LateRollback
<1>4. QED
  BY <1>2, <1>3 DEF Outside

LEMMA TruthNext ==
  PlayerWaits /\ DeathSparesRollback /\ TypeOK /\ ControlInv /\ TruthInv /\ [Next]_vars
    => TruthInv'
<1> SUFFICES ASSUME PlayerWaits, DeathSparesRollback, TypeOK, ControlInv, TruthInv,
                    [Next]_vars
             PROVE  TruthInv'
  OBVIOUS
<1>1. CASE UNCHANGED vars
  BY <1>1 DEF vars, TruthInv, Activating, Open, Installed
<1>2. CASE Call
  BY <1>2, TruthSame DEF Call, Begin, disk, LateRollback
<1>3. CASE Crash
  BY <1>3, TruthIdle DEF Crash, DeathSparesRollback
<1>4. QED
  BY <1>1, <1>2, <1>3, TruthRecover, TruthRollback, TruthActivate, TruthDeactivateRestore,
     TruthOutside
  DEF Next, Launcher

(* An activation that completes leaves a manifest whose previous build is   *)
(* the one that was at mods before it, whoever finished it after a death,   *)
(* unless the player spoilt that one meanwhile.                             *)
THEOREM PreviousTruthful ==
  ASSUME PlayerWaits, DeathSparesRollback PROVE Spec => PreviousIsTruthful
<1>1. Init => TruthInv
  BY DEF Init, NoJournal, TruthInv, Activating, Open
<1>2. TypeOK /\ Inductive /\ TruthInv /\ [Next]_vars =>
        [Open /\ journal'.phase = "completed" /\ journal.mode = "activate" =>
           promise = Void \/ mods'.previous = promise.key]_vars
  <2> SUFFICES ASSUME TypeOK, Inductive, TruthInv, Next, Open,
                      journal'.phase = "completed", journal.mode = "activate"
               PROVE  promise = Void \/ mods'.previous = promise.key
    OBVIOUS
  <2> USE DEF Inductive, ControlInv
  <2>1. FinishClose \/ Confirm
    <3>1. journal' # journal
      BY DEF Open
    <3>2. ~Call /\ ~Crash /\ ~Outside /\ ~Restore
      BY <3>1 DEF Call, Begin, Crash, Outside, EditFiles, GameStarts, GameStops,
         CacheChanges, Restore, RestorePrevious, NothingToRestore, Raise, disk
    <3>3. ~Deactivate
      BY <3>1 DEF Deactivate, NothingToDisable, PrepareDeactivation, Disable, DisableClose,
         DisableFails, Raise, Goto, OpenInv, disk
    <3>4. ~Rollback
      BY <3>1, PhaseClosed DEF Rollback, RollbackMods, RollbackModsFails, RollbackBackup,
         RollbackBackupFails, RollbackStage, RollbackClose, Close, Raise, disk
    <3>5. Recover => FinishClose
      BY <3>1 DEF Recover, RecoverNothing, RecoverOpen, RedoMove, RedoClose, RedoFails,
         Raise, FinishStaged, FinishMarkMoved, FinishInstall, FinishMarkActive,
         FinishFails, SetPhase, TypeOK, Journal, OpenInv, disk
    <3>6. Activate => Confirm
      BY <3>1 DEF Activate, PlanFails, PlanUnchanged, PlanMoveAside, PlanReplace,
         StageOverlay, StageFails, WriteJournal, SwapOut, MarkMoved, SwapIn, MarkActive,
         SwapFails, Raise, Goto, SetPhase, TypeOK, Journal, disk
    <3>7. QED
      BY <3>2, <3>3, <3>4, <3>5, <3>6 DEF Next, Launcher
  <2>2. journal.phase = "activated" /\ pc \notin LateRollback /\ UNCHANGED mods
    BY <2>1 DEF FinishClose, Confirm, OpenInv, LateRollback
  <2>3. mods.owner = "ap"
    BY <2>1, OkMeans DEF FinishClose, Confirm
  <2>4. QED
    BY <2>2, <2>3 DEF TruthInv, Activating, Installed
<1>3. QED
  BY <1>1, <1>2, TypeCorrect, InductiveCorrect, TruthNext, PTL
     DEF Spec, PreviousIsTruthful, Inductive

-----------------------------------------------------------------------------
(***************************************************************************)
(* The overlay transaction implements the abstract switch of SeedSwitch.   *)
(***************************************************************************)
SwitchStep == [Switch!Next]_(Switch!vars)

Shows == <<mods, promise, Pending, running, pc # "idle">>

LEMMA Stutters == UNCHANGED Shows => SwitchStep
BY DEF Shows, SwitchStep, Switch!vars

LEMMA Leaves ==
  ASSUME pc # "idle", pc' = "idle", UNCHANGED <<mods, promise, journal, running>>
  PROVE  SwitchStep
BY DEF SwitchStep, Switch!Next, Switch!Leave, Pending, Open

LEMMA RaiseLeaves == ASSUME NEW from, from # "idle", Raise(from) PROVE SwitchStep
BY Leaves DEF Raise, Idle, disk, world

LEMMA Works ==
  ASSUME pc # "idle", ~running, UNCHANGED running,
         \/ \E t \in Target : Switch!Begin(t)
         \/ Switch!Show \/ Switch!Commit \/ Switch!Abandon \/ Switch!MoveAside
  PROVE  SwitchStep
BY DEF SwitchStep, Switch!Next, Switch!Work

(* An open transaction is a pending switch, and a closed one none. *)
LEMMA PendingTarget ==
  /\ ControlInv /\ Open => /\ Pending = [mode |-> journal.mode, key |-> journal.key]
                           /\ Pending \in Target /\ Pending # NoTarget
  /\ ~Open => Pending = NoTarget
BY DEF Pending, ControlInv, NamesInv, Target, NoTarget

LEMMA SwitchCall == ControlInv /\ Call => SwitchStep
<1> SUFFICES ASSUME ControlInv, Call PROVE SwitchStep
  OBVIOUS
<1>1. PICK o, k, e, adopt : Begin(o, k, e, adopt)
  BY DEF Call
<1>2. QED
  BY <1>1 DEF Begin, disk, world, SwitchStep, Switch!Next, Switch!Call, Pending, Open

(* A step that closes the transaction with the overlay it promised. *)
LEMMA ClosePends ==
  ASSUME ControlInv, Open, NEW phase \in {"completed", "rolled_back"}, Close(phase)
  PROVE  Pending # NoTarget /\ Pending' = NoTarget /\ promise' = Absent
BY ControlClose, PendingTarget DEF Close, Pending

LEMMA SwitchRecover == TypeOK /\ Inductive /\ Recover => SwitchStep
<1> SUFFICES ASSUME TypeOK, Inductive, Recover PROVE SwitchStep
  OBVIOUS
<1> USE DEF Inductive, ControlInv
<1>1. CASE RecoverNothing \/ RecoverOpen
  <2>1. CASE pc' = "idle"
    BY <1>1, <2>1, Leaves DEF RecoverNothing, RecoverOpen, disk, world
  <2>2. CASE pc' # "idle"
    BY <1>1, <2>2, Stutters DEF RecoverNothing, RecoverOpen, disk, world, Shows, Pending, Open
  <2>3. QED
    BY <2>1, <2>2
<1>3. CASE RedoMove
  <2>1. Open /\ Switch!Show
    BY <1>3, PendingTarget DEF RedoMove, OpenInv, Switch!Show, Pending, Open
  <2>2. QED
    BY <1>3, <2>1, Works DEF RedoMove, CallInv, world
<1>4. CASE RedoClose
  <2>1. Open /\ journal.mode = "deactivate" /\ mods = Absent /\ UNCHANGED mods
    BY <1>4 DEF RedoClose, OpenInv, ModsInv
  <2>2. <<mods, Pending>> \in Delivers
    BY <2>1, PendingTarget DEF Delivers, TypeOK
  <2>3. Switch!Commit
    BY <1>4, <2>1, <2>2, ClosePends DEF RedoClose, Switch!Commit
  <2>4. QED
    BY <1>4, <2>3, Works DEF RedoClose, CallInv, world
<1>5. CASE RedoFails
  BY <1>5, RaiseLeaves DEF RedoFails
<1>6. CASE FinishStaged
  <2>1. Open /\ mods' \in {mods, Absent} /\ UNCHANGED <<journal, promise, running>>
        /\ pc # "idle" /\ pc' # "idle" /\ ~running
    BY <1>6 DEF FinishStaged, OpenInv, CallInv, Finishing, world
  <2>2. CASE UNCHANGED mods
    BY <2>1, <2>2, Stutters DEF Shows, Pending, Open
  <2>3. CASE mods' = Absent
    BY <2>1, <2>3, PendingTarget, Works DEF Switch!Show, Pending, Open
  <2>4. QED
    BY <2>1, <2>2, <2>3
<1>7. CASE FinishMarkMoved \/ FinishMarkActive
  <2>1. UNCHANGED <<mods, promise, running>> /\ pc # "idle" /\ pc' # "idle" /\ Open /\ Open'
        /\ journal'.mode = journal.mode /\ journal'.key = journal.key
    BY <1>7 DEF FinishMarkMoved, FinishMarkActive, Goto, SetPhase, TypeOK, Journal,
       trees, world, OpenInv, Finishing, Open
  <2>2. QED
    BY <2>1, Stutters DEF Shows, Pending
<1>8. CASE FinishInstall
  <2>1. Open /\ mods' = stage /\ UNCHANGED <<journal, promise, running>>
        /\ pc # "idle" /\ ~running /\ LoadOwner(stage, journal.key) = "ok"
        /\ journal.mode = "activate"
    BY <1>8 DEF FinishInstall, StageVerifies, Goto, OpenInv, CallInv, Finishing, world
  <2>2. <<mods', Pending'>> \in Delivers
    BY <2>1, PendingTarget DEF Delivers, TypeOK, Pending, Open
  <2>3. Switch!Show
    BY <2>1, <2>2, PendingTarget DEF Switch!Show, Pending, Open
  <2>4. QED
    BY <2>1, <2>3, Works
<1>9. CASE FinishClose
  <2>1. Open /\ journal.mode = "activate" /\ LoadOwner(mods, journal.key) = "ok"
        /\ UNCHANGED <<mods, running>> /\ pc # "idle" /\ ~running
    BY <1>9 DEF FinishClose, OpenInv, Finishing, CallInv, world
  <2>2. <<mods, Pending>> \in Delivers
    BY <2>1, PendingTarget DEF Delivers, TypeOK
  <2>3. Switch!Commit
    BY <1>9, <2>1, <2>2, ClosePends DEF FinishClose, Switch!Commit
  <2>4. QED
    BY <2>1, <2>3, Works
<1>10. CASE FinishFails
  BY <1>10, Stutters DEF FinishFails, Goto, disk, world, Shows, Pending, Open
<1>11. QED
  BY <1>1, <1>3, <1>4, <1>5, <1>6, <1>7, <1>8, <1>9, <1>10 DEF Recover

LEMMA SwitchRollback == TypeOK /\ Inductive /\ Rollback => SwitchStep
<1> SUFFICES ASSUME TypeOK, Inductive, Rollback PROVE SwitchStep
  OBVIOUS
<1> USE DEF Inductive, ControlInv
<1>1. CASE RollbackModsFails \/ RollbackBackupFails
  BY <1>1, RaiseLeaves DEF RollbackModsFails, RollbackBackupFails
<1>2. CASE RollbackMods \/ RollbackBackup
  <2>1. Open /\ journal.mode = "activate" /\ UNCHANGED <<journal, promise, running>>
        /\ pc # "idle" /\ pc' # "idle" /\ ~running
    BY <1>2 DEF RollbackMods, RollbackBackup, Goto, OpenInv, CallInv, Finishing, world
  <2>2. mods' \in {mods, Absent, promise}
    BY <1>2, <2>1, OkMeans DEF RollbackMods, RollbackBackup, DiskInv
  <2>3. CASE UNCHANGED mods
    BY <2>1, <2>3, Stutters DEF Shows, Pending, Open
  <2>4. CASE mods' \in {Absent, promise}
    BY <2>1, <2>4, PendingTarget, Works DEF Switch!Show, Pending, Open
  <2>5. QED
    BY <2>2, <2>3, <2>4
<1>3. CASE RollbackStage
  BY <1>3, Stutters DEF RollbackStage, Goto, world, Shows, Pending, Open
<1>4. CASE RollbackClose
  <2>1. Open /\ journal.mode = "activate" /\ UNCHANGED <<mods, running>>
        /\ pc # "idle" /\ ~running /\ promise \in {mods, Void}
    BY <1>4 DEF RollbackClose, OpenInv, CallInv, Finishing, DiskInv, LateRollback, world
  <2>2. Switch!Abandon
    BY <1>4, <2>1, ClosePends DEF RollbackClose, Switch!Abandon
  <2>3. QED
    BY <2>1, <2>2, Works
<1>5. QED
  BY <1>1, <1>2, <1>3, <1>4 DEF Rollback

LEMMA SwitchActivate == TypeOK /\ Inductive /\ Activate => SwitchStep
<1> SUFFICES ASSUME TypeOK, Inductive, Activate PROVE SwitchStep
  OBVIOUS
<1> USE DEF Inductive, ControlInv
<1>1. CASE PlanFails \/ PlanUnchanged \/ StageFails \/ SwapFails
  BY <1>1, RaiseLeaves DEF PlanFails, PlanUnchanged, StageFails, SwapFails
<1>2. CASE PlanMoveAside
  <2>1. ~Open /\ pc # "idle" /\ ~running /\ mods' = Absent
        /\ UNCHANGED <<journal, promise, running>>
    BY <1>2 DEF PlanMoveAside, OpenInv, CallInv, world
  <2>2. mods \in Removable
    BY <1>2 DEF PlanMoveAside, Removable, TypeOK
  <2>3. Switch!MoveAside
    BY <2>1, <2>2 DEF Switch!MoveAside, Pending, Open
  <2>4. QED
    BY <2>1, <2>3, Works
<1>3. CASE PlanReplace
  BY <1>3, Stutters DEF PlanReplace, disk, world, Shows, Pending, Open
<1>4. CASE StageOverlay
  BY <1>4, Stutters DEF StageOverlay, Goto, world, Shows, Pending, Open
<1>5. CASE WriteJournal
  <2>1. ~Open /\ Open' /\ pc # "idle" /\ ~running /\ UNCHANGED <<mods, running>>
        /\ promise' = mods /\ want.key \in Key
        /\ journal'.mode = "activate" /\ journal'.key = want.key
    BY <1>5 DEF WriteJournal, Goto, OpenInv, CallInv, Open, trees, world
  <2>2. Switch!Begin([mode |-> "activate", key |-> want.key])
    BY <2>1 DEF Switch!Begin, Pending
  <2>3. [mode |-> "activate", key |-> want.key] \in Target
    BY <2>1 DEF Target
  <2>4. QED
    BY <2>1, <2>2, <2>3, Works
<1>6. CASE SwapOut
  <2>1. Open /\ mods' \in {mods, Absent} /\ UNCHANGED <<journal, promise, running>>
        /\ pc # "idle" /\ pc' # "idle" /\ ~running
    BY <1>6 DEF SwapOut, Goto, OpenInv, CallInv, Installing, world
  <2>2. CASE UNCHANGED mods
    BY <2>1, <2>2, Stutters DEF Shows, Pending, Open
  <2>3. CASE mods' = Absent
    BY <2>1, <2>3, PendingTarget, Works DEF Switch!Show, Pending, Open
  <2>4. QED
    BY <2>1, <2>2, <2>3
<1>7. CASE MarkMoved \/ MarkActive
  <2>1. UNCHANGED <<mods, promise, running>> /\ pc # "idle" /\ pc' # "idle" /\ Open /\ Open'
        /\ journal'.mode = journal.mode /\ journal'.key = journal.key
    BY <1>7 DEF MarkMoved, MarkActive, Goto, SetPhase, TypeOK, Journal,
       trees, world, OpenInv, Installing, Open
  <2>2. QED
    BY <2>1, Stutters DEF Shows, Pending
<1>8. CASE SwapIn
  <2>1. Open /\ mods' = stage /\ UNCHANGED <<journal, promise, running>>
        /\ pc # "idle" /\ ~running /\ LoadOwner(stage, journal.key) = "ok"
        /\ journal.mode = "activate"
    BY <1>8 DEF SwapIn, Goto, OpenInv, CallInv, ModsInv, Installing, world
  <2>2. <<mods', Pending'>> \in Delivers
    BY <2>1, PendingTarget DEF Delivers, TypeOK, Pending, Open
  <2>3. Switch!Show
    BY <2>1, <2>2, PendingTarget DEF Switch!Show, Pending, Open
  <2>4. QED
    BY <2>1, <2>3, Works
<1>9. CASE Confirm
  <2>1. Open /\ journal.mode = "activate" /\ LoadOwner(mods, journal.key) = "ok"
        /\ UNCHANGED <<mods, running>> /\ pc # "idle" /\ ~running
    BY <1>9 DEF Confirm, OpenInv, Installing, CallInv, world
  <2>2. <<mods, Pending>> \in Delivers
    BY <2>1, PendingTarget DEF Delivers, TypeOK
  <2>3. Switch!Commit
    BY <1>9, <2>1, <2>2, ClosePends DEF Confirm, Switch!Commit
  <2>4. QED
    BY <2>1, <2>3, Works
<1>10. QED
  BY <1>1, <1>2, <1>3, <1>4, <1>5, <1>6, <1>7, <1>8, <1>9 DEF Activate

LEMMA SwitchDeactivateRestore ==
  TypeOK /\ Inductive /\ (Deactivate \/ Restore) => SwitchStep
<1> SUFFICES ASSUME TypeOK, Inductive, Deactivate \/ Restore PROVE SwitchStep
  OBVIOUS
<1> USE DEF Inductive, ControlInv
<1>1. CASE NothingToDisable \/ DisableFails \/ NothingToRestore
  BY <1>1, RaiseLeaves DEF NothingToDisable, DisableFails, NothingToRestore
<1>2. CASE PrepareDeactivation
  <2>1. ~Open /\ Open' /\ pc # "idle" /\ ~running /\ UNCHANGED <<mods, running>>
        /\ promise' = mods /\ mods.key \in Key
        /\ journal'.mode = "deactivate" /\ journal'.key = mods.key
    BY <1>2, OkMeans
    DEF PrepareDeactivation, Goto, OpenInv, CallInv, NamesInv, Open, trees, world
  <2>2. Switch!Begin([mode |-> "deactivate", key |-> mods.key])
    BY <2>1 DEF Switch!Begin, Pending
  <2>3. [mode |-> "deactivate", key |-> mods.key] \in Target
    BY <2>1 DEF Target
  <2>4. QED
    BY <2>1, <2>2, <2>3, Works
<1>3. CASE Disable
  <2>1. Open /\ mods' = Absent /\ UNCHANGED <<journal, promise, running>>
        /\ pc # "idle" /\ ~running
    BY <1>3 DEF Disable, Goto, OpenInv, CallInv, world
  <2>2. QED
    BY <2>1, PendingTarget, Works DEF Switch!Show, Pending, Open
<1>4. CASE DisableClose
  <2>1. Open /\ journal.mode = "deactivate" /\ mods = Absent /\ UNCHANGED <<mods, running>>
        /\ pc # "idle" /\ ~running
    BY <1>4 DEF DisableClose, OpenInv, ModsInv, CallInv, world
  <2>2. <<mods, Pending>> \in Delivers
    BY <2>1, PendingTarget DEF Delivers, TypeOK
  <2>3. Switch!Commit
    BY <1>4, <2>1, <2>2, ClosePends DEF DisableClose, Switch!Commit
  <2>4. QED
    BY <2>1, <2>3, Works
<1>5. CASE RestorePrevious
  BY <1>5, Stutters DEF RestorePrevious, disk, world, Shows, Pending, Open
<1>6. QED
  BY <1>1, <1>2, <1>3, <1>4, <1>5 DEF Deactivate, Restore

LEMMA SwitchCrash == Crash => SwitchStep
BY Leaves DEF Crash, Idle

LEMMA SwitchOutside ==
  PlayerWaits /\ TypeOK /\ TypeOK' /\ ControlInv /\ Outside => SwitchStep
<1> SUFFICES ASSUME PlayerWaits, TypeOK, TypeOK', ControlInv, Outside PROVE SwitchStep
  OBVIOUS
<1>1. pc = "idle" /\ pc' = "idle"
  BY DEF PlayerWaits, Outside, EditFiles, GameStarts, GameStops, CacheChanges
<1>2. CASE EditFiles
  <2>1. UNCHANGED <<journal, running>>
    BY <1>2 DEF EditFiles, world
  <2>2. promise' \in {promise, Void} /\ (~Open => promise' = promise)
    BY <1>2 DEF EditFiles, EditMods, RemoveMods, PlaceMods, EditSibling, Touch
  <2>3. Switch!Edit
    BY <1>1, <2>1, <2>2, PendingTarget DEF Switch!Edit, Pending, Open, TypeOK
  <2>4. QED
    BY <2>3 DEF SwitchStep, Switch!Next
<1>3. CASE GameStarts \/ GameStops
  <2>1. Switch!Play
    BY <1>1, <1>3 DEF GameStarts, GameStops, TypeOK, disk, Switch!Play, Pending, Open
  <2>2. QED
    BY <2>1 DEF SwitchStep, Switch!Next
<1>4. CASE CacheChanges
  BY <1>4, Stutters DEF CacheChanges, disk, Shows, Pending, Open
<1>5. QED
  BY <1>2, <1>3, <1>4 DEF Outside

LEMMA SwitchNext ==
  PlayerWaits /\ TypeOK /\ TypeOK' /\ Inductive /\ [Next]_vars => SwitchStep
<1>1. UNCHANGED vars => SwitchStep
  BY Stutters DEF vars, Shows, Pending, Open
<1>2. QED
  BY <1>1, SwitchCall, SwitchRecover, SwitchRollback, SwitchActivate,
     SwitchDeactivateRestore, SwitchCrash, SwitchOutside
  DEF Next, Launcher, Inductive

(* What the game is shown only ever changes as SeedSwitch allows: between   *)
(* transactions never, during one to the old overlay, the new one or none,  *)
(* and a transaction ends with the new overlay or the old one in place.     *)
THEOREM Refinement ==
  ASSUME PlayerWaits, DeathSparesRollback PROVE Spec => ImplementsSwitch
<1>1. Init => Switch!Init
  BY DEF Init, NoJournal, Switch!Init, Pending, Open
<1>2. QED
  BY <1>1, TypeCorrect, InductiveCorrect, SwitchNext, PTL
  DEF Spec, ImplementsSwitch, Switch!Spec, SwitchStep
=============================================================================
