# Bloodborne Archipelago: TLA+ models of the parts that are hard to test

This directory holds TLA+ models of this repository's stateful code, the TLC configurations
that check them on small instances, and theorems about them whose proofs TLAPS checks. Paths
below are relative to `src/`; `core.py` is `bb_launcher/core.py`, `client.py` is
`worlds/bloodborne/client.py`, "the table" is
`tables/Bloodborne-native-item-grant-auto-v2.CT`, `delivery.py`, `guest.py`, `payload.py`,
`process.py` and `cli.py` are those of `tools/bb_native_delivery/`.

- [1. The system](#1-the-system)
- [2. Modules](#2-modules)
- [3. Overlay: the overlay transaction](#3-overlay-the-overlay-transaction)
- [4. Migration: leaving the companion launcher](#4-migration-leaving-the-companion-launcher)
- [5. Bridge: the file bridge and the Lua harness](#5-bridge-the-file-bridge-and-the-lua-harness)
- [6. Session: the integrated backend](#6-session-the-integrated-backend)
- [7. Launch, External, LocalHost: the window](#7-launch-external-localhost-the-window)
- [8. NativeGrant: granting without Cheat Engine](#8-nativegrant-granting-without-cheat-engine)
- [9. DetourInstall: hooking a running game](#9-detourinstall-hooking-a-running-game)
- [10. What is proved](#10-what-is-proved)
- [11. Disagreements between code and documentation](#11-disagreements-between-code-and-documentation)
- [12. Not modelled, and the plan](#12-not-modelled-and-the-plan)

## 1. The system

A multiworld (Archipelago) randomizer for Bloodborne, played in the shadPS4 emulator. A
launcher builds a modified copy of some game files (an overlay) for a room and switches the
emulator to it; the items other players find arrive at a client, which has to put them into
the running game.

| Component | State it keeps | Operations | Interacts through |
|---|---|---|---|
| Overlay transaction (`core.py` 1845-2634) | the directory `CUSA03173-mods`, its staging/previous/disabled siblings, ownership manifests, the transaction file | `activate_build`, `deactivate_overlay`, `restore_previous_build`, `recover_activation` | directory renames; the emulator reads `mods`; the player edits it |
| File bridge client (`client.py`) | the delivery cursor, the receipt | `bridge_loop`, `grant_state_outcome` | command, state and receipt files |
| Grant harness (the table) | guest cave and request cell, Lua locals, the state record | attach, bootstrap, poll | the same files; guest memory |
| Native grant command (`tools/bb_native_delivery`) | request cell in the guest, journal of tags | `grant`, `install`, probes | guest memory; the consume cave on the game's thread |
| Integrated backend (`bb_launcher/integrated`) | arm records, `supervisor.json`, client processes | `verify_and_arm`, `connect_and_start_client`, `stop_client`, ... | JSON calls from BBLauncher; emulator and client processes |
| Legacy overlay migration | migration record, install lock | `migrate_legacy_overlay` (`integrated/migration.py`) | the overlay transaction, whose calls and transaction file it uses |
| Launcher window (`workflow.py`, `ui.py`) | the fields and the request file, the address each server was last used for | Randomize, Launch, Rebuild, Connect, Launch Vanilla | all of the below; emulator and client processes |
| Seed preparation and cache (`workflow.py`, `core.py`) | built seeds, by the hash of their request | `prepare_seed`, `SeedCache.build` / `verify` | the enemizer and the C# writers |
| External activation (`external.py`, `external_workflow.py`) | exported packages, their receipts, what was observed of an activation | export, verify before boot, connect | BBLauncher, which activates packages |
| Local session (`local_session.py`, `local_session_ui.py`) | an owned local server process | create, host, stop | the window's fields, remembered addresses |
| Detour install (`threadcontrol.py`, `process.py`) | suspended threads; caves and hooks in the guest | `install --arm` | threads of the running game |
| World | items, locations, logic | `worlds/bloodborne/*.py` | Archipelago's generator |
| Enemizer, writers, exporters, miners | none between runs | offline transformations | files |
| UI, doctor, readiness | none | diagnostics, widgets | all of the above |

What makes it hard:

- *No component can trust another to be alive.* The launcher, the client, Cheat Engine, the
  emulator, the backend and the grant tool are separate processes that are killed at any
  point, and each must repair what the dead one left behind, from files alone.
- *No exactly-once channel.* An item is granted by a write into a running game whose save
  may roll back. That it arrived is inferred from counts that the player changes too.
- *Files are shared without locks.* Two programs poll, overwrite and delete the same files;
  opening a file for writing empties it before the text arrives.
- *Identities are reused*: process numbers, tags such as `received_0`, directory names,
  package bytes.
- *The player owns the disk.* What is in `mods` may be his, and must not be moved without
  consent, in the middle of any repair.

What has to hold, component by component, is what sections 3 to 9 check. `PROJECT.json`
lists every component with its status, every hazard met in the code with its line and the
properties that cover it (or why none does yet), and maps every definition to the lines it
models.

## 2. Modules

| Module | What it is |
|---|---|
| `SeedSwitch` | the abstract promise: one seed is switched for another as a whole |
| `Overlay` | the overlay transaction, one rename or journal write per step; implements `SeedSwitch` |
| `Migration` | the legacy migration, over `Overlay`: its calls are calls of the transaction |
| `MCOverlay`, `MCMigration` | symmetry, places of death and of the player's actions for TLC |
| `OverlayProofs` | the transaction: type correctness, the inductive invariants and what follows, the refinement |
| `MigrationProofs` | the same of transactions and migrations together, and what migrations promise |
| `Bridge`, `MCBridge`, `BridgeProofs` | client, table and game around three files |
| `Session`, `MCSession`, `SessionProofs` | backend, packages, emulators, clients |
| `Launch` | the window's own launches: request, cache, overlay, emulator, client |
| `External`, `ExternalProofs` | export to BBLauncher and attaching to what it booted, over `Launch` |
| `LocalHost` | the owned server of Create & host, beside the launches of the same window |
| `LaunchProofs` | launches, alone and beside an owned server |
| `Fronts`, `MCFronts` | the four ways a play is started: `Session`, `Launch`, `External`, `LocalHost` |
| `FrontsProofs` | what is proved of each of them, of all four together |
| `NativeGrant`, `MCNativeGrant` | runs of the grant tool, request cell, cave, journal |
| `DetourInstall` | installing the hooks while the game's threads run |
| `Delivery`, `MCDelivery` | the tool from end to end: an install, then grants |
| `DeliveryProofs` | grants, the install, and the tool from end to end |

How they compose. `Migration` really interleaves with `Overlay`: it makes its calls and
reads its transaction file. `External` and `LocalHost` extend `Launch` and share its worker,
cache, remembered addresses and processes. `Delivery` is a sequence: grants begin where an
install has ended. `Fronts` is a choice, made once per behaviour: the integration mode
decides who may start a play, and each mode refuses the others' calls. The overlay switch is
one step in `Launch`, which is what `Overlay` is shown to implement. `Bridge` and
`NativeGrant` are independent (both arm a request cell, but each installs its own).

Definitions called "Mutant" or "As if" are variants of the one that follows them. No action
uses them: they are the plausible bugs under which each checked property is known to fail.

Conventions. A call that is refused before it has changed anything is the absence of a step
(or `Raise`/`Refuse` where the refusal returns from the middle of a call). Every bound on an
otherwise unbounded counter is a constant named `Max...`, and appears only in the guard of
the action it bounds.

Locals that the code no longer reads are reset in the models, so that states differ only in
what can matter.

To check a run: `tlc -config overlay_core.cfg MCMigration`; a proof: `tlapm
OverlayProofs.tla`.

## 3. Overlay: the overlay transaction

**Code.** `activate_build` verifies a cached build, stages a copy beside `mods`, writes a
transaction file (the journal: `prepared`, `staged`, `previous_moved`, `activated`,
`completed`, `rolled_back`), renames `mods` to the previous-overlay name and the staging
directory to `mods`, and closes. Every public call begins with `recover_activation`, which
finishes or rolls back what an earlier call left open.

**Model.** A directory is a *tree*: who owns it, which build and edition its manifest names,
and whether its files match that manifest (`match`, `differ`, `malformed`): all that
`_load_owner` tells apart (`LoadOwner`, in the order in which the code raises). `mods`,
`stage`, `backup`, `disabled` are the names a transaction uses; `journal` is the transaction
file, which is replaced atomically; `pc`, `op`, `want`, `previous`, `healed` are the locals
of the one call in progress. Each action is one rename or one journal write with the checks
before it; `...Fails` actions are the paths on which a check raises. `promise` is a history
variable: what must be back at `mods` if the open transaction is given up.

The world acts through `EditFiles` (the player damages, removes or replaces folders),
`GameStarts`, `CacheChanges`, and `Crash` at the control points `CrashAt`. `PlayerAt` says
at which control points the world may act: between calls only, or also right before the
renames and checks of a call.

**Runs.**

| Run | Question | Bounds |
|---|---|---|
| `overlay_core` | Do the abstract switch and the consent, verification and healing rules hold over any sequence of calls and migrations? | with `Migration`: 2 keys, 1 edition, 2 deaths, anywhere but in a late rollback; player between calls and within a migration |
| `overlay_meddled` | What survives a player who acts in the middle of a call? | 2 keys, 2 editions, 3 deaths, player also before renames and checks |
| `overlay_settles` | Is every open transaction closed, every migration finished? | 2 editions, one with player files, 1 death anywhere, files left alone, fairness below |
| `overlay_rollback_crash` | And with deaths in a late rollback? **Violated** | 2 deaths, no player |

Properties: `PromiseHeld` (while an activation is open, the overlay to give back is at
`mods` or at the backup name), `PromiseKept` (a transaction closes on the new overlay,
verified, or on the very one that was there), `ImplementsSwitch` (the transaction refines
`SeedSwitch`), `ForeignIsLeftAlone` (a folder that is not ours is moved only by an
activation whose caller consented, a link never), `OnlyVerifiedInstalled`,
`PreviousIsTruthful` (Restore Previous goes back to the seed that was last at `mods`),
`HealsUnlessDeactivating` (an activation that ends leaves no damaged overlay behind unless
an open deactivation stopped it), `TransactionsClose`.

**Why the bounds suffice.** All properties but `TransactionsClose` are proved for any keys,
editions and number of deaths (section 10). Two keys are the seed before and the seed after;
a transaction looks at no third. Editions matter only for equality. Two deaths allow one in
the transaction and one in its recovery, three also one in the recovery of that. Each close
forgets the transaction's siblings, so longer histories repeat these states.

**Fairness** (`overlay_settles`). A call that is under way takes its next step (it is a
single thread: weak fairness of `Launcher`); the player eventually quits the game and, with
the game closed, comes back and calls recovery. These two are strong, since the game may be
started again and again. Deaths are finitely many (`MaxDeaths`): with infinitely many no
program makes progress. The fairness of the migration's own steps is in section 4.

**Abstractions.** File contents, manifests' other fields, staging's copy errors (one
`StageFails`). Only one launcher works at a time: `core.py` takes no lock and a second
process is outside the model (hazard). A rename within one volume is atomic.

## 4. Migration: leaving the companion launcher

**Code.** Before BBLauncher takes over the mods directory, `migrate_legacy_overlay` records
which overlay it is about to put away (`prepared`), deactivates it through `core.py`, reads
back from the transaction file where it went (`disabled`), and copies the player's own files
that had been merged into it back to `mods` (`completed`). A lock file keeps two migrations
of an install apart. A migration found unfinished is resumed.

**Model.** `Migration` adds to `Overlay` the record, the lock and two trees: the one a
closed deactivation left behind (`left`) and the one the record points at (`original`).
While `mpc` is `disabling` or `recovering` the steps are those of the deactivation or
recovery that was called (`LauncherStep`). The companion launcher is still used meanwhile
(`CompanionCall`), the player edits, the launcher dies anywhere (`Die`) and may leave its
lock file (`BreakLock` is the player deleting it: `sessions.py` never does).

**Properties.** `PlayerFilesReturn`: a migration recorded as completed has put away the very
overlay that was last moved from `mods`, intact, and left exactly its player files there,
wherever it died and was resumed. The difficulty is that `disabled` is learnt from the
transaction file of another component, which another call may have written meanwhile.
`MigrationFinishes`: a migration begun on a settled overlay completes.

**Bounds and fairness.** As in section 3; the player acts at `MigrationAt`, never between
the last look of a migration and the record it then writes (`NotBeforeRecording`; an edit
inside that window is not noticed by the code). For `MigrationFinishes` the migration is
called again after a death or refusal, the player leaves files alone, activates nothing
meanwhile (`CompanionWaits`) and deletes a stale lock. An activation still open when the
record is first written is excluded by the premise: recovery may roll the recorded overlay
away, after which only activating that build again finishes the migration
(`migration.py:150`, a hazard). A transaction file that another call has since emptied of
the disabled name is refused (`migration.py:173`).

## 5. Bridge: the file bridge and the Lua harness

**Code.** For item *i* `bridge_loop` reads the state file; if it does not already speak of
`received_i`, it writes a command file and polls the state file for up to 30 seconds. The
harness, on a timer, reads the command, decides from the player's count and from the record
found at attach whether it was already executed, and writes memory or arms the cave. It
records each step in the state file and deletes the command. Success makes the client unlink
the command, advance the cursor and write the receipt.

**Model.** Variables `cpc`, `seed`, `delivered` are the client; `command`, `state`,
`receipt` the files; `hpc`, `prior`, `mem`, `out`, `boot`, ... the Lua locals; `hooked`,
`cell`, `held`, `saved`, ... the game. A tag `received_<i>` is the number *i*, counted from
one. Opening a file for writing empties it and the text comes with the close: `OpenCommand`
/ `Send`, `Report` / `Flush`, `Count` / `Store`. Every poll writes through `out`: nothing
else of the harness runs until it is flushed (`Turn`). `ever` and `given` are history: which
items have ever been in the game, and how often each is in the current save.

**Runs.**

| Run | Question | Bounds |
|---|---|---|
| `bridge_core` | Whatever dies and whatever file is torn: is an acknowledged item one that was given? in order? no Vial stack created? | a good and a Vial, 2 table executions, 1 client death, 1 count changed, 3 commands, deaths at every step |
| `bridge_once` | Is an item in the game at most once across a restart of everything? | two goods, 2 executions, deaths and gains anywhere but between a guest write and its verification, no torn records |
| `bridge_settles` | Is every item acknowledged or refused out loud? | two goods, fairness below |
| `bridge_restart_regrants` | `GivenOnce` across a second restart. **Violated** | 3 executions |

Properties: `AckedWasGiven` (the cursor and the receipt never pass an item that never
entered the game), `WitnessIsTrue` (records that say "granted" are right), `CellIsFree`,
`GivenInOrder`, `VialsAreNotMade` (no grant, hydration wait or bootstrap makes a Blood Vial
stack), `GivenOnce`, `EveryItemSettles`.

**What `GivenOnce` leaves out.** The duplicate-free property does not hold of the code at
large. The run and the theorem of section 10 say exactly where it does, and every one of
their limits is needed: with any one of them dropped TLC finds an item given twice. They are
(a) the client reads the state, the harness finishes and deletes the command, the client
asks `command.exists()` and publishes again (`PollAt` keeps the harness from running between
the two looks); (b) a death while the receipt is rewritten, after which the cursor is zero
(`KillAt`); (c) with no restart at all, `bootstrap_waiting` (the table, 456) or
`bootstrap_complete` overwrites a `completed` record before the client has read it, while
the save holds no Vial: commands are executed although the bootstrap still waits, the client
times out and sends again (the run holds a Vial); (d) a record torn by Cheat Engine's death
(`TornRecords = FALSE`); (e) between a guest write and its verification, the game dying
(`DieAt`) or the player gaining more of the item (`PlayerAt`); (f) an ambiguous command that
is retained until the player uses one of the item (`Usable` empty); (g) a third execution of
the table (finding 2 in section 11). Within these limits everything else may happen
anywhere: a death in the middle of a poll, also between the record of an answer and the
deletion of its command, an item gained while a retained command waits. The truthfulness
properties are checked by `bridge_core`, with none of these exclusions, and proved for any
bounds.

**Bounds.** One room (`Seeds` of one element): tags do not name a room, and two rooms break
`AckedWasGiven` and `GivenInOrder` at once, with no interleaving (hazard; `WitnessIsTrue`
holds for any number of rooms). The player uses no Vial between the record of a grant and
its write (`bridge_core` lets him use the good): the count written would be the old one plus
one, which makes a stack out of none. Two items are the one being delivered and the one it
could be confused with or overtaken by. `Patience` stands for the three poll budgets,
shortened from forty or so to one (`bridge_core`, `bridge_settles`) or two (`bridge_once`):
the code only compares with them. The shipped pair of builds (client r10, table r7) is
incompatible and delivers nothing; the runs use equal ones.

**Fairness** (`bridge_settles`). The client's loop and the table's timer keep running
(`WF(Client)`, `SF(Flush \/ Poll)`: the harness's turns are interrupted by the client's
places at which it may not run, so weak fairness would assume too little); the player
reopens the game, the client and the table (`WF(Launch)`, `SF(Attach)`: whether the table
can be executed changes with the game) and shows the harness the inventory (`WF(Ready)`);
the game's thread runs the cave (`WF(CaveRuns)`). Nobody is required to die, save or play.
The client re-reading a command file in the instant it is torn, for ever, is excluded
through `PollAt`.

## 6. Session: the integrated backend

**Code.** With the game stopped, `verify_and_arm` hashes the active mod package and writes
an arm record with a fingerprint of file identities. Later `connect_and_start_client`
verifies bytes and fingerprint again, checks the emulator process (the one the fork claims
it started, or the only one alive), reuses a recorded session of that process or starts a
client, and records it in `supervisor.json`. `stop_client` terminates the client, waits and
releases the record.

**Model.** `starts` is the sequence of all emulator processes, with pid and the play loaded
(a process is its index: its creation time), `running` those alive; pids are given out
again. `active` and `generation` are the package and the identity of its files, changed by
every `Switch`. Verification is two steps, bytes then identities, since the code hashes
before it stats. The backend is one process (`pc`, `call`) and may `Die` before any step in
`DieAt`, which loses `handle` but no client.

**Runs.** `session_core` checks this component and those of section 7 in one run, as the
fronts of `Fronts`: a behaviour is one of them. Here: two plays, two pids, three switches,
two emulator starts, two clients, one death anywhere but between spawning and recording.
`session_orphan` is `Session` alone with that death too: `OneClientPerGame` is **violated**.
Two of everything is what a confusion needs; three switches let a package go away and come
back around both calls. Properties: `ClientMatchesGame` (a client connected to a claimed
process speaks for the play that process loaded, although everything is verified on files
and the game loaded earlier), `OneClientPerGame`, `SessionIsTruthful`, `ReleaseOnlyDead`.

**Left out**, each a hazard or a plan item: two backends on one record (then
`claim_client`'s duplicate branch becomes reachable), two emulators at a time (a Play that
alternates between them starts a second client), the game started during the minutes of
hashing after the preflight (`StartsWhileArming`; with TRUE, `ClientMatchesGame` fails),
`prepare_play`, `session_status`, remembered sessions, cancellation.

## 7. Launch, External, LocalHost: the window

**Code.** Without a backend the launcher window starts plays itself, on one worker thread
(`_busy`). *Launch* reads the request, refuses a server last used for another room, finds or
builds the seed under the hash of the request, activates it, writes the suppression manifest
and the client's configuration, starts the emulator, then the client (`workflow.py`,
`core.py`). In *BBLauncher mode* it exports the build as a package with a receipt, verifies
what BBLauncher has activated while no game runs, and later starts a client for the game
booted since (`external.py`, `external_workflow.py`). *Create & host* generates a seed,
starts the Archipelago server for it as a process the window owns, and makes its address
that of the next launch (`local_session.py`, `local_session_ui.py`).

**Model.** `step` and `job` are the worker's place and locals. A room stands for a request
and its cache key; what a directory or a file *was made from* is kept apart from the name it
goes by, because the request is read several times and the player edits it in between.
`cache`, `witness` (the suppression manifest), `config`, `lock` (the remembered address) are
the files, `overlay` what verifies at `mods` and which activation put it there; `boots`/`up`
and `logins`/`open` are emulators and clients with what they loaded. `External` adds `pkg`,
`receipts`, `seen` and BBLauncher's switches; a verification or an attach starts from any
receipt (`PressWith`), which is compared with the request as it is when the worker reads it; `LocalHost` adds the servers, the panel's
handle, and the moment at which a server listens or ends.

**Properties.**

- `SpeaksForItsGame`: when a client is started its emulator is the only one, what that
  loaded was made for the room the client is configured for, and it logs in to that room's
  slot.
- `CacheIsTrue`: a build is reused on the strength of its key; it was made from that
  request.
- `NoSilentRoomChange`: an address changes rooms only with the player's consent.
  Only consent to another room than the remembered one counts (`waved`).
- `PackageHasReceipt`: no published package without its receipt, wherever an export dies.
- `EditedIsKept`: a package the player has put there or changed goes only by consent,
  including a change made between the check and the removal.
- `AttachedToVerifiedBoot`: the game a client is attached to loaded the very activation that
  was verified before it booted, through switches away and back and emulators started again.
- `NoStrayServer`: a server left running is the one behind *Stop server*, however a start
  was slow, failed or was given up, unless the window itself was killed.
- `HostedRoomIsPlayed`: a client started against the address we host at speaks for the
  hosted room, whatever that address was used for and whatever is selected now.

**Bounds** (`session_core`). Two rooms, one address (a confusion needs two rooms on one
address), two emulators, two clients (one attached), one death or spoiled directory, two
activations by BBLauncher, two servers. Fields change between calls and between the two
readings of the request (`BetweenReads`); emulators are started by hand between calls and
between a verification and the look at the processes (`ByHand`), BBLauncher switches there
too (`AroundVerification`); packages are edited between the steps of an export
(`AroundExport`). In the hosting front the launches are those of *Launch* only, without
emulators started by hand or directories spoiled: `standalone` explores those. Plays (of the backend's front) and rooms
(of the others) are the same two model values, so that one symmetry serves all fronts.

**What the bounds exclude because the code does not notice it**, each a hazard or noted
here: a request replaced between a press, which generates the plan and with it the slot the
client logs in with, and the worker's reading of it (`ui.py:1036`, `external_ui.py:236`):
receipt and request are compared (`external_workflow.py:198`), the plan's slot with neither;
a request replaced between the hash and the writers, which are handed its path
(`workflow.py:2266`): the key would
then name a build made from something else; a package put where one is being removed
(`"remove"` in `PackageAt`); an archive replaced between the reading of its identity and the
start of the server that hosts it; two spellings of one address, which `lock` would remember
apart (`workflow.py:1464`). Also: a room here is request and slot together, so that the
cache key, which leaves out seed and slot (`workflow.py:1951`, `core.py:652`), never makes
two rooms share a build; Undo and Restore Previous are in `Overlay` only.

## 8. NativeGrant: granting without Cheat Engine

**Code.** `grant` refuses a reused tag whose outcome the journal does not know
(`_gate_reused_tag`), refuses an armed request cell or clears it (`_gate_request_cell`),
journals `armed`, then polls a `GrantSession`: wait for the inventory, find the stack,
compare the count with the expected one, write the cells of a request one by one and the
request last, wait for the cave's done mark, verify. An exception in the poll loop
disarms the cell (`disarm_best_effort`); a time-out leaves it armed, and so does an exception
that strikes after the loop, at the time-out's own messages (`cli.py:332-334`). The last
status goes into the journal, `interrupted` after either exception.

**Model.** `tpc` is where the tool is, `run` its arguments, `status`, `baseline`, `exists`,
`active`, `polls` the session's fields; `cell` the request with, for each group of
arguments, the tag whose they are (`staged`, `sized`, `armed`), so that a mixture of two
runs shows; `journal` the last status of each tag. The cave is one step: it runs within a
frame on the game's thread. `Interrupt` (Ctrl+C, a failed write) and `Kill` strike between
any two writes; `InterruptLate` strikes after the loop and disarms nothing; every read may
fail; the journal may be unwritable or be lost by a kill
while it is rewritten (`lossy`).

**Runs.** `native_core` is `Delivery`: an install (section 9), then three runs of `grant`
over a good and a Vial, each with no count, the count noted before the first run or the one
read now; the player starts with a Vial and without the good, so that insertion, addition
and, once a count is changed or an item is given, the other case of each occur; he changes
one count. `native_rerun` is `NativeGrant` alone: `OnlySettledIsReissued`, **violated**.
Properties: `GivenOnce`, `ArmedIsAccounted` (an armed request belongs to a tag the journal
does not call settled), `CompletedWasGiven`, `CaveRunsWholeRequest` (never half of one run's
request and half of another's), `LoopDisarms` (an exception in the poll loop leaves the cell
idle unless the guest refuses that write; nothing is claimed of a later one, whose armed
request `ArmedIsAccounted` and `GivenOnce` follow). Three runs are the smallest number in
which a request of the first can be left over, cleared in the second and confused in the
third.

**What `GivenOnce` excuses**, by history variables: a journal that lost a record; a tag run
again with a count read after a run whose outcome the journal calls known (`recounted`):
this includes the finding below, whose sharper statement is `OnlySettledIsReissued`; and a
player who changes the count under a run that was given the first one. The operator is
assumed to be `Honest`: who passes the old count has not touched the item since and left
room for the grant.

**Left out**: two tools on one cell; a grant at the held cap (it ends `completed`, where
`docs/STORAGE-ROUTING-PROBE.md:88` expects `failed`); game restarts between runs; `--force`
(`Forced` is FALSE: it is the operator's own assertion); the probes. Quantity is 1; both
verification budgets are `MaxVerify`. A `busy` cell never occurs while staging (theorem
`CellFree`), so `Queue` has no such branch.

## 9. DetourInstall: hooking a running game

**Code.** `install --arm` checks that the image is the known one (every hook site still has
its original bytes), writes the state region and the caves, then
`install_detours_atomically` lists the game's threads, suspends each, looks where each one
is, and writes the detours only if none is inside a site; otherwise it resumes and tries
again, up to `attempt_budget` times (`process.py:357`, `threadcontrol.py:119`). Overwriting
an instruction under a thread crashes the game; a thread left suspended freezes it.

**Model.** `rip` is where each thread executes (in the window of a site or elsewhere, or not
born or gone); `listed` and `mine` are the installer's locals, `left` what a command that
was cut off has left suspended, `laid` and `hook` the image. Threads run, end and are
created while the installer works; a write may fail, the tool may be killed before any step,
the command may be given again. `cutOff` is history: a command did not get to its resumes.

**Properties.** `NobodyUnderTheWrite`: bytes change only while every thread is stopped
outside the site, and behind the cave and state they lead to. `NobodyStaysFrozen`: when a
command is over no thread is suspended.

**Bounds.** Three threads, one of them unborn, two sites, two attempts, two commands. The
code has three sites (the document speaks of two); the code treats them alike. In `Delivery`
grants begin where the first install has ended well (`Hooked`): this narrows the run to the
order in which the operator gives the commands. `grant` attaches without asking whether any
install ended well (`cli.py:337`), and no property or theorem rests on that guard; `cli.py` re-checks the original bytes when
it attaches by itself, so a grant after an install needs `--base`.

**What is excused, and why.** `NobodyStaysFrozen` excuses a command that was cut off:
killed, or *raised because a thread ended between the listing and its suspension*. The
second is a weakness of the code: `_suspend_all` runs before the `try` whose `finally`
resumes, so the exception leaks the suspensions made so far, although
`docs/INSTALL-ATOMICITY.md:108` says that every path resumes. `NobodyUnderTheWrite` holds
when no thread is created between the listing and the last suspension
(`NotWhileSuspending`): such a thread is in no list and runs on during the write. A write
that fails halfway leaves some detours in place; the command given again then refuses the
image.

## 10. What is proved

TLC checks the instances above; the following hold for every value of the constants that
satisfies the modules' assumptions. All proofs are checked by tlapm without omitted steps.
Every safety property of the runs that pass is among them.

| Module | Theorem | Says | Hypotheses |
|---|---|---|---|
| `OverlayProofs` | `TypeCorrect` | `[]TypeOK` | |
| | `ControlCorrect` | what each control point has established | `PlayerWaits` |
| | `ForeignSafe` | `ForeignIsLeftAlone` | `PlayerWaits` |
| | `VerifiedSafe` | `OnlyVerifiedInstalled` | `PlayerWaits` |
| | `Heals` | `HealsUnlessDeactivating` | `PlayerWaits` |
| | `InductiveCorrect` | `[]Inductive` | `PlayerWaits`, `DeathSparesRollback` |
| | `PromiseHeldAlways` | `[]PromiseHeld` | the same two |
| | `PromiseKeptAlways` | `PromiseKept` | the same two |
| | `PreviousTruthful` | `PreviousIsTruthful` | the same two |
| | `Refinement` | `Spec => SeedSwitch` under the refinement mapping | the same two |
| `MigrationProofs` | `MigrationTypeCorrect` | `[]MigrationTypeOK` | |
| | `PlayerFilesBack` | `PlayerFilesReturn` | `PlayerWaits`, `NotWhilePlaced` |
| | `MigrationForeignSafe` | `ForeignIsLeftAlone` | `PlayerWaits` |
| | `MigrationVerifiedSafe` | `OnlyVerifiedInstalled` | `PlayerWaits` |
| | `MigrationHeals` | `HealsUnlessDeactivating` | `PlayerWaits`, `NotWhilePlaced` |
| | `MigrationRefinement` | `ImplementsSwitch` | these and `DeathSparesRollback` |
| `BridgeProofs` | `TypeCorrect` | `[]TypeOK` | |
| | `CellFree` | `[]CellIsFree` | |
| | `WitnessTrue` | `[]WitnessIsTrue` | |
| | `AckedGiven` | `[]AckedWasGiven` | `SingleRoom` |
| | `InOrder` | `GivenInOrder` | `SingleRoom` |
| | `VialsNotMade` | `VialsAreNotMade` | `VialsKept` |
| | `GivenAtMostOnce` | `[]GivenOnce` | `SingleRoom`, `OneRestart`, `SteadyCounts`, `SteadyClient` |
| `SessionProofs` | `TypeCorrect` | `[]TypeOK` | |
| | `ClaimedClientsMatch` | `[]ClientMatchesGame` | `NobodyStartsWhileArming` |
| | `SessionsTruthful` | `[]SessionIsTruthful` | |
| | `ReleasesOnlyDead` | `ReleaseOnlyDead` | |
| | `OneClient` | `[]OneClientPerGame` | `OneEmulator`, `NoneUnrecorded` |
| `LaunchProofs`, alone | `LaunchTypeCorrect` | `[]LaunchTypeOK` | |
| | `CacheTrue` | `[]CacheIsTrue` | `KeyedAsWritten` |
| | `NoneSilent` | `NoSilentRoomChange` | |
| | `SpeaksTrue` | `[]SpeaksForItsGame` | `NoHandInTheGaps` |
| `LaunchProofs`, hosting | `HostTypeCorrect` | `[]LaunchTypeOK` | |
| | `NoneStray` | `[]NoStrayServer` | |
| | `HostNoneSilent` | `NoSilentRoomChange` | |
| | `HostedPlayed` | `HostedRoomIsPlayed` | `HostedAsRead` |
| | `HostSpeaksTrue` | `[]SpeaksForItsGame` | `NoHandInTheGaps` |
| `ExternalProofs` | `ExternalTypeCorrect` | `[]ExternalTypeOK` | |
| | `PackageReceipt` | `[]PackageHasReceipt` | |
| | `EditedKept` | `EditedIsKept` | `"remove" \notin PackageAt` |
| | `AttachedBoot` | `[]AttachedToVerifiedBoot` | |
| | `ExternalCacheTrue` | `[]CacheIsTrue` | `ExportedAsWritten` |
| | `ExternalNoneSilent` | `NoSilentRoomChange` | |
| | `ExternalSpeaksTrue` | `[]SpeaksForItsGame` | `ExportedAsWritten`, `ReadAsPressed`, `NoBootAtClient` |
| `FrontsProofs` | `OneFront` | `FrontsSpec` implies `Spec` and its front's specification | |
| | `FrontsSessions` | `Session`'s four invariants and `ReleaseOnlyDead` | `NobodyStartsWhileArming`, `OneEmulator`, `NoneUnrecorded` |
| | `FrontsCacheTrue` | `[]CacheIsTrue` | `NoHandInTheGaps` |
| | `FrontsSpeakTrue` | `[]SpeaksForItsGame` | `NoHandInTheGaps` |
| | `FrontsNoneSilent` | `NoSilentRoomChange` | |
| | `FrontsNoneStray` | `[]NoStrayServer` | |
| | `FrontsHostedPlayed` | `HostedRoomIsPlayed` | `HostedAsRead` |
| | `FrontsPackages` | `[]PackageHasReceipt`, `EditedIsKept` | `"remove" \notin PackageAt` |
| | `FrontsAttachedBoot` | `[]AttachedToVerifiedBoot` | |
| `DeliveryProofs`, grants | `TypeCorrect` | `[]TypeOK` | |
| | `CellFree` | `[]CellIsFree` | |
| | `RunsWholeRequest` | `CaveRunsWholeRequest` | |
| | `Accounted` | `[]ArmedIsAccounted` | |
| | `CompletedGiven` | `[]CompletedWasGiven` | |
| | `GivenAtMostOnce` | `[]GivenOnce` | |
| | `Disarms` | `LoopDisarms` | |
| `DeliveryProofs`, install | `InstallTypeCorrect` | `[]InstallTypeOK` | |
| | `NoLeakedSuspend` | `[]NobodyStaysFrozen` | |
| | `SuccessIsWhole` | an install that ends well has written every site behind its caves | |
| | `WriteIsSafe` | `NobodyUnderTheWrite` | `"suspend" \notin BornAt` |
| `DeliveryProofs`, both | `DeliveryOfParts` | `DeliverySpec` implies both specifications | |
| | `ToolGrants` | all of the grants' properties | |
| | `ToolInstalls` | all of the install's properties | `"suspend" \notin BornAt` |

The theorems of `SessionProofs`, `LaunchProofs` and `ExternalProofs` are about those
components' own specifications; `FrontsProofs` carries them over to `FrontsSpec`, which is
what `session_core` checks. Those of `MigrationProofs` are about `MigrationSpec`
(`overlay_core`), `ToolGrants` and `ToolInstalls` about `DeliverySpec` (`native_core`), those of `BridgeProofs` about the `Spec` of the bridge's
runs.

**The hypotheses** are the conditions on a run's constants under which the property is true
at all; each names a gap of the code, and the runs that check the property satisfy it.

| Hypothesis | The gap outside it |
|---|---|
| `PlayerWaits` | a folder changed between a check of a call and the rename that relies on it; `overlay_meddled` explores what survives that |
| `DeathSparesRollback` | a death between the rename of a rollback and its journal write (finding 1) |
| `NotWhilePlaced` | an edit between a migration's last look and its record (section 4) |
| `SingleRoom` | tags do not name a room (section 5) |
| `VialsKept` | a Vial used between the record of a grant and its write (section 5) |
| `NobodyStartsWhileArming` | the game started while the backend hashes (section 6) |
| `OneEmulator` | two emulators at once: a Play that alternates starts a second client (section 6) |
| `NoneUnrecorded` | a backend that dies between starting a client and recording it (finding 3) |
| `OneRestart` | a third execution of the table, a torn record, a death between a guest write and its verification (section 5, d, e, g) |
| `SteadyCounts` | no Vial held, an item used up, one gained between a guest write and its verification (section 5, c, e, f) |
| `SteadyClient` | the harness runs between the client's two looks, or the client dies while it rewrites the receipt (section 5, a, b) |
| `KeyedAsWritten`, `ExportedAsWritten` | a request replaced between the hash and the writers, in a launch and in an export (section 7) |
| `NoHandInTheGaps` | the same from its first reading on; an emulator started by hand while the launcher switches the overlay and starts its own |
| `ReadAsPressed` | a request replaced between the press, when the plan and its slot are generated, and the reading that is compared with the receipt (section 7) |
| `HostedAsRead` | an archive or selection changed between the reading of its identity and the server's start (section 7) |
| `NoBootAtClient` | an emulator started between the last look at the processes and the client |
| the two on `PackageAt`, `BornAt` | sections 7 and 9 |

*Overlay.* `PromiseKept` needs to know where the old overlay is, which depends on the
journal's phase and, while a call is in progress, on the control point. `Inductive` has two
halves. `ControlInv` says for each control point what the journal's phase and mode are and
what the checks already made have established about `mods` and `stage`; it needs only that
the player waits. `DiskInv` says for each phase of an open activation where the promised
overlay is: at the backup name once it was moved there, at `mods` before that (and again
late in a rollback). `DiskInv` is preserved by deaths because it speaks of the journal and
not of the control point, except for the late rollback, where the journal no longer
describes the disk: hence the hypothesis. The refinement maps `shown` to `mods`, `saved` to
`promise`, a pending switch to an open journal; each concrete step is `Show`, `Commit`,
`Abandon`, `MoveAside`, `Begin`, a step of the world or a stutter. `HealInv` adds what an
open activation before its first rename knows of an overlay of ours at `mods` (it is the one
to be replaced) and needs no word about deaths. `TruthInv` adds that the manifest which will
be at `mods` on completion, wherever it is now, names the promised overlay as its previous.

*Migration.* Every step of a migration is a step of the transaction or an `OwnStep`, which
at most places player files where nothing is; so `ControlInv` and `DiskInv` carry over once
`CallsInv` says what a migration knows while its call runs. `MovedInv` follows the overlay
that was moved away last: at the disabled name while the deactivation is open, then under
the name the closed transaction file still has, last under the record's own; an overlay of
ours at `mods` means that nothing has been moved away for this record. `TakenInv` is the
same for what `record` and `original` say. None of them speaks of the control point of a
dead call, so deaths may fall anywhere, late rollbacks included.

*Bridge.* `Typed` says for each place of the harness what locals, files and cell hold; a
request is armed only while the harness waits for it or after the table was closed, which is
`CellIsFree`. `WitnessInv` extends truthfulness from the record on disk to everything a
record can be made from: the one being flushed, the one found at attach, a verification
after the write, a cave that is done; with deaths between any of these. `AckInv` is about a
client that has looked and not yet acted (`ack`, `count`, `store`). `OrderInv` says that
whatever names an item (command file, the command in hand, the armed request) names one
whose predecessors have been in the game: true of what the client sends because of
`AckInv`, and of the rest because each is copied from the one before it. `VialInv`: a Vial
whose write is due is held.

*Bridge, at most once.* `OnceInv` is about the one item the client has next (`NextItem`),
since all before it are behind the cursor and no command names a later one. A record `Tells`
if it names that item and a count before it from which the count now shows whether the item
is in the game, and in the save; it `Answers` if it says so besides. `TakenInv`: what the
harness has in hand is that item, told by the record it has just written, and not in the
game while the write is still due (`TakenNow`); or, after the restart, an item answered
before the restart whose command was not yet deleted (`TakenLate`): it is not in the game
that came back and the record found at the attach answers for it, or the client has gone
past it. `PendingInv` says the same of what the cave was asked for. `TracedInv` is the heart
of it: an item that is in the game can be told, by the record of the harness that has it in
hand or has answered, by the record a dead one left, or by the one read at the restart (a
second restart would overwrite it). `AnswerInv` and `CommandInv` are the client's
side: once a record answers for the item, its command is gone, or about to be, or the
restart's record answers for it too. `StockInv` keeps the bootstrap from writing over an
answer. `OnceInv` was checked by TLC on `bridge_once` and with more deaths and commands
before it was proved. With two rooms TLC finds no duplicate either, but an item may be
skipped (`AckedWasGiven`), and `NextItem` is then not the one to follow.

*Session.* `MatchInv` adds to the property what an arm record is worth (`ArmIsCurrent`): as
long as its generation lasts, the active package is its play and every running emulator has
loaded it, because the preflight saw no game running and nothing was switched since. `stat`
compares generations after the claim was made, so a claimed process that is still running at
the check is one of those (`Backed`). A process that loaded something else was either
stopped before the arm or started after a switch, which changed the generation. `Kept` is
what the coordinator knows of its clients: the one just started is the one it will record,
the handle is the recorded one's, a client being stopped is dead. `OneClientPerGame` is
about a call that finds no session for its play and a game that has a client of another:
`SoleInv` says that a client whose game runs is in the record of its play (`InRecord`), that
a current arm belongs to the play that this game's client serves (`ArmsServed`), and what
each place of a call relies on (`CallServed`). It needs no assumption on who starts games.

*Launch and LocalHost.* `JobInv` tells which calls reach which steps. `CacheInv`: between
hash and publication the request is the one hashed. `LockInv`: from the check of the
server's identity on, the remembered room is the call's, or the player has agreed.
`PlayInv`: every tree goes by the name of what it was made from (`Named`), at the critical
steps at most one emulator runs (`Alone`), what runs loaded what is installed (`LoadedNow`),
and what was recorded of earlier clients stays true (`Spoken`). With the page: a server that
is up is the panel's or the one of the call in progress (`ServerInv`), and the address of
the hosted one is remembered with its room (`HostedInv`), which steps of a launch change
only by the player's consent.

*External.* `PackageReceipt` needs that a receipt for what is about to be renamed into place
has been written (from `replace` on). `EditedKept` needs what the removal has already
established: at `remove` the package is ours, broken by us, since the check was repeated in
the very step before. `AttachedBoot` rests on `BootInv`: the number of an activation is
never given again and equal numbers mean equal trees; what was booted when activation *n*
was verified has a smaller index than any later boot; hence a game with a larger index than
the observation which runs alone while activation *n* is still there can only have loaded
*n*. `SpeaksForItsGame` adds to it that packages are exported from builds made from their
own room (`ExternalCacheInv`), that an attach keeps the receipt it was pressed with and,
where the request was not replaced since the press, has its slot in the plan
(`SelectedInv`), and that its address is remembered with that room (`AttachInv`).

*Fronts.* No step changes the front, and each front's step leaves the others' variables
alone: a behaviour of `FrontsSpec` is one of its component (`OneFront`). What is added is
what the components say nothing of: there is no server where no page is, no package outside
BBLauncher mode, and no client that names an activation where none is exported
(`NoServers`, `NoPackages`, `NoneNumbered`).

*NativeGrant.* `Safe` is the conjunction of: who may find the cell armed (`FreeInv`), that
the arguments written so far are the present run's and those of an armed request are all of
one run (`WholeInv`), that a done mark seen by the run in flight is that of its own request
(`FlightInv`), and that an outcome a run is about to journal is true (`CloseInv`, which says
nothing of an interrupted one); with these the
two statements about the journal are inductive (`AccountInv`). `GivenOnce` is proved tag by
tag (`OnceInv`): unless excused, a tag has been given at most once; what was or may yet be
given, the journal knows of (`Traced`); while nobody else moves the item its count tells
whether it was given (`Counted`); and a run past the gate either has nothing behind it or
compares the count with the one it was given (`Runs`).

*DetourInstall.* `HeldInv` says at which places the installer may hold a thread (`mine`
empty outside `suspend` to `resume`) and that `left` is filled only by a cut-off command.
For the write, `CaughtInv` says that from the end of the suspensions on every living thread
is frozen, and outside all sites once the look said so: a frozen thread does not move, and a
thread is created only by one that runs, of which there is none. `LaidInv` adds that caves
precede the round, and `RoundInv` that a round is done only when every site is written:
nothing of it is undone before the command ends.

*Delivery.* A step is one of the install or one of the grants and leaves the other's
variables alone.

**Only model-checked.** Liveness (`TransactionsClose`, `EveryItemSettles`,
`MigrationFinishes`) is outside the prover's reach. The properties of the four runs that
expect a violation are false.

## 11. Disagreements between code and documentation

Each is a run whose property states the documentation's sentence and which TLC violates.

1. `overlay_rollback_crash`. `_rollback_activation` puts the backup back at `mods` and only
   afterwards writes `rolled_back` (`core.py:2473-2476`). A death in between leaves a
   journal that takes the restored overlay for the failed new one: the next recovery moves
   it aside and closes on vanilla. `docs/LAUNCHER.md:104-105` promises the new overlay or
   the old.
2. `bridge_restart_regrants`. Attach and the polls before the inventory is ready overwrite
   the record that witnesses an executed but retained command; the execution after that has
   nothing to reconcile with and grants again (`docs/PLAYTESTING.md:147`,
   `tests/test_grant_harness_contract.py:210-211`).
3. `session_orphan`. A backend that dies after starting the client and before recording it
   leaves a client nobody knows; the next Play starts a second one
   (`bb_launcher/integrated/supervisor.py:17-18`,
   `docs/SPEC-bblauncher-integrated-ap.md:333-335`).
4. `native_rerun`. A run that times out journals a status outside `INCONCLUSIVE_STATUSES`
   while its request is still armed; a rerun with the count read now grants again, although
   "a grant whose outcome is still undetermined must never be re-issued" (`cli.py:272-273`).

## 12. Not modelled, and the plan

*Offline transformations.* The greater part of the repository (the enemizer, the C# writers,
catalogs, miners, probes, world generation) turns input files into output files in one
sequential run. It keeps no state between runs, nothing runs beside it, and what could be
wrong with it is in the data: which enemy goes where, which location needs which item. TLC
says nothing about that which the repository's own tests over the real tables do not say
better, and a model of those tables would be a copy of them. This is why the share of lines
the map covers stays small: it is nearly all of the code that keeps state, and hardly any of
the rest.

*Read-only or presentation.* Doctor and readiness reports, the guest memory reader's
diagnostics, widgets, command-line parsing.

*Not reachable in the shipped program.* `decide_recovery` (`integrated/journal.py`) is
called only by its tests. The branch of `claim_client` for a duplicate needs two backends.

*Hazards seen and not covered*, besides those that `PROJECT.json` lists without a property:
the shipped client and table name different builds, so that the client refuses every state
(`client.py:161`); a death while the receipt is rewritten sets the cursor back to zero
(`client.py:224`, explored by `bridge_core`, left out of `bridge_once`); while no Vial is
held the first polls overwrite a completed record (the table, 456; section 5); a retained
command is released by deleting its file, which `client.py:203` then writes again (the
table, 641); on an existing stack the slot evidence is true before the cave ran, so that a
grant at the cap ends completed (`delivery.py:243`); a rewritten journal is emptied first
(`cli.py:205`); the game started while the backend hashes (`backend.py:431`); a session
reused after its client ended (`backend.py:522`); two emulators at once (`backend.py:457`);
a package put there between the last check and its removal (`external.py:593`); a request
replaced between hash and writers (`workflow.py:2266`); a thread that ends between listing
and suspension (`threadcontrol.py:138`). Sections 5 to 9 say what the runs do about each.

In the order of importance of what is left:

1. `Bridge`: an abstract at-least-once delivery that `Bridge` implements, and the limits of
   the duplicate-free property that an attach would lift which reconciles before it
   overwrites.
2. `NativeGrant` with two tools on one cell, and with the held cap reached.
3. `Session` with two backends and remembered sessions.
4. An owned lock over the overlay transaction, to be checked with two launchers.
5. Pure algorithms as functions, against reference definitions: `plan_user_merge`
   (`core.py`), the drop shuffle (`enemy_drops.py`).
