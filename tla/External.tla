------------------------------ MODULE External ------------------------------
(***************************************************************************)
(* BBLauncher mode (bb_launcher/external.py, external_workflow.py): the    *)
(* window, or the backend retrying a Launch, exports a build as a package  *)
(* with a receipt beside it; BBLauncher activates packages; the window     *)
(* verifies the activation while no game runs and later starts one client  *)
(* for the game that was booted since.                                     *)
(*                                                                         *)
(* The fingerprint of an activation hashes the file identities with the    *)
(* bytes, so it is as unique as the number of the switch that made it.     *)
(* Each verification walks and hashes every file: what happens between it  *)
(* and the look at the processes is in the model, what happens inside it   *)
(* is not.  A package activated over our own overlay never verifies and is *)
(* left out.                                                               *)
(***************************************************************************)
EXTENDS Launch

CONSTANTS
  SwitchAt,      \* steps of the worker at which BBLauncher may switch
  PackageAt,     \* steps at which the player may put a package of his own
  MaxActivations,
  MaxAttached    \* clients ever attached

ASSUME SwitchesAssumption == {MaxActivations, MaxAttached} \subseteq Nat
ASSUME RoomAssumption == "edited" \notin Room

VARIABLES
  pkg,       \* the package of each room in the inactive Mods directory
  receipts,  \* what was published, for which room
  seen,      \* the observation of each room's receipt: activation, boots then
  activations   \* how often BBLauncher has switched

packages == <<pkg, receipts, seen, activations>>
externalVars == <<launchVars, packages>>

Exports == {"export", "retry"}
NeverSeen == [gen |-> 0, boots |-> 0]

ExternalInit ==
  /\ LaunchInit
  /\ pkg = [r \in Room |-> "missing"]
  /\ receipts = {}
  /\ seen = [r \in Room |-> NeverSeen]
  /\ activations = 0

-----------------------------------------------------------------------------
(* export_external_package *)

Receipt == [room |-> job.room, made |-> job.made]

Inactive == overlay.gen = 0 \/ overlay.room # job.room

(* A retry of the backend replaces only what a receipt of ours describes,   *)
(* byte for byte; the window replaces what the player agrees to.            *)
MayReplace ==
  \/ pkg[job.room] = "missing"
  \/ job.what = "export" /\ job.agreed
  \/ job.what = "retry" /\ pkg[job.room] = job.made /\ Receipt \in receipts

Stage ==
  /\ step = "built" /\ job.what \in Exports
  /\ cache[job.room] \in Room /\ Inactive
  /\ job' = [job EXCEPT !.made = cache[job.room]]
  /\ To("stage")
  /\ UNCHANGED <<field, files, procs, history, faults, packages>>

(* Mutant: a package of this name is taken to have its receipt.             *)
NewReceiptOnce == IF pkg[job.room] = "missing" THEN receipts \cup {Receipt} ELSE receipts

NewReceipt == receipts \cup {Receipt}

WriteReceipt ==
  /\ step = "stage" /\ MayReplace
  /\ receipts' = NewReceipt
  /\ To("replace")
  /\ UNCHANGED <<field, files, procs, job, history, faults, pkg, seen, activations>>

(* Mutant: the answer of the check before staging still counts.             *)
StillReplaceableEarlier == TRUE

StillReplaceable == MayReplace

(* rmtree, which may be stopped halfway, then the rename.                   *)
Remove ==
  /\ \/ step = "replace" /\ StillReplaceable /\ pkg[job.room] # "missing"
        /\ pkg' = [pkg EXCEPT ![job.room] = "broken"] /\ To("remove")
     \/ step = "remove"
        /\ pkg' = [pkg EXCEPT ![job.room] = "missing"] /\ To("replace")
  /\ UNCHANGED <<field, files, procs, job, history, faults, receipts, seen, activations>>

Publish ==
  /\ step = "replace" /\ pkg[job.room] = "missing"
  /\ pkg' = [pkg EXCEPT ![job.room] = job.made]
  /\ Done
  /\ UNCHANGED <<field, files, procs, history, faults, receipts, seen, activations>>

ExportFails ==
  /\ \/ job.what \in Exports /\ Fail({"built"})
     \/ Fail({"stage", "replace", "remove"})
  /\ UNCHANGED packages

-----------------------------------------------------------------------------
(* verify_external_activation, verify_before_boot *)

(* A press captures the selected receipt and, to attach, generates the plan *)
(* with the slot the request names now.                                     *)
PressWith(receipt, what, agreed) ==
  /\ step = "idle"
  /\ To("read")
  /\ job' = [NoJob EXCEPT !.what = what, !.agreed = agreed, !.server = field.server,
                          !.slot = IF what = "attach" THEN field.room ELSE NoRoom,
                          !.room = receipt.room, !.made = receipt.made]
  /\ UNCHANGED <<field, files, procs, history, faults, packages>>

(* The active package and what is installed are what the receipt says.      *)
Verifies == overlay.gen > 0 /\ overlay.room = job.room /\ overlay.made = job.made

(* The receipt must be of the request as it is now; nobody compares the     *)
(* plan with either.                                                        *)
LookAtActivation ==
  /\ step = "read" /\ job.what = "verify"
  /\ up = {} /\ field.room = job.room /\ Verifies
  /\ job' = [job EXCEPT !.gen = overlay.gen]
  /\ To("looked")
  /\ UNCHANGED <<field, files, procs, history, faults, packages>>

Observe ==
  /\ step = "looked" /\ up = {}
  /\ seen' = [seen EXCEPT ![job.room] = [gen |-> job.gen, boots |-> Len(boots)]]
  /\ Done
  /\ UNCHANGED <<field, files, procs, history, faults, pkg, receipts, activations>>

-----------------------------------------------------------------------------
(* connect_external *)

(* Mutant: the fingerprint is made of bytes alone.                          *)
SameActivationBytes(gen) == gen > 0 /\ Verifies

SameActivation(gen) == Verifies /\ overlay.gen = gen

FindActivation ==
  /\ step = "read" /\ job.what = "attach"
  /\ field.room = job.room
  /\ SameActivation(seen[job.room].gen)
  /\ job' = [job EXCEPT !.gen = seen[job.room].gen]
  /\ To("found")
  /\ UNCHANGED <<field, files, procs, history, faults, packages>>

(* One game, created after the observation; no client; the build in the     *)
(* cache is the receipt's.                                                  *)
FindGame ==
  /\ step = "found"
  /\ open = {} /\ Len(logins) < MaxAttached
  /\ cache[job.room] = job.made
  /\ \E g \in up : /\ up = {g} /\ g > seen[job.room].boots
                   /\ job' = [job EXCEPT !.game = g]
  /\ To("again")
  /\ UNCHANGED <<field, files, procs, history, faults, packages>>

VerifyAgain ==
  /\ step = "again"
  /\ SameActivation(job.gen) /\ up = {job.game}
  /\ Remember(job.server, job.room, job.agreed)
  /\ job' = [job EXCEPT !.agreed = FALSE]
  /\ To("witness")
  /\ UNCHANGED <<field, cache, overlay, witness, config, procs, spoke, faults, packages>>

WriteContract ==
  /\ step = "config" /\ job.what = "attach"
  /\ config' = [config EXCEPT ![job.room] = job.room]
  /\ To("final")
  /\ UNCHANGED <<field, cache, overlay, witness, lock, procs, job, history, faults, packages>>

FinalCheck ==
  /\ step = "final"
  /\ SameActivation(job.gen) /\ StillAlone
  /\ To("client")
  /\ UNCHANGED <<field, files, procs, job, history, faults, packages>>

ExternalRefuses == Fail({"looked", "found", "again", "final"}) /\ UNCHANGED packages

-----------------------------------------------------------------------------
(* BBLauncher and the player *)

Activation(room) ==
  [room |-> room, made |-> IF pkg[room] \in Room THEN pkg[room] ELSE NoRoom,
   gen |-> activations + 1]

SwitchPackages ==
  /\ step \in SwitchAt /\ activations < MaxActivations
  /\ overlay = Vanilla \/ overlay.gen > 0
  /\ activations' = activations + 1
  /\ \/ overlay' = Vanilla
     \/ \E r \in Room : pkg[r] # "missing" /\ overlay' = Activation(r)
  /\ UNCHANGED <<field, cache, witness, config, lock, procs, step, job, history, faults,
                 pkg, receipts, seen>>

(* A package edited by hand, or restored from somewhere else.               *)
OwnPackage ==
  /\ step \in PackageAt /\ faults < MaxFaults
  /\ faults' = faults + 1
  /\ \E r \in Room : pkg[r] # "edited" /\ pkg' = [pkg EXCEPT ![r] = "edited"]
  /\ UNCHANGED <<field, files, procs, step, job, history, receipts, seen, activations>>

-----------------------------------------------------------------------------

ExternalPresses ==
  \/ /\ \/ \E agreed \in BOOLEAN : Press("export", agreed, FALSE)
        \/ \E what \in {"randomize", "retry"} : Press(what, FALSE, FALSE)
     /\ UNCHANGED packages
  \/ \E r \in receipts :
       PressWith(r, "verify", FALSE) \/ \E agreed \in BOOLEAN : PressWith(r, "attach", agreed)

Publishes == Stage \/ WriteReceipt \/ Remove \/ Publish \/ ExportFails

Attaches ==
  LookAtActivation \/ Observe \/ FindActivation \/ FindGame \/ VerifyAgain
  \/ WriteContract \/ FinalCheck \/ ExternalRefuses

AsInLaunch ==
  /\ \/ PreparesSeed \/ WriteWitness \/ SpawnClient \/ LaunchFails \/ Refused
     \/ EditFields \/ BootByHand \/ QuitGame \/ QuitClient \/ WorkerDies
  /\ UNCHANGED packages

ExternalNext ==
  ExternalPresses \/ AsInLaunch \/ Publishes \/ Attaches \/ SwitchPackages \/ OwnPackage

ExternalSpec == ExternalInit /\ [][ExternalNext]_externalVars

(***************************************************************************)
(*                               Properties                                *)
(***************************************************************************)

(* Every variable holds what the code can put there.                        *)
ExternalTypeOK ==
  /\ LaunchTypeOK
  /\ pkg \in [Room -> Content \cup {"edited"}]
  /\ receipts \subseteq [room : Room, made : Room]
  /\ seen \in [Room -> [gen : 0 .. MaxActivations, boots : 0 .. MaxBoots]]
  /\ activations \in 0 .. MaxActivations

(* connect_external: "AP-owned files or activation changed", "A fresh game  *)
(* boot is required": the game a client is attached to loaded the very      *)
(* activation that was verified before it was booted, whatever BBLauncher   *)
(* switched to and back, and whenever the game was started again.           *)
AttachedToVerifiedBoot ==
  \A i \in 1 .. Len(logins) :
    logins[i].gen > 0 => boots[logins[i].game].gen = logins[i].gen

(* export_external_package: "a crash may leave a harmless orphan receipt,   *)
(* but a published package can never exist without its verification         *)
(* authority".                                                              *)
PackageHasReceipt ==
  \A r \in Room : pkg[r] \in Room => [room |-> r, made |-> pkg[r]] \in receipts

(* "a player can never be talked into deleting a foreign mod", and a retry  *)
(* "may replace only a byte-exact package backed by our receipt": what the  *)
(* player put there goes only in an export he agreed to.                    *)
EditedIsKept ==
  [][\A r \in Room :
       pkg[r] = "edited" /\ pkg'[r] # "edited" => job.agreed]_externalVars

=============================================================================
