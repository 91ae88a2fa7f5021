------------------------------- MODULE Launch -------------------------------
(***************************************************************************)
(* The launcher window without a backend: Randomize, Launch, Rebuild,      *)
(* Connect and Launch Vanilla of bb_launcher/workflow.py, from the press   *)
(* of a button to the processes they start.                                *)
(*                                                                         *)
(* A room stands for a seed, its slot and everything else a request names; *)
(* with one set of options it is also the cache key.  What a directory or  *)
(* a file was made from is the room in the request file when a writer read *)
(* it, which is not the moment its name was computed.  The overlay switch  *)
(* is one step: Overlay shows that it is.  One worker runs at a time       *)
(* (`_busy'); around it the player edits the fields, starts the emulator   *)
(* by hand, deletes caches and closes windows.  A call that is refused     *)
(* before it changed anything is the absence of a step.                    *)
(***************************************************************************)
EXTENDS Naturals, Sequences, FiniteSets

CONSTANTS
  Room, NoRoom,      \* requests; what stands for none
  Server, NoServer,  \* addresses the player may type
  EditAt,        \* steps at which the fields or the request file may change
  BootAt,        \* steps at which the emulator may be started by hand
  MaxBoots,      \* bounds: emulator starts,
  MaxLogins,     \*   clients ever started,
  MaxFaults      \*   launcher deaths, deleted or damaged directories

ASSUME NoneAssumption == NoRoom \notin Room /\ NoServer \notin Server
ASSUME EntryAssumption == Room \cap {"missing", "broken"} = {}
ASSUME LaunchBounds == {MaxBoots, MaxLogins, MaxFaults} \subseteq Nat

VARIABLES
  field,    \* what the window and the request file behind it say now
  cache,    \* the build under each key: missing, broken, or made from a room
  overlay,  \* what verifies at the mods directory
  witness,  \* seed-manifests/<key>.json: missing, torn, or the build it describes
  config,   \* runtime-config.json of each room: the manifest it names
  lock,     \* ap-identity/<server>.json
  boots,    \* what each emulator ever started loaded
  up,       \* those still running
  logins,   \* every client ever started
  open,     \* those still running
  step, job,  \* the worker's step and the locals of its call
  spoke,    \* history: the room the last client on each server spoke for
  waved,    \* history: servers at which the player has since agreed to another room
  faults

files   == <<cache, overlay, witness, config, lock>>
procs   == <<boots, up, logins, open>>
history == <<spoke, waved>>
launchVars == <<field, files, procs, step, job, history, faults>>

Content == Room \cup {"missing", "broken"}

(* A tree at mods: the key it was activated under, what it was made from,   *)
(* and whose activation it is (0 is ours; BBLauncher's are numbered).       *)
Overlays == [room : Room \cup {NoRoom}, made : Room \cup {NoRoom}, gen : Nat]
Vanilla == [room |-> NoRoom, made |-> NoRoom, gen |-> 0]

Job == [what : {"none", "launch", "randomize", "connect", "vanilla",
                "export", "retry", "verify", "attach", "host"},
        server : Server \cup {NoServer}, slot : Room \cup {NoRoom}, agreed : BOOLEAN, rebuild : BOOLEAN,
        first : Room \cup {NoRoom}, room : Room \cup {NoRoom},
        made : Room \cup {NoRoom}, game : Nat, gen : Nat]

NoJob == [what |-> "none", server |-> NoServer, slot |-> NoRoom, agreed |-> FALSE, rebuild |-> FALSE,
          first |-> NoRoom, room |-> NoRoom, made |-> NoRoom, game |-> 0, gen |-> 0]

LaunchSteps == {"read", "prepare", "evict", "write", "publish", "built", "stopped",
                "switch", "witness", "witnessed", "config", "game", "spawned", "late",
                "client"}

LaunchInit ==
  /\ field \in [room : Room, server : Server]
  /\ cache = [r \in Room |-> "missing"]
  /\ overlay = Vanilla
  /\ witness = [r \in Room |-> "missing"]
  /\ config = [r \in Room |-> NoRoom]
  /\ lock = [s \in Server |-> NoRoom]
  /\ boots = << >> /\ up = {} /\ logins = << >> /\ open = {}
  /\ step = "idle" /\ job = NoJob
  /\ spoke = [s \in Server |-> NoRoom] /\ waved = {}
  /\ faults = 0

To(next) == step' = next
Done == step' = "idle" /\ job' = NoJob

(* The worker raises: what it has done so far stays.                        *)
Fail(from) ==
  /\ step \in from /\ Done
  /\ UNCHANGED <<field, files, procs, history, faults>>

Builds == {"launch", "randomize", "export", "retry"}

(* The calls that use the plan's slot.                                      *)
Speaks == {"launch", "connect"}

(* A button: the plan is generated, with the slot the request names now,    *)
(* and the settings are captured.                                           *)
Press(what, agreed, rebuild) ==
  /\ step = "idle"
  /\ To("read")
  /\ job' = [NoJob EXCEPT !.what = what, !.agreed = agreed, !.rebuild = rebuild,
                          !.server = field.server,
                          !.slot = IF what \in Speaks THEN field.room ELSE NoRoom]
  /\ UNCHANGED <<field, files, procs, history, faults>>

-----------------------------------------------------------------------------
(* check_seed_slot_identity *)

(* Mutant: the server is remembered without being compared.                 *)
MayUseAny(server, room, agreed) == TRUE

MayUse(server, room, agreed) == agreed \/ lock[server] \in {NoRoom, room}

Remember(server, room, agreed) ==
  /\ MayUse(server, room, agreed)
  /\ lock' = [lock EXCEPT ![server] = room]
  /\ waved' = IF agreed /\ lock[server] \notin {NoRoom, room}
               THEN waved \cup {server} ELSE waved

-----------------------------------------------------------------------------
(* prepare_seed and the request read before it *)

ReadRequest ==
  /\ step = "read" /\ job.what \in Builds
  /\ IF job.what = "launch"
     THEN /\ Remember(job.server, field.room, job.agreed)
          /\ job' = [job EXCEPT !.first = field.room, !.agreed = FALSE]
     ELSE UNCHANGED <<lock, waved, job>>
  /\ To("prepare")
  /\ UNCHANGED <<field, cache, overlay, witness, config, procs, spoke, faults>>

ReadRefused ==
  /\ job.what = "launch" /\ ~MayUse(job.server, field.room, job.agreed)
  /\ Fail({"read"})

(* Mutant: the key is computed from the request as it was first read.       *)
KeyRoomFirst == IF job.what = "launch" THEN job.first ELSE field.room

(* The request is read again; its hash names the cache entry.               *)
KeyRoom == field.room

Prepare ==
  /\ step = "prepare"
  /\ job' = [job EXCEPT !.room = KeyRoom, !.rebuild = FALSE]
  /\ IF cache[KeyRoom] = "missing" THEN To("write") /\ UNCHANGED cache
     ELSE IF job.rebuild
     THEN To("evict") /\ cache' = [cache EXCEPT ![KeyRoom] = "broken"]
     ELSE cache[KeyRoom] # "broken" /\ To("built") /\ UNCHANGED cache
  /\ UNCHANGED <<field, overlay, witness, config, lock, procs, history, faults>>

PrepareRefused ==
  /\ cache[field.room] = "broken" /\ ~job.rebuild
  /\ Fail({"prepare"})

Evict ==
  /\ step = "evict"
  /\ cache' = [cache EXCEPT ![job.room] = "missing"]
  /\ To("write")
  /\ UNCHANGED <<field, overlay, witness, config, lock, procs, job, history, faults>>

(* The writers are handed the path of the request, not what was read.       *)
RunWriters ==
  /\ step = "write"
  /\ job' = [job EXCEPT !.made = field.room]
  /\ To("publish")
  /\ UNCHANGED <<field, files, procs, history, faults>>

(* Staged and verified, then renamed into place.                            *)
PublishBuild ==
  /\ step = "publish"
  /\ cache' = [cache EXCEPT ![job.room] = job.made]
  /\ To("built")
  /\ UNCHANGED <<field, overlay, witness, config, lock, procs, job, history, faults>>

BuildFails == Fail({"write", "publish"})

Randomized ==
  /\ job.what = "randomize"
  /\ Fail({"built"})

-----------------------------------------------------------------------------
(* randomize_and_launch, from the prepared seed on *)

(* Mutant: nobody asks whether the request changed in between.              *)
SameRequestNever == TRUE

SameRequest == job.room = job.first

Recheck ==
  /\ step = "built" /\ job.what = "launch" /\ SameRequest
  /\ To("stopped")
  /\ UNCHANGED <<field, files, procs, job, history, faults>>

RecheckRefused ==
  /\ job.what = "launch" /\ ~SameRequest
  /\ Fail({"built"})

CheckStopped ==
  /\ step = "stopped" /\ up = {}
  /\ To("switch")
  /\ UNCHANGED <<field, files, procs, job, history, faults>>

Activate ==
  /\ step = "switch" /\ job.what = "launch"
  /\ cache[job.room] \in Room /\ overlay.gen = 0
  /\ overlay' = [room |-> job.room, made |-> cache[job.room], gen |-> 0]
  /\ To("witness")
  /\ UNCHANGED <<field, cache, witness, config, lock, procs, job, history, faults>>

(* It may end without an overlay: a damaged or foreign one was moved aside. *)
ActivateFails ==
  \/ Fail({"stopped", "switch"})
  \/ /\ step = "switch" /\ Done
     /\ overlay' = Vanilla
     /\ UNCHANGED <<field, cache, witness, config, lock, procs, history, faults>>

(* _write_seed_suppression_manifest empties the file, then fills it.        *)
WriteWitness ==
  /\ \/ /\ step = "witness"
        /\ witness' = [witness EXCEPT ![job.room] = "broken"]
        /\ To("witnessed")
     \/ /\ step = "witnessed"
        /\ witness' = [witness EXCEPT ![job.room] = cache[job.room]]
        /\ To("config")
  /\ UNCHANGED <<field, cache, overlay, config, lock, procs, job, history, faults>>

(* write_client_runtime_config verifies the overlay again, by its key.      *)
ConfigRoom == IF job.what = "launch" THEN job.first ELSE job.room

WriteConfig ==
  /\ step = "config" /\ job.what \in {"launch", "connect"}
  /\ overlay.room = job.room /\ overlay.gen = 0
  /\ witness[job.room] # "missing"
  /\ config' = [config EXCEPT ![ConfigRoom] = job.room]
  /\ To(IF job.what = "launch" THEN "game" ELSE "late")
  /\ UNCHANGED <<field, cache, overlay, witness, lock, procs, job, history, faults>>

Boot(by) ==
  /\ Len(boots) < MaxBoots
  /\ boots' = Append(boots, overlay)
  /\ up' = up \cup {Len(boots')}
  /\ job' = IF by = "launcher" THEN [job EXCEPT !.game = Len(boots')] ELSE job
  /\ UNCHANGED <<logins, open>>

SpawnGame ==
  /\ step = "game" /\ Boot("launcher")
  /\ IF job.what = "vanilla" THEN To("spawned") ELSE To("client")
  /\ UNCHANGED <<field, files, history, faults>>

VanillaDone == Fail({"spawned"})

(* The client connects with the plan's server and slot.  It hashes the      *)
(* installed binder against its manifest and ends when they differ.         *)
SpawnClient ==
  /\ step = "client"
  /\ LET c == [game |-> job.game, room |-> ConfigRoom, slot |-> job.slot,
               server |-> job.server, gen |-> job.gen, alone |-> up \subseteq {job.game}]
     IN IF witness[config[ConfigRoom]] = overlay.made /\ Len(logins) < MaxLogins
        THEN /\ logins' = Append(logins, c)
             /\ open' = open \cup {Len(logins')}
             /\ spoke' = [spoke EXCEPT ![job.server] = ConfigRoom]
             /\ waved' = waved \ {job.server}
        ELSE UNCHANGED <<logins, open, history>>
  /\ Done
  /\ UNCHANGED <<field, files, boots, up, faults>>

(* A component fails to start, or nothing fits: those started keep running. *)
LaunchFails == Fail({"config", "game", "client"})

-----------------------------------------------------------------------------
(* connect_to_running and launch_vanilla *)

Connect ==
  /\ step = "read" /\ job.what = "connect"
  /\ open = {}
  /\ overlay.room = field.room /\ overlay.gen = 0
  /\ cache[overlay.room] = overlay.made
  /\ Remember(job.server, field.room, job.agreed)
  /\ \E g \in up :
       /\ up = {g}
       /\ job' = [job EXCEPT !.room = overlay.room, !.game = g, !.agreed = FALSE]
  /\ To("config")
  /\ UNCHANGED <<field, cache, overlay, witness, config, procs, spoke, faults>>

(* Mutant: the emulator is not looked at again before the client starts.    *)
StillAloneUnchecked == TRUE

StillAlone == up = {job.game} /\ open = {}

LateCheck ==
  /\ step = "late" /\ job.what = "connect" /\ StillAlone
  /\ To("client")
  /\ UNCHANGED <<field, files, procs, job, history, faults>>

LateRefused == job.what = "connect" /\ ~StillAlone /\ Fail({"late"})

Refused == job.what \in {"connect", "vanilla", "verify", "attach"} /\ Fail({"read"})

LaunchVanilla ==
  /\ step = "read" /\ job.what = "vanilla" /\ up = {}
  /\ overlay.gen = 0
  /\ overlay' = Vanilla
  /\ To("game")
  /\ UNCHANGED <<field, cache, witness, config, lock, procs, job, history, faults>>

-----------------------------------------------------------------------------
(* The player and the machine *)

EditFields ==
  /\ step \in EditAt
  /\ field' \in [room : Room, server : Server] \ {field}
  /\ UNCHANGED <<files, procs, step, job, history, faults>>

BootByHand ==
  /\ step \in BootAt /\ Boot("hand")
  /\ UNCHANGED <<field, files, step, history, faults>>

QuitGame ==
  /\ \E g \in up : up' = up \ {g}
  /\ UNCHANGED <<field, files, boots, logins, open, step, job, history, faults>>

QuitClient ==
  /\ \E c \in open : open' = open \ {c}
  /\ UNCHANGED <<field, files, boots, up, logins, step, job, history, faults>>

(* A deleted or edited build, or an overlay that no longer verifies.        *)
Spoil ==
  /\ step = "idle" /\ faults < MaxFaults
  /\ faults' = faults + 1
  /\ \/ /\ \E r \in Room : /\ cache[r] # "missing"
                           /\ \E c \in {"missing", "broken"} : cache' = [cache EXCEPT ![r] = c]
        /\ UNCHANGED overlay
     \/ overlay # Vanilla /\ overlay.gen = 0 /\ overlay' = Vanilla /\ UNCHANGED cache
  /\ UNCHANGED <<field, witness, config, lock, procs, step, job, history>>

WorkerDies ==
  /\ step # "idle" /\ faults < MaxFaults
  /\ faults' = faults + 1
  /\ Done
  /\ UNCHANGED <<field, files, procs, history>>

-----------------------------------------------------------------------------

Presses ==
  \/ \E agreed \in BOOLEAN, rebuild \in BOOLEAN : Press("launch", agreed, rebuild)
  \/ Press("connect", FALSE, FALSE)
  \/ \E what \in {"randomize", "vanilla"} : Press(what, FALSE, FALSE)

PreparesSeed ==
  ReadRequest \/ ReadRefused \/ Prepare \/ PrepareRefused \/ Evict \/ RunWriters
  \/ PublishBuild \/ BuildFails \/ Randomized

Launches ==
  Recheck \/ RecheckRefused \/ CheckStopped \/ Activate \/ ActivateFails \/ WriteWitness
  \/ WriteConfig \/ SpawnGame \/ VanillaDone \/ SpawnClient \/ LaunchFails
  \/ Connect \/ LateCheck \/ LateRefused \/ Refused \/ LaunchVanilla

Around == EditFields \/ BootByHand \/ QuitGame \/ QuitClient \/ Spoil \/ WorkerDies

LaunchNext == Presses \/ PreparesSeed \/ Launches \/ Around

LaunchSpec == LaunchInit /\ [][LaunchNext]_launchVars

(***************************************************************************)
(*                               Properties                                *)
(***************************************************************************)

Login == [game : Nat, room : Room, slot : Room, server : Server, gen : Nat,
           alone : BOOLEAN]

(* Every variable holds what the code can put there.                        *)
LaunchTypeOK ==
  /\ field \in [room : Room, server : Server]
  /\ cache \in [Room -> Content] /\ witness \in [Room -> Content]
  /\ overlay \in Overlays
  /\ config \in [Room -> Room \cup {NoRoom}] /\ lock \in [Server -> Room \cup {NoRoom}]
  /\ boots \in Seq(Overlays) /\ Len(boots) <= MaxBoots /\ up \subseteq 1 .. Len(boots)
  /\ logins \in Seq(Login) /\ Len(logins) <= MaxLogins
  /\ open \subseteq 1 .. Len(logins)
  /\ job \in Job
  /\ spoke \in [Server -> Room \cup {NoRoom}] /\ waved \subseteq Server
  /\ faults \in 0 .. MaxFaults

(* The launcher tells the player which seed is being played.  Whatever was  *)
(* rebuilt, swapped or killed before: when a client is started, no other    *)
(* emulator runs, what its own loaded was made for the room whose configuration  *)
(* the client reads, and the client logs in to that room's slot.            *)
SpeaksForItsGame ==
  \A i \in 1 .. Len(logins) :
    LET c == logins[i] IN
    c.alone /\ c.slot = c.room /\ boots[c.game].room = c.room /\ boots[c.game].made = c.room

(* check_seed_slot_identity: "Refuse an AP connection that would replay     *)
(* another room's history."  Between a client that spoke for one room on a  *)
(* server and one that speaks for another, the player has agreed to put     *)
(* another room in the place of the one remembered, or hosted one there.    *)
NoSilentRoomChange ==
  [][\A s \in Server :
       spoke'[s] # spoke[s] => spoke[s] = NoRoom \/ s \in waved]_launchVars

(* A cache entry is named by the hash of everything it was made from, and   *)
(* is reused on the strength of that name alone.                            *)
CacheIsTrue == \A r \in Room : cache[r] \in Room => cache[r] = r

=============================================================================
